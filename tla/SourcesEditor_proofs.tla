-------------------------- MODULE SourcesEditor_proofs --------------------------
(***************************************************************************)
(* Proofs about SourcesEditor, for any sources, catalogue and screens: the *)
(* string a screen saves is read back as the list it showed, ticks and     *)
(* list agree, and what has no row is kept.                                *)
(***************************************************************************)
EXTENDS SourcesEditor, UserRecord_proofs, FiniteSetTheorems, WellFoundedInduction

-----------------------------------------------------------------------------
(* Loops over a list.  The functions of SourcesEditor that run through a    *)
(* list are recursive; that there are such functions has to be shown.       *)

\* Induction over the naturals, for a set in place of a predicate.
LEMMA Counting ==
    ASSUME NEW S, 0 \in S, \A n \in S \cap Nat : n + 1 \in S
    PROVE  Nat \subseteq S
<1> SUFFICES ASSUME NEW m \in Nat, m \notin S PROVE FALSE
  OBVIOUS
<1> DEFINE T == {n \in Nat : n \notin S}
<1>1. T \subseteq Nat /\ T # {}
  OBVIOUS
<1>2. IsWellFoundedOn({ss \in Nat \X Nat : ss[1] < ss[2]}, Nat)
  BY NatLessThanWellFounded DEF OpToRel
<1>3. PICK x \in T : \A y \in T : ~ (<<y, x>> \in {ss \in Nat \X Nat : ss[1] < ss[2]})
  <2> HIDE DEF T
  <2> QED BY <1>1, <1>2, WFMin
<1>4. \A y \in T : ~ (y < x)
  BY <1>3
<1>5. x # 0 /\ x - 1 \in Nat /\ x - 1 < x /\ x = (x - 1) + 1
  OBVIOUS
<1>6. x - 1 \in S
  BY <1>4, <1>5
<1> QED BY <1>5, <1>6

\* What a turn makes of the result so far and the next item.
Goes(step, S, C) == step \in [S \X C -> S]

\* The first k turns of a loop over a list, from base, by the function step.
Turns(f, step, base, list, k) ==
    /\ f = [n \in 0..k |-> f[n]]
    /\ f[0] = base
    /\ \A n \in 0..k - 1 : f[n + 1] = step[<<f[n], list[n + 1]>>]

\* The same with all its results in S.
TurnsIn(S, f, step, base, list) ==
    f \in [0..Len(list) -> S] /\ Turns(f, step, base, list, Len(list))

\* There is a loop over every list, and it stays within the type of its result.
LEMMA LoopExists ==
    ASSUME NEW S, NEW C, NEW step, Goes(step, S, C), NEW base \in S, NEW list \in Seq(C)
    PROVE  \E f : TurnsIn(S, f, step, base, list)
<1> DEFINE T == {k \in Nat : k <= Len(list) =>
                    \E f \in [0..k -> S] : Turns(f, step, base, list, k)}
<1>1. 0 \in T
  <2> DEFINE f == [n \in 0..0 |-> base]
  <2>1. 0..0 = {0} /\ ~ \E n : n \in 0..0 - 1
    OBVIOUS
  <2>2. f \in [0..0 -> S] /\ f[0] = base /\ f = [n \in 0..0 |-> f[n]]
    BY <2>1
  <2>3. Turns(f, step, base, list, 0)
    BY <2>1, <2>2 DEF Turns
  <2> QED BY <2>2, <2>3
<1>2. ASSUME NEW k \in T \cap Nat PROVE k + 1 \in T
  <2>1. SUFFICES ASSUME k + 1 <= Len(list)
                 PROVE  \E f \in [0..k + 1 -> S] : Turns(f, step, base, list, k + 1)
    OBVIOUS
  <2>2. Len(list) \in Nat /\ DOMAIN list = 1..Len(list)
    BY LenProperties
  <2>3. PICK g \in [0..k -> S] : Turns(g, step, base, list, k)
    BY <1>2, <2>1, <2>2
  <2>4. list[k + 1] \in C /\ g[k] \in S
    <3>1. k + 1 \in 1..Len(list) /\ k \in 0..k
      BY <2>1, <2>2
    <3> QED BY <3>1, ElementOfSeq
  <2>5. step[<<g[k], list[k + 1]>>] \in S
    BY <2>4 DEF Goes
  <2> DEFINE f == [n \in 0..k + 1 |-> IF n = k + 1 THEN step[<<g[k], list[k + 1]>>] ELSE g[n]]
  <2>6. /\ f \in [0..k + 1 -> S] /\ f = [n \in 0..k + 1 |-> f[n]]
        /\ \A n \in 0..k : f[n] = g[n]
        /\ f[k + 1] = step[<<g[k], list[k + 1]>>]
    <3>1. \A n \in 0..k + 1 : n # k + 1 => n \in 0..k
      OBVIOUS
    <3>2. \A n \in 0..k : n \in 0..k + 1 /\ n # k + 1
      OBVIOUS
    <3> QED BY <2>5, <3>1, <3>2
  <2> HIDE DEF f
  <2>7. f[0] = base
    <3>1. 0 \in 0..k
      OBVIOUS
    <3> QED BY <2>3, <2>6, <3>1 DEF Turns
  <2>8. ASSUME NEW n \in 0..(k + 1) - 1 PROVE f[n + 1] = step[<<f[n], list[n + 1]>>]
    <3>1. n \in 0..k
      OBVIOUS
    <3>2. CASE n = k
      BY <2>6, <3>1, <3>2
    <3>3. CASE n # k
      <4>1. n \in 0..k - 1 /\ n + 1 \in 0..k
        BY <3>1, <3>3
      <4>2. g[n + 1] = step[<<g[n], list[n + 1]>>]
        BY <2>3, <4>1 DEF Turns
      <4> QED BY <2>6, <3>1, <4>1, <4>2
    <3> QED BY <3>2, <3>3
  <2> QED BY <2>6, <2>7, <2>8 DEF Turns
<1> HIDE DEF T
<1>3. Nat \subseteq T
  BY <1>1, <1>2, Counting
<1>4. Len(list) \in T /\ Len(list) <= Len(list)
  BY <1>3, LenProperties
<1>5. PICK f \in [0..Len(list) -> S] : Turns(f, step, base, list, Len(list))
  BY <1>4 DEF T
<1> QED BY <1>5 DEF TurnsIn

\* What the whole loop makes of a list.
Loop(step, base, list) == (CHOOSE f : Turns(f, step, base, list, Len(list)))[Len(list)]

\* It stays within the type of its result.
LEMMA LoopTurns ==
    ASSUME NEW S, NEW C, NEW step, Goes(step, S, C), NEW base \in S, NEW list \in Seq(C)
    PROVE  \E f : TurnsIn(S, f, step, base, list) /\ Loop(step, base, list) = f[Len(list)]
<1> DEFINE g == CHOOSE f : Turns(f, step, base, list, Len(list))
<1>1. PICK f : TurnsIn(S, f, step, base, list)
  BY LoopExists
<1>2. Turns(f, step, base, list, Len(list)) /\ Turns(g, step, base, list, Len(list))
  BY <1>1 DEF TurnsIn
<1>3. Loop(step, base, list) = g[Len(list)]
  BY DEF Loop
<1> HIDE DEF g
<1> DEFINE T == {k \in Nat : k <= Len(list) => g[k] = f[k]}
<1>4. 0 \in T
  BY <1>2 DEF Turns
<1>5. ASSUME NEW k \in T \cap Nat PROVE k + 1 \in T
  <2>1. SUFFICES ASSUME k + 1 <= Len(list) PROVE g[k + 1] = f[k + 1]
    OBVIOUS
  <2>2. k \in 0..Len(list) - 1 /\ g[k] = f[k]
    BY <1>5, <2>1, LenProperties
  <2>3. g[k + 1] = step[<<g[k], list[k + 1]>>]
    BY <1>2, <2>2 DEF Turns
  <2>4. f[k + 1] = step[<<f[k], list[k + 1]>>]
    BY <1>2, <2>2 DEF Turns
  <2> QED BY <2>2, <2>3, <2>4
<1> HIDE DEF T
<1>6. Nat \subseteq T
  BY <1>4, <1>5, Counting
<1>7. Len(list) \in T /\ Len(list) <= Len(list)
  BY <1>6, LenProperties
<1> QED BY <1>1, <1>3, <1>7 DEF T

\* It goes on from what it made of a shorter list.
LEMMA LoopIs ==
    ASSUME NEW S, NEW C, NEW step, Goes(step, S, C), NEW base \in S
    PROVE  /\ Loop(step, base, <<>>) = base
           /\ \A list \in Seq(C) : Loop(step, base, list) \in S
           /\ \A list \in Seq(C), c \in C :
                 Loop(step, base, Append(list, c)) = step[<<Loop(step, base, list), c>>]
<1> DEFINE F(list) == CHOOSE f : Turns(f, step, base, list, Len(list))
<1>1. ASSUME NEW list \in Seq(C) PROVE Turns(F(list), step, base, list, Len(list))
  <2>1. PICK f : TurnsIn(S, f, step, base, list)
    BY LoopExists
  <2> QED BY <2>1 DEF TurnsIn
<1>2. ASSUME NEW list PROVE Loop(step, base, list) = F(list)[Len(list)]
  BY DEF Loop
<1> HIDE DEF F
<1>3. Loop(step, base, <<>>) = base
  <2>1. Turns(F(<<>>), step, base, <<>>, 0)
    BY <1>1, EmptySeq
  <2> QED BY <1>2, <2>1, EmptySeq DEF Turns
<1>4. ASSUME NEW list \in Seq(C), NEW c \in C
      PROVE  Loop(step, base, Append(list, c)) = step[<<Loop(step, base, list), c>>]
  <2> DEFINE more == Append(list, c)
             m == Len(list)
             T == {k \in Nat : k <= m => F(more)[k] = F(list)[k]}
  <2>1. /\ m \in Nat /\ Len(more) = m + 1 /\ more[m + 1] = c /\ more \in Seq(C)
        /\ \A k \in 1..m : more[k] = list[k]
    BY AppendProperties, LenProperties
  <2> HIDE DEF more, m
  <2>2. Turns(F(list), step, base, list, m) /\ Turns(F(more), step, base, more, m + 1)
    BY <1>1, <2>1 DEF m
  <2>3. 0 \in T
    BY <2>2 DEF Turns
  <2>4. ASSUME NEW k \in T \cap Nat PROVE k + 1 \in T
    <3>1. SUFFICES ASSUME k + 1 <= m PROVE F(more)[k + 1] = F(list)[k + 1]
      OBVIOUS
    <3>2. k \in 0..m - 1 /\ k \in 0..(m + 1) - 1 /\ k + 1 \in 1..m /\ F(more)[k] = F(list)[k]
      BY <2>1, <2>4, <3>1
    <3>3. F(list)[k + 1] = step[<<F(list)[k], list[k + 1]>>]
      BY <2>2, <3>2 DEF Turns
    <3>4. F(more)[k + 1] = step[<<F(more)[k], more[k + 1]>>]
      BY <2>2, <3>2 DEF Turns
    <3> QED BY <2>1, <3>2, <3>3, <3>4
  <2>5. F(more)[m] = F(list)[m]
    <3> HIDE DEF T
    <3>1. Nat \subseteq T
      BY <2>3, <2>4, Counting
    <3>2. m \in T /\ m <= m
      BY <2>1, <3>1
    <3> QED BY <3>2 DEF T
  <2>6. F(more)[m + 1] = step[<<F(more)[m], more[m + 1]>>]
    <3>1. m \in 0..(m + 1) - 1
      BY <2>1
    <3> QED BY <2>2, <3>1 DEF Turns
  <2>7. Loop(step, base, list) = F(list)[m] /\ Loop(step, base, more) = F(more)[m + 1]
    BY <1>2, <2>1 DEF m
  <2>8. Loop(step, base, more) = step[<<Loop(step, base, list), c>>]
    BY <2>1, <2>5, <2>6, <2>7
  <2> QED BY <2>8 DEF more
<1>5. ASSUME NEW list \in Seq(C) PROVE Loop(step, base, list) \in S
  <2>1. PICK f : TurnsIn(S, f, step, base, list) /\ Loop(step, base, list) = f[Len(list)]
    BY LoopTurns
  <2>2. Len(list) \in 0..Len(list)
    BY LenProperties
  <2> QED BY <2>1, <2>2 DEF TurnsIn
<1> QED BY <1>3, <1>4, <1>5

-----------------------------------------------------------------------------
(* A list without an item. *)

Dropping(C, item) ==
    [p \in Seq(C) \X C |-> IF p[2] = item THEN p[1] ELSE Append(p[1], p[2])]

\* What is left of a list, item by item.
AllButRuns(C, item) ==
    /\ AllBut(<<>>, item) = <<>>
    /\ \A list \in Seq(C) : AllBut(list, item) \in Seq(C)
    /\ \A list \in Seq(C), c \in C :
          AllBut(Append(list, c), item) =
             IF c = item THEN AllBut(list, item) ELSE Append(AllBut(list, item), c)

LEMMA AllButIs ==
    ASSUME NEW C, NEW item
    PROVE  AllButRuns(C, item)
<1>1. PICK S : S = Seq(C)
  OBVIOUS
<1>2. PICK step : Goes(step, S, C) /\ step = Dropping(C, item)
  <2>1. Dropping(C, item) \in [S \X C -> S]
    BY <1>1, AppendProperties DEF Dropping
  <2> QED BY <2>1 DEF Goes
<1>3. PICK base \in S : base = <<>>
  BY <1>1, EmptySeq
<1>4. ASSUME NEW list \in Seq(C) PROVE AllBut(list, item) = Loop(step, base, list)
  <2> DEFINE V(h, n) == IF n = 0 THEN <<>>
                        ELSE IF list[n] = item THEN h[n - 1]
                        ELSE Append(h[n - 1], list[n])
             e == CHOOSE h : h = [n \in 0..Len(list) |-> V(h, n)]
  <2>1. Len(list) \in Nat /\ \A n \in 1..Len(list) : list[n] \in C
    BY LenProperties, ElementOfSeq
  <2>2. PICK f : TurnsIn(S, f, step, base, list) /\ Loop(step, base, list) = f[Len(list)]
    BY ONLY <1>2, base \in S, list \in Seq(C), LoopTurns
  <2>3. /\ f \in [0..Len(list) -> S] /\ f[0] = <<>>
        /\ \A n \in 0..Len(list) - 1 : f[n + 1] = step[<<f[n], list[n + 1]>>]
    BY <2>2 DEF TurnsIn, Turns
  <2>4. ASSUME NEW n \in 0..Len(list) PROVE f[n] = V(f, n)
    <3>1. CASE n = 0
      BY <2>3, <3>1
    <3>2. CASE n # 0
      <4>1. n - 1 \in 0..Len(list) - 1 /\ (n - 1) + 1 = n /\ n \in 1..Len(list)
            /\ n - 1 \in 0..Len(list)
        BY <2>1, <3>2
      <4>2. f[n] = step[<<f[n - 1], list[n]>>]
        BY <2>3, <4>1
      <4>3. f[n - 1] \in S /\ list[n] \in C
        BY <2>1, <2>3, <4>1
      <4>4. step[<<f[n - 1], list[n]>>] =
               IF list[n] = item THEN f[n - 1] ELSE Append(f[n - 1], list[n])
        BY <1>1, <1>2, <4>3 DEF Dropping
      <4> QED BY <3>2, <4>2, <4>4
    <3> QED BY <3>1, <3>2
  <2>5. f = [n \in 0..Len(list) |-> V(f, n)]
    <3> HIDE DEF V
    <3> QED BY <2>3, <2>4
  <2>6. e = [n \in 0..Len(list) |-> V(e, n)]
    <3> HIDE DEF V
    <3> QED BY <2>5
  <2>7. AllBut(list, item) = e[Len(list)]
    BY DEF AllBut
  <2> HIDE DEF e
  <2>8. ASSUME NEW n \in 0..Len(list) PROVE e[n] = V(e, n)
    <3> HIDE DEF V
    <3> QED BY <2>6
  <2> DEFINE T == {k \in Nat : k <= Len(list) => e[k] = f[k]}
  <2>9. 0 \in T
    BY <2>1, <2>4, <2>8
  <2>10. ASSUME NEW k \in T \cap Nat PROVE k + 1 \in T
    <3>1. SUFFICES ASSUME k + 1 <= Len(list) PROVE e[k + 1] = f[k + 1]
      OBVIOUS
    <3>2. k + 1 \in 0..Len(list) /\ k + 1 # 0 /\ (k + 1) - 1 = k /\ e[k] = f[k]
      BY <2>1, <2>10, <3>1
    <3>3. V(e, k + 1) = V(f, k + 1)
      BY <3>2
    <3> HIDE DEF V
    <3> QED BY <2>4, <2>8, <3>2, <3>3
  <2> HIDE DEF T
  <2>11. Len(list) \in T /\ Len(list) <= Len(list)
    BY <2>1, <2>9, <2>10, Counting
  <2> QED BY <2>2, <2>7, <2>11 DEF T
<1>5. /\ Loop(step, base, <<>>) = base
      /\ \A list \in Seq(C) : Loop(step, base, list) \in S
      /\ \A list \in Seq(C), c \in C :
            Loop(step, base, Append(list, c)) = step[<<Loop(step, base, list), c>>]
  BY <1>2, LoopIs
<1>6. AllBut(<<>>, item) = <<>>
  BY <1>3, <1>4, <1>5, EmptySeq
<1>7. \A list \in Seq(C) : AllBut(list, item) \in Seq(C)
  BY <1>1, <1>4, <1>5
<1>8. ASSUME NEW list \in Seq(C), NEW c \in C
      PROVE  AllBut(Append(list, c), item) =
                IF c = item THEN AllBut(list, item) ELSE Append(AllBut(list, item), c)
  <2>1. Append(list, c) \in Seq(C) /\ AllBut(list, item) \in Seq(C)
    BY <1>7, AppendProperties
  <2>2. AllBut(Append(list, c), item) = step[<<AllBut(list, item), c>>]
    BY <1>4, <1>5, <2>1
  <2>3. step[<<AllBut(list, item), c>>] =
           IF c = item THEN AllBut(list, item) ELSE Append(AllBut(list, item), c)
    BY <1>2, <2>1 DEF Dropping
  <2> QED BY <2>2, <2>3
<1> QED BY <1>6, <1>7, <1>8 DEF AllButRuns

-----------------------------------------------------------------------------
(* The stored string. *)

\* What lists of strings are joined within.
Joinable(C) == <<>> \in C /\ \A str, c \in C : str \o <<",">> \o c \in C

Joining(C) ==
    [p \in C \X C |-> IF p[1] = <<>> THEN p[2] ELSE p[1] \o <<",">> \o p[2]]

\* What is saved of a list, item by item.
JoinRuns(C) ==
    /\ Join(<<>>) = <<>>
    /\ \A list \in Seq(C) : Join(list) \in C
    /\ \A list \in Seq(C), c \in C :
          Join(Append(list, c)) =
             IF Join(list) = <<>> THEN c ELSE Join(list) \o <<",">> \o c

LEMMA JoinIs ==
    ASSUME NEW C, Joinable(C)
    PROVE  JoinRuns(C)
<1>1. PICK S : S = C
  OBVIOUS
<1>2. PICK step : Goes(step, S, C) /\ step = Joining(C)
  <2>1. \A str \in S, c \in C : str \o <<",">> \o c \in S
    BY <1>1 DEF Joinable
  <2>2. Joining(C) \in [S \X C -> S]
    BY <1>1, <2>1 DEF Joining
  <2> QED BY <2>2 DEF Goes
<1>3. PICK base \in S : base = <<>>
  BY <1>1 DEF Joinable
<1>4. ASSUME NEW list \in Seq(C) PROVE Join(list) = Loop(step, base, list)
  <2> DEFINE V(h, n) == IF n = 0 THEN <<>>
                        ELSE IF h[n - 1] = <<>> THEN list[n]
                        ELSE h[n - 1] \o <<",">> \o list[n]
             e == CHOOSE h : h = [n \in 0..Len(list) |-> V(h, n)]
  <2>1. Len(list) \in Nat /\ \A n \in 1..Len(list) : list[n] \in C
    BY LenProperties, ElementOfSeq
  <2>2. PICK f : TurnsIn(S, f, step, base, list) /\ Loop(step, base, list) = f[Len(list)]
    BY ONLY <1>2, base \in S, list \in Seq(C), LoopTurns
  <2>3. /\ f \in [0..Len(list) -> S] /\ f[0] = <<>>
        /\ \A n \in 0..Len(list) - 1 : f[n + 1] = step[<<f[n], list[n + 1]>>]
    BY <1>3, <2>2 DEF TurnsIn, Turns
  <2>4. ASSUME NEW n \in 0..Len(list) PROVE f[n] = V(f, n)
    <3>1. CASE n = 0
      BY <2>3, <3>1
    <3>2. CASE n # 0
      <4>1. n - 1 \in 0..Len(list) - 1 /\ (n - 1) + 1 = n /\ n \in 1..Len(list)
            /\ n - 1 \in 0..Len(list)
        BY <2>1, <3>2
      <4>2. f[n] = step[<<f[n - 1], list[n]>>]
        BY <2>3, <4>1
      <4>3. f[n - 1] \in S /\ list[n] \in C
        BY <2>1, <2>3, <4>1
      <4>4. step[<<f[n - 1], list[n]>>] =
               IF f[n - 1] = <<>> THEN list[n] ELSE f[n - 1] \o <<",">> \o list[n]
        BY <1>1, <1>2, <4>3 DEF Joining
      <4> QED BY <3>2, <4>2, <4>4
    <3> QED BY <3>1, <3>2
  <2>5. f = [n \in 0..Len(list) |-> V(f, n)]
    <3> HIDE DEF V
    <3> QED BY <2>3, <2>4
  <2>6. e = [n \in 0..Len(list) |-> V(e, n)]
    <3> HIDE DEF V
    <3> QED BY <2>5
  <2>7. Join(list) = e[Len(list)]
    BY DEF Join
  <2> HIDE DEF e
  <2>8. ASSUME NEW n \in 0..Len(list) PROVE e[n] = V(e, n)
    <3> HIDE DEF V
    <3> QED BY <2>6
  <2> DEFINE T == {k \in Nat : k <= Len(list) => e[k] = f[k]}
  <2>9. 0 \in T
    <3>1. 0 \in 0..Len(list)
      BY <2>1
    <3>2. e[0] = V(e, 0) /\ f[0] = V(f, 0)
      BY <2>4, <2>8, <3>1
    <3> QED BY <3>2
  <2>10. ASSUME NEW k \in T \cap Nat PROVE k + 1 \in T
    <3>1. SUFFICES ASSUME k + 1 <= Len(list) PROVE e[k + 1] = f[k + 1]
      OBVIOUS
    <3>2. k + 1 \in 0..Len(list) /\ k + 1 # 0 /\ (k + 1) - 1 = k /\ e[k] = f[k]
      BY <2>1, <2>10, <3>1
    <3>3. V(e, k + 1) = V(f, k + 1)
      BY <3>2
    <3> HIDE DEF V
    <3> QED BY <2>4, <2>8, <3>2, <3>3
  <2> HIDE DEF T
  <2>11. Len(list) \in T /\ Len(list) <= Len(list)
    BY <2>1, <2>9, <2>10, Counting
  <2> QED BY <2>2, <2>7, <2>11 DEF T
<1>5. /\ Loop(step, base, <<>>) = base
      /\ \A list \in Seq(C) : Loop(step, base, list) \in S
      /\ \A list \in Seq(C), c \in C :
            Loop(step, base, Append(list, c)) = step[<<Loop(step, base, list), c>>]
  BY ONLY <1>2, base \in S, LoopIs
<1>6. Join(<<>>) = <<>>
  BY <1>3, <1>4, <1>5, EmptySeq
<1>7. \A list \in Seq(C) : Join(list) \in C
  BY <1>1, <1>4, <1>5
<1>8. ASSUME NEW list \in Seq(C), NEW c \in C
      PROVE  Join(Append(list, c)) =
                IF Join(list) = <<>> THEN c ELSE Join(list) \o <<",">> \o c
  <2>1. Append(list, c) \in Seq(C) /\ Join(list) \in S
    BY <1>1, <1>7, AppendProperties
  <2>2. Join(Append(list, c)) = step[<<Join(list), c>>]
    BY <1>4, <1>5, <2>1
  <2>3. step[<<Join(list), c>>] =
           IF Join(list) = <<>> THEN c ELSE Join(list) \o <<",">> \o c
    BY <1>1, <1>2, <2>1 DEF Joining
  <2> QED BY <2>2, <2>3
<1> QED BY <1>6, <1>7, <1>8 DEF JoinRuns

\* The list of pieces with a character more at its end.
LEMMA LastGrows ==
    ASSUME NEW C, NEW q \in Seq(Seq(C)), q # <<>>
    PROVE  /\ Append(q, <<>>) \in Seq(Seq(C)) \ {<<>>}
           /\ \A c \in C : [q EXCEPT ![Len(q)] = Append(@, c)] \in Seq(Seq(C)) \ {<<>>}
<1>1. Len(q) \in Nat /\ Len(q) # 0 /\ DOMAIN q = 1..Len(q)
  BY LenProperties, EmptySeq
<1>2. Append(q, <<>>) \in Seq(Seq(C)) /\ Len(Append(q, <<>>)) = Len(q) + 1
  BY AppendProperties, EmptySeq
<1>3. Append(q, <<>>) # <<>>
  BY <1>1, <1>2, EmptySeq
<1>4. ASSUME NEW c \in C
      PROVE  [q EXCEPT ![Len(q)] = Append(@, c)] \in Seq(Seq(C)) \ {<<>>}
  <2>1. q[Len(q)] \in Seq(C)
    BY <1>1, ElementOfSeq
  <2>2. Append(q[Len(q)], c) \in Seq(C)
    BY <2>1, AppendProperties
  <2>3. [q EXCEPT ![Len(q)] = Append(@, c)] \in Seq(Seq(C))
        /\ Len([q EXCEPT ![Len(q)] = Append(@, c)]) = Len(q)
    BY <1>1, <2>2, ExceptSeq
  <2> QED BY <1>1, <2>3, EmptySeq
<1> QED BY <1>2, <1>3, <1>4

Cutting(C) ==
    [p \in (Seq(Seq(C)) \ {<<>>}) \X C |->
        IF p[2] = "," THEN Append(p[1], <<>>)
        ELSE [p[1] EXCEPT ![Len(p[1])] = Append(@, p[2])]]

\* What a string is cut into, character by character.
PiecesRuns(C) ==
    /\ Pieces(<<>>) = << <<>> >>
    /\ \A str \in Seq(C) : Pieces(str) \in Seq(Seq(C)) /\ Pieces(str) # <<>>
    /\ \A str \in Seq(C), c \in C :
          Pieces(Append(str, c)) =
             IF c = "," THEN Append(Pieces(str), <<>>)
             ELSE [Pieces(str) EXCEPT ![Len(Pieces(str))] = Append(@, c)]

LEMMA PiecesIs ==
    ASSUME NEW C
    PROVE  PiecesRuns(C)
<1>1. PICK S : S = Seq(Seq(C)) \ {<<>>}
  OBVIOUS
<1>2. PICK step : Goes(step, S, C) /\ step = Cutting(C)
  <2>1. ASSUME NEW q \in S, NEW c \in C
        PROVE  /\ Append(q, <<>>) \in S
               /\ [q EXCEPT ![Len(q)] = Append(@, c)] \in S
    BY <1>1, LastGrows
  <2>2. Cutting(C) \in [S \X C -> S]
    BY <1>1, <2>1 DEF Cutting
  <2> QED BY <2>2 DEF Goes
<1>3. PICK base \in S : base = << <<>> >>
  <2>1. << <<>> >> \in Seq(Seq(C)) /\ << <<>> >> # <<>>
    <3>1. <<>> \in Seq(C)
      BY EmptySeq
    <3> QED BY <3>1
  <2> QED BY <1>1, <2>1
<1>4. ASSUME NEW str \in Seq(C) PROVE Pieces(str) = Loop(step, base, str)
  <2> DEFINE V(h, n) == IF n = 0 THEN << <<>> >>
                        ELSE IF str[n] = "," THEN Append(h[n - 1], <<>>)
                        ELSE [h[n - 1] EXCEPT ![Len(h[n - 1])] = Append(@, str[n])]
             e == CHOOSE h : h = [n \in 0..Len(str) |-> V(h, n)]
  <2>1. Len(str) \in Nat /\ \A n \in 1..Len(str) : str[n] \in C
    BY LenProperties, ElementOfSeq
  <2>2. PICK f : TurnsIn(S, f, step, base, str) /\ Loop(step, base, str) = f[Len(str)]
    BY ONLY <1>2, base \in S, str \in Seq(C), LoopTurns
  <2>3. /\ f \in [0..Len(str) -> S] /\ f[0] = << <<>> >>
        /\ \A n \in 0..Len(str) - 1 : f[n + 1] = step[<<f[n], str[n + 1]>>]
    BY <1>3, <2>2 DEF TurnsIn, Turns
  <2>4. ASSUME NEW n \in 0..Len(str) PROVE f[n] = V(f, n)
    <3>1. CASE n = 0
      BY <2>3, <3>1
    <3>2. CASE n # 0
      <4>1. n - 1 \in 0..Len(str) - 1 /\ (n - 1) + 1 = n /\ n \in 1..Len(str)
            /\ n - 1 \in 0..Len(str)
        BY <2>1, <3>2
      <4>2. f[n] = step[<<f[n - 1], str[n]>>]
        BY <2>3, <4>1
      <4>3. f[n - 1] \in S /\ str[n] \in C
        BY <2>1, <2>3, <4>1
      <4>4. step[<<f[n - 1], str[n]>>] =
               IF str[n] = "," THEN Append(f[n - 1], <<>>)
               ELSE [f[n - 1] EXCEPT ![Len(f[n - 1])] = Append(@, str[n])]
        BY <1>1, <1>2, <4>3 DEF Cutting
      <4> QED BY <3>2, <4>2, <4>4
    <3> QED BY <3>1, <3>2
  <2>5. f = [n \in 0..Len(str) |-> V(f, n)]
    <3> HIDE DEF V
    <3> QED BY <2>3, <2>4
  <2>6. e = [n \in 0..Len(str) |-> V(e, n)]
    <3> HIDE DEF V
    <3> QED BY <2>5
  <2>7. Pieces(str) = e[Len(str)]
    BY DEF Pieces
  <2> HIDE DEF e
  <2>8. ASSUME NEW n \in 0..Len(str) PROVE e[n] = V(e, n)
    <3> HIDE DEF V
    <3> QED BY <2>6
  <2> DEFINE T == {k \in Nat : k <= Len(str) => e[k] = f[k]}
  <2>9. 0 \in T
    <3>1. 0 \in 0..Len(str)
      BY <2>1
    <3>2. e[0] = V(e, 0) /\ f[0] = V(f, 0)
      BY <2>4, <2>8, <3>1
    <3> QED BY <3>2
  <2>10. ASSUME NEW k \in T \cap Nat PROVE k + 1 \in T
    <3>1. SUFFICES ASSUME k + 1 <= Len(str) PROVE e[k + 1] = f[k + 1]
      OBVIOUS
    <3>2. k + 1 \in 0..Len(str) /\ k + 1 # 0 /\ (k + 1) - 1 = k /\ e[k] = f[k]
      BY <2>1, <2>10, <3>1
    <3>3. V(e, k + 1) = V(f, k + 1)
      BY <3>2
    <3> HIDE DEF V
    <3> QED BY <2>4, <2>8, <3>2, <3>3
  <2> HIDE DEF T
  <2>11. Len(str) \in T /\ Len(str) <= Len(str)
    BY <2>1, <2>9, <2>10, Counting
  <2> QED BY <2>2, <2>7, <2>11 DEF T
<1>5. /\ Loop(step, base, <<>>) = base
      /\ \A str \in Seq(C) : Loop(step, base, str) \in S
      /\ \A str \in Seq(C), c \in C :
            Loop(step, base, Append(str, c)) = step[<<Loop(step, base, str), c>>]
  BY <1>2, LoopIs
<1>6. Pieces(<<>>) = << <<>> >>
  BY <1>3, <1>4, <1>5, EmptySeq
<1>7. \A str \in Seq(C) : Pieces(str) \in Seq(Seq(C)) /\ Pieces(str) # <<>>
  BY <1>1, <1>4, <1>5
<1>8. ASSUME NEW str \in Seq(C), NEW c \in C
      PROVE  Pieces(Append(str, c)) =
                IF c = "," THEN Append(Pieces(str), <<>>)
                ELSE [Pieces(str) EXCEPT ![Len(Pieces(str))] = Append(@, c)]
  <2>1. Append(str, c) \in Seq(C) /\ Pieces(str) \in S
    BY <1>1, <1>7, AppendProperties
  <2>2. Pieces(Append(str, c)) = step[<<Pieces(str), c>>]
    BY <1>4, <1>5, <2>1
  <2>3. step[<<Pieces(str), c>>] =
           IF c = "," THEN Append(Pieces(str), <<>>)
                ELSE [Pieces(str) EXCEPT ![Len(Pieces(str))] = Append(@, c)]
    BY <1>1, <1>2, <2>1 DEF Cutting
  <2> QED BY <2>2, <2>3
<1> QED BY <1>6, <1>7, <1>8 DEF PiecesRuns

-----------------------------------------------------------------------------
(* Lists grow one by one. *)

\* Induction over the lists, for a set in place of a predicate.
LEMMA ListsGrow ==
    ASSUME NEW C, NEW P, <<>> \in P,
           \A list \in Seq(C) \cap P, c \in C : Append(list, c) \in P
    PROVE  Seq(C) \subseteq P
<1> DEFINE T == {n \in Nat : \A list \in Seq(C) : Len(list) = n => list \in P}
<1>1. 0 \in T
  BY EmptySeq
<1>2. ASSUME NEW n \in T \cap Nat PROVE n + 1 \in T
  <2>1. SUFFICES ASSUME NEW list \in Seq(C), Len(list) = n + 1 PROVE list \in P
    OBVIOUS
  <2> DEFINE front == [i \in 1..n |-> list[i]]
  <2>2. list[n + 1] \in C /\ \A i \in 1..n : list[i] \in C
    <3>1. n + 1 \in 1..Len(list) /\ \A i \in 1..n : i \in 1..Len(list)
      BY <2>1
    <3> QED BY <3>1, ElementOfSeq
  <2>3. front \in Seq(C) /\ Len(front) = n
    <3>1. front \in [1..n -> C]
      BY <2>2
    <3> HIDE DEF front
    <3> QED BY <3>1, FunctionIsSeq
  <2>4. list = Append(front, list[n + 1])
    <3>1. /\ Append(front, list[n + 1]) \in Seq(C)
          /\ Len(Append(front, list[n + 1])) = n + 1
          /\ \A i \in 1..n : Append(front, list[n + 1])[i] = list[i]
          /\ Append(front, list[n + 1])[n + 1] = list[n + 1]
      BY <2>2, <2>3, AppendProperties
    <3>2. \A i \in 1..n + 1 : i # n + 1 => i \in 1..n
      OBVIOUS
    <3> HIDE DEF front
    <3>3. \A i \in 1..Len(list) : list[i] = Append(front, list[n + 1])[i]
      BY <2>1, <3>1, <3>2
    <3> QED BY <2>1, <3>1, <3>3, SeqEqual
  <2>5. front \in P
    BY <1>2, <2>3
  <2> HIDE DEF front
  <2> QED BY <2>2, <2>3, <2>4, <2>5
<1> HIDE DEF T
<1>3. Nat \subseteq T
  BY <1>1, <1>2, Counting
<1> QED BY <1>3, LenProperties DEF T

LEMMA AppendSet ==
    ASSUME NEW C, NEW list \in Seq(C), NEW c \in C
    PROVE  /\ ToSet(Append(list, c)) = ToSet(list) \cup {c}
           /\ IsInjective(Append(list, c)) <=> IsInjective(list) /\ c \notin ToSet(list)
<1> DEFINE more == Append(list, c)
<1>1. /\ Len(list) \in Nat /\ DOMAIN list = 1..Len(list)
      /\ DOMAIN more = 1..Len(list) + 1 /\ more[Len(list) + 1] = c
      /\ \A i \in 1..Len(list) : more[i] = list[i]
  BY AppendProperties, LenProperties
<1> HIDE DEF more
<1>2. \A i \in DOMAIN more : i \in DOMAIN list \/ i = Len(list) + 1
  BY <1>1
<1>3. /\ \A i \in DOMAIN list : i \in DOMAIN more /\ more[i] = list[i] /\ i # Len(list) + 1
      /\ Len(list) + 1 \in DOMAIN more
  BY <1>1
<1>4. ToSet(more) = ToSet(list) \cup {c}
  BY <1>1, <1>2, <1>3 DEF ToSet
<1>5. IsInjective(more) <=> IsInjective(list) /\ c \notin ToSet(list)
  <2>1. ASSUME IsInjective(more) PROVE IsInjective(list) /\ c \notin ToSet(list)
    BY <1>1, <1>3, <2>1 DEF IsInjective, ToSet
  <2>2. ASSUME IsInjective(list), c \notin ToSet(list) PROVE IsInjective(more)
    BY <1>1, <1>2, <1>3, <2>2 DEF IsInjective, ToSet
  <2> QED BY <2>1, <2>2
<1> QED BY <1>4, <1>5 DEF more

\* Deselecting a source takes it out of the list and nothing else.
LEMMA AllButKeeps ==
    ASSUME NEW C, NEW item, NEW list \in Seq(C)
    PROVE  /\ ToSet(AllBut(list, item)) = ToSet(list) \ {item}
           /\ IsInjective(list) => IsInjective(AllBut(list, item))
<1> DEFINE P == {l \in Seq(C) : /\ ToSet(AllBut(l, item)) = ToSet(l) \ {item}
                                /\ IsInjective(l) => IsInjective(AllBut(l, item))}
<1>a. /\ AllBut(<<>>, item) = <<>>
      /\ \A l \in Seq(C) : AllBut(l, item) \in Seq(C)
      /\ \A l \in Seq(C), c \in C :
            AllBut(Append(l, c), item) =
               IF c = item THEN AllBut(l, item) ELSE Append(AllBut(l, item), c)
  <2>1. AllButRuns(C, item)
    BY AllButIs
  <2> QED BY <2>1 DEF AllButRuns
<1>1. <<>> \in P
  <2>1. ToSet(<<>>) = {} /\ IsInjective(<<>>) /\ <<>> \in Seq(C)
    BY EmptySeq DEF ToSet, IsInjective
  <2> QED BY <1>a, <2>1
<1>2. ASSUME NEW l \in Seq(C) \cap P, NEW c \in C PROVE Append(l, c) \in P
  <2>1. Append(l, c) \in Seq(C) /\ AllBut(l, item) \in Seq(C)
    BY <1>a, AppendProperties
  <2>2. AllBut(Append(l, c), item) =
           IF c = item THEN AllBut(l, item) ELSE Append(AllBut(l, item), c)
    BY <1>a
  <2>3. /\ ToSet(Append(l, c)) = ToSet(l) \cup {c}
        /\ IsInjective(Append(l, c)) <=> IsInjective(l) /\ c \notin ToSet(l)
    BY AppendSet
  <2>4. PICK r \in Seq(C) : r = AllBut(l, item)
    BY <2>1
  <2>5. /\ ToSet(Append(r, c)) = ToSet(r) \cup {c}
        /\ IsInjective(Append(r, c)) <=> IsInjective(r) /\ c \notin ToSet(r)
    BY AppendSet
  <2>6. ToSet(r) = ToSet(l) \ {item} /\ (IsInjective(l) => IsInjective(r))
    BY <1>2, <2>4
  <2>7. CASE c = item
    BY <2>1, <2>2, <2>3, <2>4, <2>6, <2>7
  <2>8. CASE c # item
    <3>1. AllBut(Append(l, c), item) = Append(r, c)
      BY <2>2, <2>4, <2>8
    <3>2. ToSet(Append(r, c)) = ToSet(Append(l, c)) \ {item}
      BY <2>3, <2>5, <2>6, <2>8
    <3>3. IsInjective(Append(l, c)) => IsInjective(Append(r, c))
      BY <2>3, <2>5, <2>6
    <3> QED BY <2>1, <3>1, <3>2, <3>3
  <2> QED BY <2>7, <2>8
<1> HIDE DEF P
<1>3. Seq(C) \subseteq P
  BY <1>1, <1>2, ListsGrow
<1> QED BY <1>3 DEF P
LEMMA AppendConcat ==
    ASSUME NEW C, NEW s \in Seq(C), NEW w \in Seq(C), NEW c \in C
    PROVE  s \o w \in Seq(C) /\ s \o Append(w, c) = Append(s \o w, c)
<1>1. s \o w \in Seq(C) /\ Append(w, c) \in Seq(C)
  BY ConcatProperties, AppendProperties
<1>2. /\ s \o Append(w, c) \in Seq(C) /\ Append(s \o w, c) \in Seq(C)
      /\ Len(s \o Append(w, c)) = Len(s) + Len(w) + 1
      /\ Len(Append(s \o w, c)) = Len(s) + Len(w) + 1
  <2>1. Len(s) \in Nat /\ Len(w) \in Nat
    BY LenProperties
  <2>2. Len(s \o w) = Len(s) + Len(w) /\ Len(Append(w, c)) = Len(w) + 1
    BY ConcatProperties, AppendProperties
  <2>3. Len(s \o Append(w, c)) = Len(s) + Len(Append(w, c)) /\ s \o Append(w, c) \in Seq(C)
    BY <1>1, ConcatProperties
  <2>4. Len(Append(s \o w, c)) = Len(s \o w) + 1 /\ Append(s \o w, c) \in Seq(C)
    BY <1>1, AppendProperties
  <2> QED BY <2>1, <2>2, <2>3, <2>4
<1>3. ASSUME NEW i \in 1..Len(s) + Len(w) + 1
      PROVE  (s \o Append(w, c))[i] = Append(s \o w, c)[i]
  OBVIOUS
<1> QED BY <1>2, <1>3, SeqEqual

\* The last of a list changed.
LEMMA LastAppend ==
    ASSUME NEW C, NEW q \in Seq(Seq(C)), NEW u \in Seq(C), NEW c \in C
    PROVE  Append(q, Append(u, c)) = [Append(q, u) EXCEPT ![Len(Append(q, u))] = Append(@, c)]
<1> DEFINE S == Seq(C)
<1>1. Append(u, c) \in S /\ u \in S /\ q \in Seq(S)
  BY AppendProperties
<1> HIDE DEF S
<1>2. PICK z \in S : z = Append(u, c)
  BY <1>1
<1>3. /\ Len(q) \in Nat /\ Len(Append(q, u)) = Len(q) + 1 /\ Append(q, u)[Len(q) + 1] = u
      /\ DOMAIN Append(q, u) = 1..Len(q) + 1 /\ DOMAIN Append(q, z) = 1..Len(q) + 1
      /\ Append(q, z)[Len(q) + 1] = z
      /\ \A i \in 1..Len(q) : Append(q, u)[i] = q[i] /\ Append(q, z)[i] = q[i]
      /\ Append(q, z) \in Seq(S) /\ Append(q, u) \in Seq(S)
  BY <1>1, AppendProperties, LenProperties
<1>4. PICK a \in Seq(S), b \in Seq(S) : a = Append(q, u) /\ b = Append(q, z)
  BY <1>3
<1>5. [a EXCEPT ![Len(q) + 1] = z] = b
  <2>1. \A i \in 1..Len(q) + 1 : i = Len(q) + 1 \/ i \in 1..Len(q)
    BY <1>3
  <2>2. \A i \in 1..Len(q) + 1 : b[i] = IF i = Len(q) + 1 THEN z ELSE a[i]
    BY <1>3, <1>4, <2>1
  <2>3. a = [i \in 1..Len(q) + 1 |-> a[i]] /\ b = [i \in 1..Len(q) + 1 |-> b[i]]
    <3>1. DOMAIN a = 1..Len(q) + 1 /\ DOMAIN b = 1..Len(q) + 1
      BY <1>3, <1>4
    <3>2. \A s \in Seq(S) : s = [i \in DOMAIN s |-> s[i]]
      BY SeqDef
    <3> QED BY <3>1, <3>2
  <2> QED BY <2>2, <2>3
<1>6. Append(a[Len(a)], c) = z /\ Len(a) = Len(q) + 1
  BY <1>2, <1>3, <1>4
<1>7. [a EXCEPT ![Len(a)] = Append(@, c)] = [a EXCEPT ![Len(q) + 1] = z]
  BY <1>6
<1> QED BY <1>2, <1>4, <1>5, <1>7
-----------------------------------------------------------------------------
(* What is saved is read back. *)

\* A string without a comma goes to the end of the last piece.
WordGoes(C, str, q, v) ==
    \A w \in Seq(C) : "," \notin ToSet(w) => Pieces(str \o w) = Append(q, v \o w)

LEMMA PiecesWord ==
    ASSUME NEW C, NEW str \in Seq(C), NEW q \in Seq(Seq(C)), NEW v \in Seq(C),
           Pieces(str) = Append(q, v)
    PROVE  WordGoes(C, str, q, v)
<1> DEFINE P == {w \in Seq(C) : "," \notin ToSet(w) => Pieces(str \o w) = Append(q, v \o w)}
<1>1. <<>> \in P
  <2>1. str \o <<>> = str /\ v \o <<>> = v /\ <<>> \in Seq(C)
    BY ConcatEmptySeq, EmptySeq
  <2> QED BY <2>1
<1> HIDE DEF P
<1>2. ASSUME NEW w \in Seq(C) \cap P, NEW c \in C PROVE Append(w, c) \in P
  <2>1. Append(w, c) \in Seq(C) /\ ToSet(Append(w, c)) = ToSet(w) \cup {c}
    BY AppendProperties, AppendSet
  <2>2. ASSUME c # ",", "," \notin ToSet(w)
        PROVE  Pieces(str \o Append(w, c)) = Append(q, v \o Append(w, c))
    <3>1. Pieces(str \o w) = Append(q, v \o w)
      BY <1>2, <2>2 DEF P
    <3>2. /\ str \o w \in Seq(C) /\ str \o Append(w, c) = Append(str \o w, c)
          /\ v \o w \in Seq(C) /\ v \o Append(w, c) = Append(v \o w, c)
      BY AppendConcat
    <3>3. PICK s \in Seq(C), u \in Seq(C) : s = str \o w /\ u = v \o w
      BY <3>2
    <3>4. PiecesRuns(C)
      BY PiecesIs
    <3>5. Pieces(Append(s, c)) = [Pieces(s) EXCEPT ![Len(Pieces(s))] = Append(@, c)]
      BY <2>2, <3>4 DEF PiecesRuns
    <3>6. Append(q, Append(u, c)) = [Append(q, u) EXCEPT ![Len(Append(q, u))] = Append(@, c)]
      BY LastAppend
    <3> QED BY <3>1, <3>2, <3>3, <3>5, <3>6
  <2> QED BY <2>1, <2>2 DEF P
<1>3. Seq(C) \subseteq P
  BY <1>1, <1>2, ListsGrow
<1> QED BY <1>3 DEF P, WordGoes
LEMMA OneItem ==
    ASSUME NEW C, NEW c \in C
    PROVE  /\ <<c>> \in Seq(C) /\ <<c>> = Append(<<>>, c)
           /\ \A s \in Seq(C) : s \o <<c>> = Append(s, c)
<1>1. <<c>> \in Seq(C)
  OBVIOUS
<1>2. \A s \in Seq(C) : s \o <<c>> = Append(s, c)
  OBVIOUS
<1>3. <<>> \in Seq(C) /\ <<>> \o <<c>> = <<c>>
  BY <1>1, ConcatEmptySeq, EmptySeq
<1> QED BY <1>1, <1>2, <1>3

\* Longer alphabets have more strings.
LEMMA SeqWithin ==
    ASSUME NEW D, NEW E, D \subseteq E
    PROVE  Seq(D) \subseteq Seq(E)
<1> SUFFICES ASSUME NEW s \in Seq(D) PROVE s \in Seq(E)
  OBVIOUS
<1>1. Len(s) \in Nat /\ s \in [1..Len(s) -> D]
  BY LenProperties
<1>2. s \in [1..Len(s) -> E]
  BY <1>1
<1> QED BY <1>1, <1>2, SeqDef

\* Joining and splitting a list loses nothing but what is empty.
LEMMA SplitJoin ==
    ASSUME NEW C, "," \in C, NEW D, D = {w \in Seq(C) : "," \notin ToSet(w)}
    PROVE  \A list \in Seq(D) : Split(Join(list)) = AllBut(list, <<>>)
<1> DEFINE S == Seq(C)
           P == {l \in Seq(D) : Split(Join(l)) = AllBut(l, <<>>)}
<1>1. PiecesRuns(C)
  BY PiecesIs
<1>2. JoinRuns(S)
  <2>1. \A str \in S, c \in S : str \o <<",">> \o c \in S
    <3> SUFFICES ASSUME NEW str \in S, NEW c \in S PROVE str \o <<",">> \o c \in S
      OBVIOUS
    <3>1. PICK comma \in C : comma = ","
      OBVIOUS
    <3>2. <<comma>> \in S
      BY OneItem
    <3>3. str \o <<comma>> \in S
      BY <3>2, ConcatProperties
    <3>4. str \o <<comma>> \o c \in S
      BY <3>3, ConcatProperties
    <3> QED BY <3>1, <3>4
  <2>2. <<>> \in S
    BY EmptySeq
  <2>3. Joinable(S)
    BY <2>1, <2>2 DEF Joinable
  <2> HIDE DEF S
  <2> QED BY <2>3, JoinIs
<1>3. AllButRuns(S, <<>>)
  BY AllButIs
<1>4. Seq(D) \subseteq Seq(S) /\ <<>> \in Seq(D) /\ <<>> \in S /\ <<>> \in Seq(S)
  BY SeqWithin, EmptySeq
<1> HIDE DEF S, P
<1>5. Pieces(<<>>) = Append(<<>>, <<>>)
  <2>1. << <<>> >> = Append(<<>>, <<>>)
    BY <1>4, OneItem
  <2> QED BY <1>1, <2>1 DEF PiecesRuns
<1>6. Split(<<>>) = <<>> /\ AllBut(<<>>, <<>>) = <<>> /\ Join(<<>>) = <<>>
  <2>1. AllBut(<<>>, <<>>) = <<>> /\ Join(<<>>) = <<>>
    BY <1>2, <1>3 DEF AllButRuns, JoinRuns
  <2>2. AllBut(Append(<<>>, <<>>), <<>>) = AllBut(<<>>, <<>>)
    BY <1>3, <1>4 DEF AllButRuns
  <2> QED BY <1>5, <2>1, <2>2 DEF Split
<1>7. <<>> \in P
  BY <1>4, <1>6 DEF P
<1>8. ASSUME NEW l \in Seq(D) \cap P, NEW w \in D PROVE Append(l, w) \in P
  <2>1. /\ Append(l, w) \in Seq(D) /\ l \in Seq(S) /\ w \in S /\ "," \notin ToSet(w)
        /\ Split(Join(l)) = AllBut(l, <<>>)
    BY <1>4, <1>8, AppendProperties DEF P, S
  <2>2. PICK j \in S : j = Join(l)
    BY <1>2, <2>1 DEF JoinRuns
  <2>3. PICK q \in Seq(S) : q = Pieces(j)
    BY <1>1, <2>2 DEF PiecesRuns, S
  <2>4. AllBut(q, <<>>) = AllBut(l, <<>>)
    BY <2>1, <2>2, <2>3 DEF Split
  <2>5. /\ AllBut(Append(l, w), <<>>) =
              IF w = <<>> THEN AllBut(l, <<>>) ELSE Append(AllBut(l, <<>>), w)
        /\ AllBut(Append(q, w), <<>>) =
              IF w = <<>> THEN AllBut(q, <<>>) ELSE Append(AllBut(q, <<>>), w)
        /\ AllBut(Append(<<>>, w), <<>>) =
              IF w = <<>> THEN AllBut(<<>>, <<>>) ELSE Append(AllBut(<<>>, <<>>), w)
    BY <1>3, <1>4, <2>1 DEF AllButRuns
  <2>6. <<>> \o w = w
    BY <2>1, ConcatEmptySeq DEF S
  <2>7. CASE j = <<>>
    <3>1. Join(Append(l, w)) = w
      BY <1>2, <2>1, <2>2, <2>7 DEF JoinRuns
    <3>2. Pieces(<<>> \o w) = Append(<<>>, <<>> \o w)
      <4>1. PICK none \in Seq(C), no \in Seq(Seq(C)) : none = <<>> /\ no = <<>>
        BY <1>4 DEF S
      <4>2. Pieces(none) = Append(no, none)
        BY <1>5, <4>1
      <4>3. WordGoes(C, none, no, none)
        BY <4>2, PiecesWord
      <4> QED BY <2>1, <4>1, <4>3 DEF S, WordGoes
    <3>3. Split(w) = AllBut(Append(<<>>, w), <<>>)
      BY <2>6, <3>2 DEF Split
    <3>4. AllBut(l, <<>>) = <<>>
      BY <1>6, <2>1, <2>2, <2>7
    <3> QED BY <1>6, <2>1, <2>5, <3>1, <3>3, <3>4 DEF P
  <2>8. CASE j # <<>>
    <3>1. Join(Append(l, w)) = j \o <<",">> \o w
      BY <1>2, <2>1, <2>2, <2>8 DEF JoinRuns
    <3>2. PICK s \in S : s = Append(j, ",")
      BY AppendProperties DEF S
    <3>3. j \o <<",">> = s
      <4>1. \A r \in Seq(C) : r \o <<",">> = Append(r, ",")
        BY OneItem
      <4> QED BY <3>2, <4>1 DEF S
    <3>4. Pieces(s) = Append(q, <<>>)
      BY <1>1, <2>3, <3>2 DEF PiecesRuns, S
    <3>5. Pieces(s \o w) = Append(q, <<>> \o w)
      <4>1. PICK none \in Seq(C) : none = <<>>
        BY <1>4 DEF S
      <4>2. Pieces(s) = Append(q, none) /\ s \in Seq(C) /\ q \in Seq(Seq(C))
        BY <3>4, <4>1 DEF S
      <4>3. WordGoes(C, s, q, none)
        BY <4>2, PiecesWord
      <4> QED BY <2>1, <4>1, <4>3 DEF S, WordGoes
    <3>6. Split(s \o w) = AllBut(Append(q, w), <<>>)
      BY <2>6, <3>5 DEF Split
    <3> QED BY <2>1, <2>4, <2>5, <3>1, <3>3, <3>6 DEF P
  <2> QED BY <2>7, <2>8
<1>9. Seq(D) \subseteq P
  BY <1>7, <1>8, ListsGrow
<1> QED BY <1>9 DEF P
-----------------------------------------------------------------------------
(* The lists and strings of the Sources screen. *)

Item == Id \cup {<<>>}

Character == STRING \cup {","}

\* Ids, and the empty one, are strings without a comma.
LEMMA ItemWords ==
    Seq(Item) \subseteq Seq({w \in Seq(Character) : "," \notin ToSet(w)})
<1>1. \A id \in Id : id \in Seq(Character) /\ "," \notin ToSet(id)
  <2>1. Seq(STRING) \subseteq Seq(Character)
    BY SeqWithin DEF Character
  <2> QED BY <2>1, IdAssumption
<1>2. <<>> \in Seq(Character) /\ "," \notin ToSet(<<>>)
  BY EmptySeq DEF ToSet
<1>3. Item \subseteq {w \in Seq(Character) : "," \notin ToSet(w)}
  BY <1>1, <1>2 DEF Item
<1> QED BY <1>3, SeqWithin

\* Every list of ids survives being stored, but for what is empty.
LEMMA RoundTrip ==
    \A list \in Seq(Item) : Split(Join(list)) = AllBut(list, <<>>)
<1>1. PICK C : C = Character
  OBVIOUS
<1>2. PICK D : D = {w \in Seq(C) : "," \notin ToSet(w)}
  OBVIOUS
<1>3. "," \in C
  BY <1>1 DEF Character
<1>4. \A list \in Seq(D) : Split(Join(list)) = AllBut(list, <<>>)
  BY <1>2, <1>3, SplitJoin
<1>5. Seq(Item) \subseteq Seq(D)
  BY <1>1, <1>2, ItemWords
<1> QED BY <1>4, <1>5

\* A list that names no source twice is one the assumption on Value is about.
LEMMA ListBounded ==
    \A list \in Seq(Item) : IsInjective(list) => list \in List
<1> SUFFICES ASSUME NEW list \in Seq(Item), IsInjective(list) PROVE list \in List
  OBVIOUS
<1>1. IsFiniteSet(Item) /\ Cardinality(Item) <= Cardinality(Id) + 1
      /\ Cardinality(Id) \in Nat /\ Cardinality(Item) \in Nat
  <2>1. IsFiniteSet(Id)
    BY IdAssumption
  <2>2. Cardinality(Id) \in Nat
    BY <2>1, FS_CardinalityType
  <2>3. IsFiniteSet(Id \cup {<<>>}) /\ Cardinality(Id \cup {<<>>}) =
           IF <<>> \in Id THEN Cardinality(Id) ELSE Cardinality(Id) + 1
    BY <2>1, FS_AddElement
  <2> HIDE DEF Item
  <2>4. IsFiniteSet(Item) /\ (Cardinality(Item) = Cardinality(Id) \/ Cardinality(Item) = Cardinality(Id) + 1)
    BY <2>3 DEF Item
  <2> QED BY <2>2, <2>4
<1>2. Len(list) \in Nat /\ list \in [1..Len(list) -> Item] /\ DOMAIN list = 1..Len(list)
  BY LenProperties
<1>3. IsFiniteSet(1..Len(list)) /\ Cardinality(1..Len(list)) = Len(list)
  BY <1>2, FS_Interval
<1>4. ~ (Cardinality(Item) < Cardinality(1..Len(list)))
  <2> SUFFICES ASSUME Cardinality(Item) < Cardinality(1..Len(list)) PROVE FALSE
    OBVIOUS
  <2>1. \A f \in [1..Len(list) -> Item] : \E x, y \in 1..Len(list) : x # y /\ f[x] = f[y]
    BY <1>1, <1>3, FS_PigeonHole
  <2>2. PICK x \in 1..Len(list), y \in 1..Len(list) : x # y /\ list[x] = list[y]
    BY <1>2, <2>1
  <2> QED BY <1>2, <2>2 DEF IsInjective
<1>5. Len(list) \in 0..Cardinality(Id) + 1
  BY <1>1, <1>2, <1>3, <1>4
<1>6. list \in BoundedSeq(Item, Cardinality(Id) + 1)
  BY <1>2, <1>5 DEF BoundedSeq, SeqOf
<1> QED BY <1>6 DEF List, Item

\* What a list saves can be in the record, and what is in the record can be a list.
LEMMA Saves ==
    ASSUME NEW list \in Seq(Item), IsInjective(list)
    PROVE  Join(list) \in Value
BY ListBounded, WrittenAssumption

LEMMA StoredIs ==
    ASSUME NEW rec \in Record
    PROVE  Stored(rec) \in Seq(Item) /\ IsInjective(Stored(rec))
<1>1. rec[SourcesField] \in Value \cup {Absent}
  BY ScreenAssumption DEF Record
<1>2. CASE rec[SourcesField] = Absent
  BY <1>2, EmptySeq DEF Stored, IsInjective
<1>3. CASE rec[SourcesField] # Absent
  <2>1. PICK list \in List : rec[SourcesField] = Join(list)
    BY <1>1, <1>3, WrittenAssumption
  <2>2. list \in Seq(Item) /\ IsInjective(list)
    <3>1. list \in BoundedSeq(Item, Cardinality(Id) + 1) /\ IsInjective(list)
      BY DEF List, Item
    <3>2. PICK m \in 0..Cardinality(Id) + 1 : list \in [1..m -> Item]
      BY <3>1 DEF BoundedSeq, SeqOf
    <3>3. m \in Nat
      OBVIOUS
    <3> QED BY <3>1, <3>2, <3>3, FunctionIsSeq
  <2>3. Stored(rec) = AllBut(list, <<>>)
    BY <1>3, <2>1, <2>2, RoundTrip DEF Stored
  <2>4. AllButRuns(Item, <<>>)
    BY AllButIs
  <2>5. AllBut(list, <<>>) \in Seq(Item)
    BY <2>2, <2>4 DEF AllButRuns
  <2>6. IsInjective(AllBut(list, <<>>))
    BY <2>2, AllButKeeps
  <2> QED BY <2>3, <2>5, <2>6
<1> QED BY <1>2, <1>3

-----------------------------------------------------------------------------
(* The screens.  The types and TicksMatchList are inductive together: only   *)
(* because a row without a tick is in no list does a tap on it add nothing    *)
(* twice.                                                                     *)

EditorOK == TypeOK /\ EditorTypeOK

EditorInv == EditorOK /\ TicksMatchList

\* The calls of the screens.
LEMMA EditorCalls ==
    ASSUME NEW s \in Screen
    PROVE  /\ <<ObserveCall(s)>> \in Seq(Call)
           /\ \A str \in Value : <<SetCall([f \in {SourcesField} |-> str], s)>> \in Seq(Call)
           /\ <<>> \in Seq(Call) /\ <<>> \in Seq(AppBlock)
<1>1. s \in Kind /\ s \in Tag /\ SourcesField \in Field
  BY ScreenAssumption
<1>2. ObserveCall(s) \in Call
  BY <1>1 DEF ObserveCall, Call
<1>3. ASSUME NEW str \in Value
      PROVE  SetCall([f \in {SourcesField} |-> str], s) \in Call
  <2>1. [f \in {SourcesField} |-> str] \in [{SourcesField} -> Value]
    OBVIOUS
  <2>2. [f \in {SourcesField} |-> str] \in Data
    BY <1>1, <2>1 DEF Data
  <2>3. PICK d \in Data : d = [f \in {SourcesField} |-> str]
    BY <2>2
  <2>4. SetCall(d, s) \in Call
    BY <1>1 DEF SetCall, Call
  <2> QED BY <2>3, <2>4
<1>4. \A c \in Call : <<c>> \in Seq(Call)
  OBVIOUS
<1>5. <<>> \in Seq(Call) /\ <<>> \in Seq(AppBlock)
  BY EmptySeq
<1> QED BY <1>2, <1>3, <1>4, <1>5

\* A turn of the main thread with calls of the right type is a step of Next.
LEMMA TurnStep ==
    ASSUME NEW c \in Seq(Call), NEW b \in Seq(AppBlock), MainTurn(c, b) \/ RunBlock(c, b)
    PROVE  Next
BY DEF Next

\* The list that a screen holds.
LEMMA HeldList ==
    ASSUME EditorOK, NEW s \in Screen
    PROVE  userSources[s] \in Seq(Item) /\ IsInjective(userSources[s])
BY DEF EditorOK, EditorTypeOK, Item

\* Every step of the screens is a step of the database or leaves it alone.
LEMMA EditorStep ==
    ASSUME EditorOK, [EditorNext]_editorVars
    PROVE  [Next]_vars
<1>1. CASE \E s \in Screen : Open(s) \/ CatalogueFails(s)
  BY <1>1 DEF Open, CatalogueFails
<1>2. CASE \E s \in Screen, id \in Catalogue : Select(s, id) \/ Deselect(s, id)
  BY <1>2 DEF Select, Deselect
<1>3. ASSUME NEW s \in Screen, Done(s) PROVE Next
  <2>1. Join(userSources[s]) \in Value
    BY HeldList, Saves
  <2>2. PICK str \in Value : str = Join(userSources[s])
    BY <2>1
  <2>3. MainTurn(<<SetCall([f \in {SourcesField} |-> str], s)>>, <<>>)
    BY <1>3, <2>2 DEF Done
  <2>4. PICK c \in Seq(Call) : c = <<SetCall([f \in {SourcesField} |-> str], s)>>
    BY EditorCalls
  <2>5. <<>> \in Seq(AppBlock) /\ MainTurn(c, <<>>)
    BY <2>3, <2>4, EditorCalls
  <2> QED BY <2>5, TurnStep
<1>4. ASSUME NEW s \in Screen, CatalogueArrives(s) PROVE Next
  <2>1. PICK c \in Seq(Call) : c = <<ObserveCall(s)>>
    BY EditorCalls
  <2>2. <<>> \in Seq(AppBlock) /\ MainTurn(c, <<>>)
    BY <1>4, <2>1, EditorCalls DEF CatalogueArrives
  <2> QED BY <2>2, TurnStep
<1>5. CASE Blocks
  <2>1. RunBlock(<<>>, <<>>)
    BY <1>5 DEF Blocks, SnapshotArrives, SaveAnswered
  <2>2. <<>> \in Seq(Call) /\ <<>> \in Seq(AppBlock)
    BY EmptySeq
  <2> QED BY <2>1, <2>2, TurnStep
<1>6. CASE AlertOk
  BY <1>6 DEF AlertOk
<1>7. CASE Backend \/ (\E rec \in Record : RemoteChange(rec)) \/ Reconnect \/ Restart
  BY <1>7 DEF Next
<1>8. CASE UNCHANGED editorVars
  BY <1>8 DEF editorVars
<1> QED
  BY <1>1, <1>2, <1>3, <1>4, <1>5, <1>6, <1>7, <1>8 DEF EditorNext, User

\* A screen's list and its ticks change together.
LEMMA ListChanges ==
    ASSUME EditorInv, NEW s \in Screen, NEW list \in Seq(Item), IsInjective(list),
           NEW ticks, ticks = Catalogue \cap ToSet(list),
           userSources' = [userSources EXCEPT ![s] = list],
           ticked' = [ticked EXCEPT ![s] = ticks],
           shown' = shown \/ shown' = [shown EXCEPT ![s] = TRUE],
           UNCHANGED <<top, alert, request>>
    PROVE  EditorTypeOK' /\ TicksMatchList'
<1>1. /\ userSources \in [Screen -> Seq(Item)] /\ ticked \in [Screen -> SUBSET Catalogue]
      /\ shown \in [Screen -> BOOLEAN]
  BY DEF EditorInv, EditorOK, EditorTypeOK, Item
<1>2. userSources' \in [Screen -> Seq(Item)]
  BY <1>1
<1>3. ticked' \in [Screen -> SUBSET Catalogue]
  BY <1>1
<1>4. shown' \in [Screen -> BOOLEAN]
  BY <1>1
<1>5. ASSUME NEW t \in Screen
      PROVE  /\ IsInjective(userSources'[t])
             /\ shown'[t] => ticked'[t] = Catalogue \cap ToSet(userSources'[t])
  <2>1. CASE t = s
    <3>1. userSources'[t] = list /\ ticked'[t] = ticks
      BY <1>1, <2>1
    <3> QED BY <3>1
  <2>2. CASE t # s
    <3>1. userSources'[t] = userSources[t] /\ ticked'[t] = ticked[t] /\ shown'[t] = shown[t]
      BY <1>1, <2>2
    <3>2. IsInjective(userSources[t])
      BY HeldList DEF EditorInv
    <3>3. shown[t] => ticked[t] = Catalogue \cap ToSet(userSources[t])
      BY DEF EditorInv, TicksMatchList
    <3> QED BY <3>1, <3>2, <3>3
  <2> QED BY <2>1, <2>2
<1>6. TicksMatchList'
  BY <1>5 DEF TicksMatchList
<1>7. top' = top /\ alert' = alert /\ request' = request
  OBVIOUS
<1>8. /\ top \in Screen \cup {NoScreen} /\ alert \in BOOLEAN /\ (alert => top # NoScreen)
      /\ request \in [Screen -> {"none", "sent", "answered", "failed"}]
  BY DEF EditorInv, EditorOK, EditorTypeOK
<1>9. \A t \in Screen : IsInjective(userSources'[t])
  BY <1>5
<1> QED BY <1>2, <1>3, <1>4, <1>6, <1>7, <1>8, <1>9 DEF EditorTypeOK, Item

\* What the head of the main queue carries.
LEMMA HeadType ==
    ASSUME TypeOK, main # <<>>, Head(main).op = "value"
    PROVE  Head(main).snap \in Record
<1>1. Head(main) \in Block
  BY HeadTailProperties DEF TypeOK
<1> QED BY <1>1, AppBlockAssumption DEF Block

\* A snapshot replaces the list.
LEMMA SnapshotKeeps ==
    ASSUME EditorInv, NEW s \in Screen, SnapshotArrives(s)
    PROVE  EditorTypeOK' /\ TicksMatchList'
<1>1. PICK list : list = Stored(Head(main).snap)
  OBVIOUS
<1>2. list \in Seq(Item) /\ IsInjective(list)
  <2>1. Head(main).snap \in Record
    BY HeadType DEF SnapshotArrives, RunBlock, EditorInv, EditorOK
  <2> QED BY <1>1, <2>1, StoredIs
<1>3. /\ userSources' = [userSources EXCEPT ![s] = list]
      /\ ticked' = [ticked EXCEPT ![s] = Catalogue \cap ToSet(userSources'[s])]
      /\ shown' = [shown EXCEPT ![s] = TRUE]
      /\ UNCHANGED <<top, alert, request>>
  BY <1>1 DEF SnapshotArrives
<1>4. userSources'[s] = list
  BY <1>3 DEF EditorInv, EditorOK, EditorTypeOK
<1> QED BY <1>2, <1>3, <1>4, ListChanges

\* A tap adds its source to the list once.
LEMMA SelectKeeps ==
    ASSUME EditorInv, NEW s \in Screen, NEW id \in Catalogue, Select(s, id)
    PROVE  EditorTypeOK' /\ TicksMatchList'
<1>1. userSources[s] \in Seq(Item) /\ IsInjective(userSources[s]) /\ id \in Item
  BY HeldList, CatalogueAssumption DEF EditorInv, Item
<1>2. ticked[s] = Catalogue \cap ToSet(userSources[s]) /\ id \notin ticked[s]
  BY DEF EditorInv, TicksMatchList, Select
<1>3. PICK list : list = Append(userSources[s], id)
  OBVIOUS
<1>4. /\ ToSet(list) = ToSet(userSources[s]) \cup {id} /\ IsInjective(list)
      /\ list \in Seq(Item)
  BY <1>1, <1>2, <1>3, AppendSet, AppendProperties
<1>5. ticked[s] \cup {id} = Catalogue \cap ToSet(list)
  BY <1>2, <1>4
<1>6. /\ userSources' = [userSources EXCEPT ![s] = list]
      /\ ticked' = [ticked EXCEPT ![s] = ticked[s] \cup {id}]
      /\ UNCHANGED <<top, alert, request, shown>>
  BY <1>3 DEF Select
<1> QED BY <1>4, <1>5, <1>6, ListChanges

\* A tap on a ticked row removes its source.
LEMMA DeselectKeeps ==
    ASSUME EditorInv, NEW s \in Screen, NEW id \in Catalogue, Deselect(s, id)
    PROVE  EditorTypeOK' /\ TicksMatchList'
<1>1. userSources[s] \in Seq(Item) /\ IsInjective(userSources[s])
  BY HeldList DEF EditorInv
<1>2. ticked[s] = Catalogue \cap ToSet(userSources[s])
  BY DEF EditorInv, TicksMatchList, Deselect
<1>3. PICK list : list = AllBut(userSources[s], id)
  OBVIOUS
<1>4. ToSet(list) = ToSet(userSources[s]) \ {id} /\ IsInjective(list)
  BY <1>1, <1>3, AllButKeeps
<1>5. list \in Seq(Item)
  <2>1. AllButRuns(Item, id)
    BY AllButIs
  <2> QED BY <1>1, <1>3, <2>1 DEF AllButRuns
<1>6. ticked[s] \ {id} = Catalogue \cap ToSet(list)
  BY <1>2, <1>4
<1>7. /\ userSources' = [userSources EXCEPT ![s] = list]
      /\ ticked' = [ticked EXCEPT ![s] = ticked[s] \ {id}]
      /\ UNCHANGED <<top, alert, request, shown>>
  BY <1>3 DEF Deselect
<1> QED BY <1>4, <1>5, <1>6, <1>7, ListChanges

\* Steps that touch neither a list nor its ticks.
LEMMA OthersKeep ==
    ASSUME EditorInv, UNCHANGED <<shown, userSources, ticked>>,
           top' \in Screen \cup {NoScreen}, alert' \in BOOLEAN, alert' => top' # NoScreen,
           request' \in [Screen -> {"none", "sent", "answered", "failed"}]
    PROVE  EditorTypeOK' /\ TicksMatchList'
<1>1. TicksMatchList'
  BY DEF EditorInv, TicksMatchList
<1>2. EditorTypeOK'
  BY DEF EditorInv, EditorOK, EditorTypeOK
<1> QED BY <1>1, <1>2

\* Before anything is shown.
LEMMA NothingShown ==
    ASSUME top = NoScreen, alert = FALSE,
           request = [s \in Screen |-> "none"], shown = [s \in Screen |-> FALSE],
           userSources = [s \in Screen |-> <<>>], ticked = [s \in Screen |-> {}]
    PROVE  EditorTypeOK /\ TicksMatchList
<1>1. <<>> \in Seq(Id \cup {<<>>}) /\ IsInjective(<<>>)
  BY EmptySeq DEF IsInjective
<1>2. userSources \in [Screen -> Seq(Id \cup {<<>>})]
  BY <1>1
<1>3. \A s \in Screen : IsInjective(userSources[s])
  BY <1>1
<1>4. TicksMatchList
  BY DEF TicksMatchList
<1> QED BY <1>2, <1>3, <1>4 DEF EditorTypeOK

\* Every step keeps the types of the screens, and ticks and lists together.
LEMMA EditorKeeps ==
    ASSUME EditorInv, [EditorNext]_editorVars
    PROVE  EditorTypeOK' /\ TicksMatchList'
<1>t. /\ top \in Screen \cup {NoScreen} /\ alert \in BOOLEAN /\ (alert => top # NoScreen)
      /\ request \in [Screen -> {"none", "sent", "answered", "failed"}]
      /\ NoScreen \notin Screen
  BY ScreenAssumption DEF EditorInv, EditorOK, EditorTypeOK
<1>u. ASSUME UNCHANGED <<top, alert>>
      PROVE  top' \in Screen \cup {NoScreen} /\ alert' \in BOOLEAN /\ (alert' => top' # NoScreen)
  <2>1. top' = top /\ alert' = alert
    BY <1>u
  <2>2. alert' => top' # NoScreen
    BY <1>t, <2>1
  <2>3. top' \in Screen \cup {NoScreen} /\ alert' \in BOOLEAN
    BY <1>t, <2>1
  <2> QED BY <2>2, <2>3
<1>1. CASE \E s \in Screen : SnapshotArrives(s)
  BY <1>1, SnapshotKeeps
<1>2. CASE \E s \in Screen, id \in Catalogue : Select(s, id) \/ Deselect(s, id)
  BY <1>2, SelectKeeps, DeselectKeeps
<1>3. ASSUME NEW s \in Screen, Open(s)
      PROVE  EditorTypeOK' /\ TicksMatchList'
  BY <1>t, <1>3, OthersKeep DEF Open
<1>4. ASSUME NEW s \in Screen, CatalogueArrives(s) \/ CatalogueFails(s)
      PROVE  EditorTypeOK' /\ TicksMatchList'
  <2>1. /\ top' = top /\ alert' = alert /\ UNCHANGED <<shown, userSources, ticked>>
        /\ \E r \in {"answered", "failed"} : request' = [request EXCEPT ![s] = r]
    BY <1>4 DEF CatalogueArrives, CatalogueFails
  <2>2. request' \in [Screen -> {"none", "sent", "answered", "failed"}]
    BY <1>t, <2>1
  <2> QED BY <1>t, <2>1, <2>2, OthersKeep
<1>5. ASSUME NEW s \in Screen, SaveAnswered(s)
      PROVE  EditorTypeOK' /\ TicksMatchList'
  <2>1. /\ UNCHANGED <<request, shown, userSources, ticked>>
        /\ \/ UNCHANGED <<top, alert>>
           \/ top' = NoScreen /\ alert' = FALSE
           \/ top = s /\ top' = top /\ alert' = TRUE
    BY <1>5 DEF SaveAnswered
  <2>2. top' \in Screen \cup {NoScreen} /\ alert' \in BOOLEAN /\ (alert' => top' # NoScreen)
    <3>1. CASE UNCHANGED <<top, alert>>
      BY <1>u, <3>1
    <3>2. CASE top' = NoScreen /\ alert' = FALSE
      BY <3>2
    <3>3. CASE top = s /\ top' = top /\ alert' = TRUE
      BY <1>t, <3>3
    <3> QED BY <2>1, <3>1, <3>2, <3>3
  <2> QED BY <1>t, <2>1, <2>2, OthersKeep
<1>6. CASE AlertOk
  BY <1>t, <1>6, OthersKeep DEF AlertOk
<1>7. CASE (\E s \in Screen : Done(s)) \/ UNCHANGED screenVars
  <2>1. UNCHANGED <<top, alert>> /\ request' = request /\ UNCHANGED <<shown, userSources, ticked>>
    BY <1>7 DEF Done, screenVars
  <2> QED BY <1>t, <1>u, <2>1, OthersKeep
<1>8. CASE ScreensGone
  <2>1. /\ top' = NoScreen /\ alert' = FALSE
        /\ request' = [s \in Screen |-> "none"] /\ shown' = [s \in Screen |-> FALSE]
        /\ userSources' = [s \in Screen |-> <<>>] /\ ticked' = [s \in Screen |-> {}]
    BY <1>8 DEF ScreensGone
  <2>2. <<>> \in Seq(Id \cup {<<>>}) /\ IsInjective(<<>>)
    BY EmptySeq DEF IsInjective
  <2>3. userSources' \in [Screen -> Seq(Id \cup {<<>>})]
    BY <2>1, <2>2
  <2>4. \A s \in Screen : IsInjective(userSources'[s])
    BY <2>1, <2>2
  <2>5. TicksMatchList'
    BY <2>1 DEF TicksMatchList
  <2> QED BY <2>1, <2>3, <2>4, <2>5 DEF EditorTypeOK
<1>9. CASE UNCHANGED editorVars
  BY <1>7, <1>9 DEF editorVars
<1> QED
  BY <1>1, <1>2, <1>3, <1>4, <1>5, <1>6, <1>7, <1>8, <1>9
     DEF EditorNext, User, Blocks

LEMMA EditorInductive == EditorSpec => []EditorInv
<1>1. EditorInit => EditorInv
  <2>1. EditorInit => TypeOK
    BY InitType DEF EditorInit
  <2>2. EditorInit => EditorTypeOK /\ TicksMatchList
    BY NothingShown DEF EditorInit
  <2> QED BY <2>1, <2>2 DEF EditorInv, EditorOK
<1>2. EditorInv /\ [EditorNext]_editorVars => EditorInv'
  <2> SUFFICES ASSUME EditorInv, [EditorNext]_editorVars PROVE EditorInv'
    OBVIOUS
  <2>1. TypeOK'
    BY EditorStep, NextType DEF EditorInv, EditorOK
  <2>2. EditorTypeOK' /\ TicksMatchList'
    BY EditorKeeps
  <2> QED BY <2>1, <2>2 DEF EditorInv, EditorOK
<1> QED BY <1>1, <1>2, PTL DEF EditorSpec

\* The screens' state is well formed: no list ever has a source twice, and the
\* alert is never left over another screen (SourcesViewController).
THEOREM EditorTypeCorrect == EditorSpec => []EditorTypeOK
<1>1. EditorInv => EditorTypeOK
  BY DEF EditorInv, EditorOK
<1> QED BY <1>1, EditorInductive, PTL

\* The refinement: the Sources screens keep to the protocol of UserRecord, so
\* what is proved of the database holds under them.
THEOREM EditorUsesRecord == EditorSpec => Spec
<1>1. EditorInit => Init
  BY DEF EditorInit
<1>2. EditorInv /\ [EditorNext]_editorVars => [Next]_vars
  BY EditorStep DEF EditorInv
<1> QED BY <1>1, <1>2, EditorInductive, PTL DEF EditorSpec, Spec

\* The rows that are ticked and the list that Done saves agree, whatever
\* snapshots arrive between the taps (didSelectRowAt, didDeselectRowAt).
THEOREM TicksCorrect == EditorSpec => []TicksMatchList
<1>1. EditorInv => TicksMatchList
  BY DEF EditorInv
<1> QED BY <1>1, EditorInductive, PTL

\* The string that a screen saves is read back as the list it shows, whatever
\* the ids and however many (parseNewUserSources, parseUserSources).
THEOREM RoundTripCorrect == EditorSpec => []SaveRoundTrips
<1>1. EditorInv => SaveRoundTrips
  BY HeldList, RoundTrip DEF EditorInv, SaveRoundTrips
<1> QED BY <1>1, EditorInductive, PTL

-----------------------------------------------------------------------------
(* What has no row.  Inductive once each screen is known to register its     *)
(* observer once, and every snapshot on the main queue to be for a           *)
(* registered observer: a second observer of a screen, having been given an  *)
(* older record, would contradict what the first one set.                    *)

Observes(call, s) == call.op = "observe" /\ call.kind = s

\* With r registered and w on the worker queue, screen s has no observer.
Unobserved(r, w, s) ==
    /\ \A i \in DOMAIN r : r[i] # s
    /\ \A j \in DOMAIN w : ~Observes(w[j], s)

\* It has no two, counting the call for one.
ObservedOnce(r, w, s) ==
    /\ \A i, j \in DOMAIN r : r[i] = s /\ r[j] = s => i = j
    /\ \A i, j \in DOMAIN w : Observes(w[i], s) /\ Observes(w[j], s) => i = j
    /\ \A i \in DOMAIN r, j \in DOMAIN w : ~(r[i] = s /\ Observes(w[j], s))

\* A screen observes the record when its catalogue arrives.
ObserversOnce ==
    \A s \in Screen : /\ ObservedOnce(regs, work, s)
                      /\ request[s] # "answered" => Unobserved(regs, work, s)

HiddenInv == EditorInv /\ DeliveryInv /\ ObserversOnce /\ HiddenKept

\* A call that is no registration of the screen.
LEMMA OtherCall ==
    ASSUME NEW s, NEW r, NEW w \in Seq(Call), NEW c \in Call, ~Observes(c, s)
    PROVE  /\ ObservedOnce(r, w, s) => ObservedOnce(r, Append(w, c), s)
           /\ Unobserved(r, w, s) => Unobserved(r, Append(w, c), s)
<1>1. PICK v : v = Append(w, c)
  OBVIOUS
<1>2. /\ Len(w) \in Nat /\ DOMAIN w = 1..Len(w) /\ DOMAIN v = 1..Len(w) + 1
      /\ v[Len(w) + 1] = c /\ \A i \in 1..Len(w) : v[i] = w[i]
  BY <1>1, AppendProperties, LenProperties
<1>3. \A j \in DOMAIN v : Observes(v[j], s) => j \in DOMAIN w /\ Observes(w[j], s)
  <2> SUFFICES ASSUME NEW j \in DOMAIN v, Observes(v[j], s)
               PROVE  j \in DOMAIN w /\ Observes(w[j], s)
    OBVIOUS
  <2>1. CASE j = Len(w) + 1
    BY <1>2, <2>1
  <2>2. CASE j # Len(w) + 1
    <3>1. j \in 1..Len(w)
      BY <1>2, <2>2
    <3> QED BY <1>2, <3>1
  <2> QED BY <2>1, <2>2
<1>4. ObservedOnce(r, w, s) => ObservedOnce(r, v, s)
  BY <1>3 DEF ObservedOnce
<1>5. Unobserved(r, w, s) => Unobserved(r, v, s)
  BY <1>3 DEF Unobserved
<1> QED BY <1>1, <1>4, <1>5

\* The one that is.
LEMMA FirstCall ==
    ASSUME NEW s, NEW r, NEW w \in Seq(Call), NEW c \in Call, Unobserved(r, w, s)
    PROVE  ObservedOnce(r, Append(w, c), s)
<1>1. PICK v : v = Append(w, c)
  OBVIOUS
<1>2. /\ Len(w) \in Nat /\ DOMAIN w = 1..Len(w) /\ DOMAIN v = 1..Len(w) + 1
      /\ \A i \in 1..Len(w) : v[i] = w[i]
  BY <1>1, AppendProperties, LenProperties
<1>3. \A j \in DOMAIN v : Observes(v[j], s) => j = Len(w) + 1
  <2> SUFFICES ASSUME NEW j \in DOMAIN v, Observes(v[j], s), j # Len(w) + 1 PROVE FALSE
    OBVIOUS
  <2>1. j \in DOMAIN w /\ v[j] = w[j]
    BY <1>2
  <2> QED BY <2>1 DEF Unobserved
<1>4. ObservedOnce(r, v, s)
  BY <1>3 DEF ObservedOnce, Unobserved
<1> QED BY <1>1, <1>4

\* The worker takes a call off its queue, and registers an observer if it says so.
LEMMA CallTaken ==
    ASSUME NEW s, NEW r \in Seq(Kind), NEW w \in Seq(Call), w # <<>>,
           NEW x, \/ x = r
                  \/ Head(w).op = "observe" /\ x = Append(r, Head(w).kind)
    PROVE  /\ ObservedOnce(r, w, s) => ObservedOnce(x, Tail(w), s)
           /\ Unobserved(r, w, s) => Unobserved(x, Tail(w), s)
<1>1. PICK v, h : v = Tail(w) /\ h = Head(w)
  OBVIOUS
<1>2. /\ Len(w) \in Nat /\ Len(w) # 0 /\ DOMAIN w = 1..Len(w)
      /\ DOMAIN v = 1..Len(w) - 1 /\ \A i \in 1..Len(w) - 1 : v[i] = w[i + 1]
  <2>1. /\ Tail(w) \in Seq(Call) /\ Len(Tail(w)) = Len(w) - 1
        /\ \A i \in 1..Len(Tail(w)) : Tail(w)[i] = w[i + 1]
    BY HeadTailProperties
  <2> QED BY <1>1, <2>1, LenProperties, EmptySeq
<1>3. h = w[1] /\ 1 \in DOMAIN w /\ h \in Call
  BY <1>1, <1>2, HeadTailProperties
<1>4. \A i \in DOMAIN v : i \in Int /\ i + 1 \in DOMAIN w /\ i + 1 # 1 /\ v[i] = w[i + 1]
  BY <1>2
<1>5. ASSUME NEW i \in DOMAIN v, NEW j \in DOMAIN v, ObservedOnce(r, w, s),
             Observes(v[i], s), Observes(v[j], s)
      PROVE  i = j
  <2>1. i + 1 = j + 1
    BY <1>4, <1>5 DEF ObservedOnce
  <2> QED BY <1>4, <2>1
<1>6. CASE x = r
  <2>1. ObservedOnce(r, w, s) => ObservedOnce(r, v, s)
    BY <1>4, <1>5 DEF ObservedOnce
  <2>2. Unobserved(r, w, s) => Unobserved(r, v, s)
    BY <1>4 DEF Unobserved
  <2> QED BY <1>1, <1>6, <2>1, <2>2
<1>7. CASE h.op = "observe" /\ x = Append(r, h.kind)
  <2>1. h.kind \in Kind
    BY <1>3, <1>7 DEF Call
  <2>2. PICK k \in Kind : k = h.kind
    BY <2>1
  <2>3. /\ Len(r) \in Nat /\ DOMAIN r = 1..Len(r) /\ DOMAIN x = 1..Len(r) + 1
        /\ \A i \in 1..Len(r) : x[i] = r[i]
        /\ x[Len(r) + 1] = k
    BY <1>7, <2>2, AppendProperties, LenProperties
  <2>4. \A i \in DOMAIN x : x[i] = s => \/ i \in DOMAIN r /\ r[i] = s
                                        \/ i = Len(r) + 1 /\ k = s
    <3> SUFFICES ASSUME NEW i \in DOMAIN x, x[i] = s
                 PROVE  \/ i \in DOMAIN r /\ r[i] = s
                        \/ i = Len(r) + 1 /\ k = s
      OBVIOUS
    <3>1. CASE i = Len(r) + 1
      BY <2>3, <3>1
    <3>2. CASE i # Len(r) + 1
      <4>1. i \in 1..Len(r)
        BY <2>3, <3>2
      <4> QED BY <2>3, <4>1
    <3> QED BY <3>1, <3>2
  <2>5. k = s => Observes(w[1], s)
    BY <1>3, <1>7, <2>2 DEF Observes
  <2>6. Unobserved(r, w, s) => Unobserved(x, v, s)
    BY <1>3, <1>4, <2>4, <2>5 DEF Unobserved
  <2>7. ASSUME ObservedOnce(r, w, s) PROVE ObservedOnce(x, v, s)
    <3>1. CASE k = s
      <4>1. Observes(w[1], s)
        BY <2>5, <3>1
      <4>2. \A i \in DOMAIN r : r[i] # s
        BY <1>3, <2>7, <4>1 DEF ObservedOnce
      <4>3. \A j \in DOMAIN v : ~Observes(v[j], s)
        <5> SUFFICES ASSUME NEW j \in DOMAIN v, Observes(v[j], s) PROVE FALSE
          OBVIOUS
        <5>1. j + 1 = 1
          BY <1>3, <1>4, <2>7, <4>1 DEF ObservedOnce
        <5> QED BY <1>4, <5>1
      <4>4. \A i \in DOMAIN x : x[i] = s => i = Len(r) + 1
        BY <2>4, <4>2
      <4> QED BY <4>3, <4>4 DEF ObservedOnce
    <3>2. CASE k # s
      <4>1. \A i \in DOMAIN x : x[i] = s => i \in DOMAIN r /\ r[i] = s
        BY <2>4, <3>2
      <4> QED BY <1>4, <1>5, <2>7, <4>1 DEF ObservedOnce
    <3> QED BY <3>1, <3>2
  <2> QED BY <1>1, <2>6, <2>7
<1> QED BY <1>1, <1>6, <1>7

\* Every step keeps the screens to one observer each.
LEMMA ObserversKept ==
    ASSUME EditorInv, ObserversOnce, [EditorNext]_editorVars
    PROVE  ObserversOnce'
<1>t. /\ work \in Seq(Call) /\ regs \in Seq(Kind)
      /\ request \in [Screen -> {"none", "sent", "answered", "failed"}]
  BY DEF EditorInv, EditorOK, EditorTypeOK, TypeOK
<1>o. \A s \in Screen : /\ ObservedOnce(regs, work, s)
                        /\ request[s] # "answered" => Unobserved(regs, work, s)
  BY DEF ObserversOnce
<1>a. ASSUME regs' = regs, work' = work,
             \A s \in Screen : request'[s] = request[s] \/ request[s] # "answered"
      PROVE  ObserversOnce'
  <2>1. \A s \in Screen : /\ ObservedOnce(regs', work', s)
                          /\ request'[s] # "answered" => Unobserved(regs', work', s)
    BY <1>a, <1>o
  <2> QED BY <2>1 DEF ObserversOnce
<1>b. ASSUME regs' = regs, work' = work \o <<>>, request' = request
      PROVE  ObserversOnce'
  <2>1. work' = work
    BY <1>b, <1>t, ConcatEmptySeq
  <2> QED BY <1>a, <1>b, <2>1
<1>1. ASSUME NEW s \in Screen, Open(s) \/ CatalogueFails(s)
      PROVE  ObserversOnce'
  <2>1. UNCHANGED vars /\ request[s] # "answered"
        /\ \E q : request' = [request EXCEPT ![s] = q]
    BY <1>1 DEF Open, CatalogueFails
  <2>2. regs' = regs /\ work' = work
    BY <2>1 DEF vars
  <2>3. \A t \in Screen : request'[t] = request[t] \/ request[t] # "answered"
    BY <1>t, <2>1
  <2> QED BY <1>a, <2>2, <2>3
<1>2. CASE \E s \in Screen, id \in Catalogue : Select(s, id) \/ Deselect(s, id)
  <2>1. regs' = regs /\ work' = work /\ request' = request
    BY <1>2 DEF Select, Deselect, vars
  <2> QED BY <1>a, <2>1
<1>3. ASSUME NEW s \in Screen, Done(s)
      PROVE  ObserversOnce'
  <2>1. PICK c : c = SetCall([f \in {SourcesField} |-> Join(userSources[s])], s)
    OBVIOUS
  <2>2. c \in Call
    <3>1. Join(userSources[s]) \in Value
      BY HeldList, Saves DEF EditorInv
    <3>2. PICK str \in Value : str = Join(userSources[s])
      BY <3>1
    <3>3. <<c>> \in Seq(Call)
      BY <2>1, <3>2, EditorCalls
    <3> QED BY <3>3
  <2>3. \A t \in Screen : ~Observes(c, t)
    BY <2>1 DEF SetCall, Observes
  <2>4. regs' = regs /\ request' = request /\ work' = work \o <<c>>
    BY <1>3, <2>1 DEF Done, MainTurn, screenVars
  <2>5. work' = Append(work, c)
    BY <1>t, <2>2, <2>4, AppendIsConcat
  <2>6. ASSUME NEW t \in Screen
        PROVE  /\ ObservedOnce(regs', work', t)
               /\ request'[t] # "answered" => Unobserved(regs', work', t)
    <3>1. /\ ObservedOnce(regs, work, t) => ObservedOnce(regs, Append(work, c), t)
          /\ Unobserved(regs, work, t) => Unobserved(regs, Append(work, c), t)
      BY <1>t, <2>2, <2>3, OtherCall
    <3> QED BY <1>o, <2>4, <2>5, <3>1
  <2> QED BY <2>6 DEF ObserversOnce
<1>4. ASSUME NEW s \in Screen, CatalogueArrives(s)
      PROVE  ObserversOnce'
  <2>1. PICK c : c = ObserveCall(s)
    OBVIOUS
  <2>2. c \in Call
    <3>1. <<c>> \in Seq(Call)
      BY <2>1, EditorCalls
    <3> QED BY <3>1
  <2>3. \A t \in Screen : t # s => ~Observes(c, t)
    BY <2>1 DEF ObserveCall, Observes
  <2>4. /\ regs' = regs /\ request' = [request EXCEPT ![s] = "answered"]
        /\ work' = work \o <<c>> /\ request[s] = "sent"
    BY <1>4, <2>1 DEF CatalogueArrives, MainTurn
  <2>5. work' = Append(work, c)
    BY <1>t, <2>2, <2>4, AppendIsConcat
  <2>6. ASSUME NEW t \in Screen
        PROVE  /\ ObservedOnce(regs', work', t)
               /\ request'[t] # "answered" => Unobserved(regs', work', t)
    <3>1. CASE t = s
      <4>1. Unobserved(regs, work, s) /\ request'[s] = "answered"
        BY <1>o, <1>t, <2>4
      <4>2. ObservedOnce(regs, Append(work, c), s)
        BY <1>t, <2>2, <4>1, FirstCall
      <4> QED BY <2>4, <2>5, <3>1, <4>1, <4>2
    <3>2. CASE t # s
      <4>1. ~Observes(c, t) /\ request'[t] = request[t]
        BY <1>t, <2>3, <2>4, <3>2
      <4>2. /\ ObservedOnce(regs, work, t) => ObservedOnce(regs, Append(work, c), t)
            /\ Unobserved(regs, work, t) => Unobserved(regs, Append(work, c), t)
        BY <1>t, <2>2, <4>1, OtherCall
      <4> QED BY <1>o, <2>4, <2>5, <4>1, <4>2
    <3> QED BY <3>1, <3>2
  <2> QED BY <2>6 DEF ObserversOnce
<1>5. CASE Blocks
  <2>1. regs' = regs /\ work' = work \o <<>> /\ request' = request
    BY <1>5 DEF Blocks, SnapshotArrives, SaveAnswered, RunBlock
  <2> QED BY <1>b, <2>1
<1>6. CASE AlertOk
  <2>1. regs' = regs /\ work' = work /\ request' = request
    BY <1>6 DEF AlertOk, vars
  <2> QED BY <1>a, <2>1
<1>7. CASE (WorkerSet \/ WorkerObserve) /\ UNCHANGED screenVars
  <2>1. PICK x : x = regs'
    OBVIOUS
  <2>2. /\ work # <<>> /\ work' = Tail(work) /\ request' = request
        /\ \/ x = regs
           \/ Head(work).op = "observe" /\ x = Append(regs, Head(work).kind)
    BY <1>7, <2>1 DEF WorkerSet, WorkerObserve, screenVars
  <2>3. ASSUME NEW t \in Screen
        PROVE  /\ ObservedOnce(regs', work', t)
               /\ request'[t] # "answered" => Unobserved(regs', work', t)
    <3>1. /\ ObservedOnce(regs, work, t) => ObservedOnce(x, Tail(work), t)
          /\ Unobserved(regs, work, t) => Unobserved(x, Tail(work), t)
      BY <1>t, <2>2, CallTaken
    <3> QED BY <1>o, <2>1, <2>2, <3>1
  <2> QED BY <2>3 DEF ObserversOnce
<1>8. CASE /\ UNCHANGED screenVars
           /\ Load \/ ServerApply \/ Answer \/ Reconnect \/ \E rec \in Record : RemoteChange(rec)
  <2>1. regs' = regs /\ work' = work /\ request' = request
    BY <1>8 DEF Load, ServerApply, Answer, Ack, Reject, Reconnect, RemoteChange, screenVars
  <2> QED BY <1>a, <2>1
<1>9. CASE Restart
  <2>1. regs' = <<>> /\ work' = <<>> /\ DOMAIN <<>> = {}
    BY <1>9, EmptySeq DEF Restart
  <2>2. \A s \in Screen : ObservedOnce(regs', work', s) /\ Unobserved(regs', work', s)
    BY <2>1 DEF ObservedOnce, Unobserved
  <2> QED BY <2>2 DEF ObserversOnce
<1>10. CASE UNCHANGED editorVars
  <2>1. regs' = regs /\ work' = work /\ request' = request
    BY <1>10 DEF editorVars, vars, screenVars
  <2> QED BY <1>a, <2>1
<1> QED
  BY <1>1, <1>2, <1>3, <1>4, <1>5, <1>6, <1>7, <1>8, <1>9, <1>10
     DEF EditorNext, User, Backend

\* What screen s must keep of the snapshot its observer was given.
Keeps(snap, list) == ToSet(Stored(snap)) \ Catalogue \subseteq ToSet(list)

\* Every step keeps what has no row.
LEMMA HiddenStep ==
    ASSUME HiddenInv, [EditorNext]_editorVars
    PROVE  HiddenKept'
<1>t. /\ regs \in Seq(Kind) /\ seen \in Seq(Record \cup {NoSnap}) /\ Len(seen) = Len(regs)
      /\ userSources \in [Screen -> Seq(Item)] /\ main \in Seq(Block) /\ work \in Seq(Call)
  BY DEF HiddenInv, EditorInv, EditorOK, EditorTypeOK, TypeOK, Item
<1>d. DOMAIN regs = 1..Len(regs) /\ DOMAIN seen = DOMAIN regs /\ Len(regs) \in Nat
  BY <1>t, LenProperties
<1>h. \A s \in Screen, i \in DOMAIN regs :
          regs[i] = s /\ seen[i] # NoSnap => Keeps(seen[i], userSources[s])
  BY DEF HiddenInv, HiddenKept, Keeps
<1>k. ASSUME \A s \in Screen, i \in DOMAIN regs' :
                 regs'[i] = s /\ seen'[i] # NoSnap => Keeps(seen'[i], userSources'[s])
      PROVE  HiddenKept'
  BY <1>k DEF HiddenKept, Keeps
<1>a. ASSUME regs' = regs, seen' = seen, userSources' = userSources
      PROVE  HiddenKept'
  BY <1>a, <1>h, <1>k
<1>1. ASSUME NEW s \in Screen, SnapshotArrives(s)
      PROVE  HiddenKept'
  <2>1. PICK to, snap : to = Head(main).to /\ snap = Head(main).snap
    OBVIOUS
  <2>2. /\ main # <<>> /\ Head(main).op = "value" /\ regs[to] = s /\ regs' = regs
        /\ seen' = [seen EXCEPT ![to] = snap]
        /\ userSources' = [userSources EXCEPT ![s] = Stored(snap)]
    BY <1>1, <2>1 DEF SnapshotArrives, RunBlock
  <2>3. to \in DOMAIN regs
    <3>1. Head(main) = main[1] /\ 1 \in DOMAIN main
      BY <1>t, <2>2, EmptySeq, LenProperties
    <3>2. main[1].to \in 1..Len(regs)
      BY <2>2, <3>1 DEF HiddenInv, DeliveryInv, Addressed
    <3> QED BY <1>d, <2>1, <3>1, <3>2
  <2>4. ASSUME NEW t \in Screen, NEW i \in DOMAIN regs', regs'[i] = t, seen'[i] # NoSnap
        PROVE  Keeps(seen'[i], userSources'[t])
    <3>1. i \in DOMAIN regs /\ regs[i] = t
      BY <2>2, <2>4
    <3>2. CASE t = s
      <4>1. ObservedOnce(regs, work, s)
        BY DEF HiddenInv, ObserversOnce
      <4>2. i = to
        BY <2>2, <2>3, <3>1, <3>2, <4>1 DEF ObservedOnce
      <4>3. seen'[i] = snap
        BY <1>d, <2>2, <2>3, <4>2
      <4>4. userSources'[t] = Stored(snap)
        BY <1>t, <2>2, <3>2
      <4> QED BY <4>3, <4>4 DEF Keeps
    <3>3. CASE t # s
      <4>1. i # to
        BY <2>2, <3>1, <3>3
      <4>2. seen'[i] = seen[i]
        BY <1>d, <2>2, <3>1, <4>1
      <4>3. userSources'[t] = userSources[t]
        BY <1>t, <2>2, <3>3
      <4>4. Keeps(seen[i], userSources[t])
        BY <1>h, <2>4, <3>1, <4>2
      <4> QED BY <4>2, <4>3, <4>4
    <3> QED BY <3>2, <3>3
  <2> QED BY <1>k, <2>4
<1>2. ASSUME NEW s \in Screen, NEW id \in Catalogue, Select(s, id) \/ Deselect(s, id)
      PROVE  HiddenKept'
  <2>1. id \in Item
    BY CatalogueAssumption DEF Item
  <2>2. PICK list : /\ userSources' = [userSources EXCEPT ![s] = list]
                    /\ list = Append(userSources[s], id) \/ list = AllBut(userSources[s], id)
    BY <1>2 DEF Select, Deselect
  <2>3. ToSet(userSources[s]) \ Catalogue \subseteq ToSet(list)
    <3>1. userSources[s] \in Seq(Item)
      BY <1>t
    <3>2. CASE list = Append(userSources[s], id)
      BY <2>1, <3>1, <3>2, AppendSet
    <3>3. CASE list = AllBut(userSources[s], id)
      BY <3>1, <3>3, AllButKeeps
    <3> QED BY <2>2, <3>2, <3>3
  <2>4. regs' = regs /\ seen' = seen
    BY <1>2 DEF Select, Deselect, vars
  <2>5. ASSUME NEW t \in Screen, NEW i \in DOMAIN regs', regs'[i] = t, seen'[i] # NoSnap
        PROVE  Keeps(seen'[i], userSources'[t])
    <3>1. Keeps(seen[i], userSources[t])
      BY <1>h, <2>4, <2>5
    <3>2. CASE t = s
      <4>1. userSources'[t] = list
        BY <1>t, <2>2, <3>2
      <4> QED BY <2>3, <2>4, <3>1, <3>2, <4>1 DEF Keeps
    <3>3. CASE t # s
      <4>1. userSources'[t] = userSources[t]
        BY <1>t, <2>2, <3>3
      <4> QED BY <2>4, <3>1, <4>1
    <3> QED BY <3>2, <3>3
  <2> QED BY <1>k, <2>5
<1>3. CASE \E s \in Screen : \/ Open(s) \/ Done(s)
                             \/ CatalogueArrives(s) \/ CatalogueFails(s)
  <2>1. regs' = regs /\ seen' = seen /\ userSources' = userSources
    BY <1>3 DEF Open, Done, CatalogueArrives, CatalogueFails, MainTurn, vars, screenVars
  <2> QED BY <1>a, <2>1
<1>4. CASE \E s \in Screen : SaveAnswered(s)
  <2>1. regs' = regs /\ seen' = seen /\ userSources' = userSources
    BY <1>4 DEF SaveAnswered, RunBlock
  <2> QED BY <1>a, <2>1
<1>5. CASE AlertOk
  <2>1. regs' = regs /\ seen' = seen /\ userSources' = userSources
    BY <1>5 DEF AlertOk, vars
  <2> QED BY <1>a, <2>1
<1>6. CASE WorkerObserve /\ UNCHANGED screenVars
  <2>1. Head(work).kind \in Kind
    <3>1. Head(work) \in Call /\ Head(work).op = "observe"
      BY <1>6, <1>t, HeadTailProperties DEF WorkerObserve
    <3> QED BY <3>1 DEF Call
  <2>2. PICK k \in Kind : k = Head(work).kind
    BY <2>1
  <2>3. regs' = Append(regs, k) /\ seen' = Append(seen, NoSnap) /\ userSources' = userSources
    BY <1>6, <2>2 DEF WorkerObserve, screenVars
  <2>4. /\ DOMAIN regs' = 1..Len(regs) + 1
        /\ \A i \in 1..Len(regs) : regs'[i] = regs[i]
    BY <1>t, <2>3, AppendProperties, LenProperties
  <2>5. /\ seen'[Len(regs) + 1] = NoSnap
        /\ \A i \in 1..Len(regs) : seen'[i] = seen[i]
    <3>1. NoSnap \in Record \cup {NoSnap}
      OBVIOUS
    <3>2. PICK S : S = Record \cup {NoSnap}
      OBVIOUS
    <3>3. seen \in Seq(S) /\ NoSnap \in S
      BY <1>t, <3>1, <3>2
    <3>4. /\ Append(seen, NoSnap)[Len(seen) + 1] = NoSnap
          /\ \A i \in 1..Len(seen) : Append(seen, NoSnap)[i] = seen[i]
      BY <3>3, AppendProperties
    <3> QED BY <1>t, <2>3, <3>4
  <2>6. ASSUME NEW t \in Screen, NEW i \in DOMAIN regs', regs'[i] = t, seen'[i] # NoSnap
        PROVE  Keeps(seen'[i], userSources'[t])
    <3>1. i # Len(regs) + 1
      BY <2>5, <2>6
    <3>2. i \in DOMAIN regs /\ regs'[i] = regs[i] /\ seen'[i] = seen[i]
      BY <1>d, <2>4, <2>5, <3>1
    <3> QED BY <1>h, <2>3, <2>6, <3>2
  <2> QED BY <1>k, <2>6
<1>7. CASE /\ UNCHANGED screenVars
           /\ \/ WorkerSet \/ Load \/ ServerApply \/ Answer \/ Reconnect
              \/ \E rec \in Record : RemoteChange(rec)
  <2>1. regs' = regs /\ seen' = seen /\ userSources' = userSources
    BY <1>7 DEF WorkerSet, Load, ServerApply, Answer, Ack, Reject, Reconnect, RemoteChange,
                screenVars
  <2> QED BY <1>a, <2>1
<1>8. CASE Restart
  <2>1. DOMAIN regs' = {}
    BY <1>8, EmptySeq DEF Restart
  <2> QED BY <1>k, <2>1
<1>9. CASE UNCHANGED editorVars
  <2>1. regs' = regs /\ seen' = seen /\ userSources' = userSources
    BY <1>9 DEF editorVars, vars, screenVars
  <2> QED BY <1>a, <2>1
<1> QED
  BY <1>1, <1>2, <1>3, <1>4, <1>5, <1>6, <1>7, <1>8, <1>9
     DEF EditorNext, User, Blocks, Backend

\* The sources that the catalogue no longer offers stay in the list of a screen
\* that has been given them, through taps and saves (didDeselectRowAt).
THEOREM HiddenCorrect == EditorSpec => []HiddenKept
<1>1. EditorInit => ObserversOnce /\ HiddenKept
  <2> SUFFICES ASSUME EditorInit PROVE ObserversOnce /\ HiddenKept
    OBVIOUS
  <2>1. DOMAIN regs = {} /\ DOMAIN work = {}
    BY EmptySeq DEF EditorInit, Init
  <2>2. \A s \in Screen : ObservedOnce(regs, work, s) /\ Unobserved(regs, work, s)
    BY <2>1 DEF ObservedOnce, Unobserved
  <2> QED BY <2>1, <2>2 DEF ObserversOnce, HiddenKept
<1>2. EditorSpec => []DeliveryInv
  BY EditorUsesRecord, DeliveryInductive, PTL
<1>3. /\ EditorInv /\ DeliveryInv /\ ObserversOnce /\ HiddenKept /\ [EditorNext]_editorVars
      => ObserversOnce' /\ HiddenKept'
  BY ObserversKept, HiddenStep DEF HiddenInv
<1> QED BY <1>1, <1>2, <1>3, EditorInductive, PTL DEF EditorSpec
=============================================================================
