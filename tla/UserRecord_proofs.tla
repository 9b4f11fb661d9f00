--------------------------- MODULE UserRecord_proofs ---------------------------
(***************************************************************************)
(* Proofs about UserRecord, for every set of fields, values, observers and *)
(* completion blocks, and without the bounds of the model-checked runs.    *)
(***************************************************************************)
EXTENDS UserRecord, SequenceTheorems, TLAPS

(* The view is a record. *)
LEMMA OverlayType ==
    ASSUME NEW rec \in Record, NEW ws \in Seq(Write)
    PROVE  Overlay(rec, ws) \in Record
<1> SUFFICES ASSUME NEW f \in Field
             PROVE  Overlay(rec, ws)[f] \in Value \cup {Absent}
  BY DEF Overlay, Record
<1>1. CASE \E k \in DOMAIN ws : LastWrite(ws, f, k)
  <2> DEFINE k == CHOOSE k \in DOMAIN ws : LastWrite(ws, f, k)
  <2>1. k \in DOMAIN ws /\ LastWrite(ws, f, k)
    BY <1>1
  <2> HIDE DEF k
  <2>w. ws[k] \in Write
    BY <2>1, LenProperties, ElementOfSeq
  <2>2. ws[k].data \in Data /\ f \in DOMAIN ws[k].data
    BY <2>1, <2>w DEF LastWrite, Write
  <2> DEFINE d == ws[k].data
  <2>d. PICK S \in SUBSET Field : d \in [S -> Value]
    <3> HIDE DEF d
    <3>1. CASE d \in [Field -> Value]
      BY <3>1
    <3>2. CASE d \in UNION {[{g} -> Value] : g \in Field}
      <4>1. PICK g \in Field : d \in [{g} -> Value]
        BY <3>2
      <4> QED BY <4>1
    <3> QED BY <2>2, <3>1, <3>2 DEF Data, d
  <2>3. ws[k].data[f] \in Value
    BY <2>2, <2>d
  <2>4. Overlay(rec, ws)[f] = ws[k].data[f]
    BY <1>1 DEF Overlay, k
  <2> QED BY <2>3, <2>4
<1>2. CASE ~ \E k \in DOMAIN ws : LastWrite(ws, f, k)
  BY <1>2 DEF Overlay, Record
<1> QED BY <1>1, <1>2

\* The view is a record: the overlay of the unanswered writes.
LEMMA ViewType ==
    ASSUME TypeOK
    PROVE  View \in Record
BY OverlayType DEF View, TypeOK
-----------------------------------------------------------------------------
(* What the steps append to the main queue. *)

\* A function on an interval from 1 is a sequence of that length.
LEMMA FunctionIsSeq ==
    ASSUME NEW S, NEW n \in Nat, NEW s \in [1..n -> S]
    PROVE  s \in Seq(S) /\ Len(s) = n
<1>1. s \in Seq(S)
  BY SeqDef
<1>2. DOMAIN s = 1..n /\ DOMAIN s = 1..Len(s) /\ Len(s) \in Nat
  BY <1>1, LenProperties
<1> QED BY <1>1, <1>2

\* The events a step raises are value blocks for the main queue.
LEMMA EventsType ==
    ASSUME regs \in Seq(Kind), View' \in Record
    PROVE  ValueEvents \in Seq(Block)
<1>1. Len(regs) \in Nat
  BY LenProperties
<1>2. [i \in 1..Len(regs) |-> ValueBlock(i, View')] \in [1..Len(regs) -> Block]
  <2> SUFFICES ASSUME NEW i \in 1..Len(regs) PROVE ValueBlock(i, View') \in Block
    OBVIOUS
  <2> QED BY <1>1 DEF ValueBlock, Block
<1>3. [i \in 1..Len(regs) |-> ValueBlock(i, View')] \in Seq(Block)
  BY <1>1, <1>2, FunctionIsSeq
<1> QED BY <1>3 DEF ValueEvents

\* An answer queues one completion block or none.
LEMMA CompletionType ==
    ASSUME NEW w \in Write, NEW ok \in BOOLEAN
    PROVE  /\ Completion(w, ok) \in Seq(Block)
           /\ \A j \in DOMAIN Completion(w, ok) : Completion(w, ok)[j].op # "value"
<1>1. CASE w.tag = NoTag
  BY <1>1 DEF Completion
<1>2. CASE w.tag # NoTag
  <2>1. DoneBlock(w.id, w.tag, ok) \in Block /\ DoneBlock(w.id, w.tag, ok).op # "value"
    BY <1>2 DEF DoneBlock, Block, Write
  <2> QED BY <1>2, <2>1 DEF Completion
<1> QED BY <1>1, <1>2
-----------------------------------------------------------------------------
(* Type correctness, one lemma per kind of step. *)

\* Turns and blocks of the main thread keep the types.
LEMMA MainType ==
    ASSUME TypeOK, NEW calls \in Seq(Call), NEW blocks \in Seq(AppBlock),
           MainTurn(calls, blocks) \/ RunBlock(calls, blocks)
    PROVE  TypeOK'
<1>1. work \o calls \in Seq(Call)
  BY ConcatProperties DEF TypeOK
<1>2. blocks \in Seq(Block)
  BY SeqMonotonic DEF Block
<1>3. CASE MainTurn(calls, blocks)
  <2>1. main' \in Seq(Block)
    BY <1>2, <1>3, ConcatProperties DEF MainTurn, TypeOK
  <2> QED BY <1>1, <1>3, <2>1 DEF MainTurn, TypeOK
<1>4. CASE RunBlock(calls, blocks)
  <2>1. Head(main) \in Block /\ Tail(main) \in Seq(Block)
    BY <1>4, HeadTailProperties DEF RunBlock, TypeOK
  <2>2. main' \in Seq(Block)
    BY <1>2, <1>4, <2>1, ConcatProperties DEF RunBlock
  <2>3. seen' \in Seq(Record \cup {NoSnap}) /\ Len(seen') = Len(seen)
    <3>1. CASE Head(main).op = "value" /\ Head(main).to \in 1..Len(seen)
      <4>1. Head(main).snap \in Record
        BY <2>1, <3>1, AppBlockAssumption DEF Block
      <4> QED BY <1>4, <3>1, <4>1, ExceptSeq DEF RunBlock, TypeOK
    <3>2. CASE Head(main).op = "value" /\ Head(main).to \notin 1..Len(seen)
      <4>1. DOMAIN seen = 1..Len(seen) /\ seen \in [1..Len(seen) -> Record \cup {NoSnap}]
        BY LenProperties DEF TypeOK
      <4>2. seen' = seen
        BY <1>4, <3>2, <4>1 DEF RunBlock
      <4> QED BY <4>2 DEF TypeOK
    <3>3. CASE Head(main).op # "value"
      BY <1>4, <3>3 DEF RunBlock, TypeOK
    <3> QED BY <3>1, <3>2, <3>3
  <2> QED BY <1>1, <1>4, <2>2, <2>3 DEF RunBlock, TypeOK
<1> QED BY <1>3, <1>4

\* A step that appends to main's queue only what ValueEvents and a completion
\* put there, and keeps the types of the rest.
LEMMA NotifyType ==
    ASSUME TypeOK, NEW done \in Seq(Block),
           server' \in Record, pending' \in Seq(Write), regs' = regs,
           main' = main \o ValueEvents \o done
    PROVE  main' \in Seq(Block)
<1>1. View' \in Record
  BY OverlayType DEF View
<1>2. ValueEvents \in Seq(Block)
  BY <1>1, EventsType DEF TypeOK
<1> QED BY <1>2, ConcatProperties DEF TypeOK

\* NotifyType for steps that answer no write.
LEMMA NoDone ==
    ASSUME TypeOK, server' \in Record, pending' \in Seq(Write),
           main' = main \o ValueEvents
    PROVE  main' = main \o ValueEvents \o <<>>
<1>1. View' \in Record
  BY OverlayType DEF View
<1>2. main \o ValueEvents \in Seq(Block)
  BY <1>1, EventsType, ConcatProperties DEF TypeOK
<1> QED BY <1>2, ConcatEmptySeq

\* The two calls the worker queue applies keep the types.
LEMMA WorkerType ==
    ASSUME TypeOK, WorkerSet \/ WorkerObserve
    PROVE  TypeOK'
<1>1. work # <<>> /\ Head(work) \in Call /\ Tail(work) \in Seq(Call)
  BY HeadTailProperties DEF TypeOK, WorkerSet, WorkerObserve
<1>2. CASE WorkerSet
  <2>1. Head(work).data \in Data /\ Head(work).tag \in Tag \cup {NoTag}
    BY <1>1, <1>2 DEF WorkerSet, Call
  <2> DEFINE w == [id |-> writeId', data |-> Head(work).data, tag |-> Head(work).tag]
  <2>2. writeId' \in Nat
    BY <1>2 DEF WorkerSet, TypeOK
  <2>3. w \in Write
    BY <2>1, <2>2 DEF Write
  <2>4. pending' \in Seq(Write) /\ Len(pending') = Len(pending) + 1
    BY <1>2, <2>3, AppendProperties DEF WorkerSet, TypeOK
  <2>5. applied' \in 0..Len(pending')
    BY <1>2, <2>4, LenProperties DEF WorkerSet, TypeOK
  <2>6. server' \in Record /\ regs' = regs
    BY <1>2 DEF WorkerSet, TypeOK
  <2>7. main' = main \o ValueEvents \o <<>>
    BY <1>2, <2>4, <2>6, NoDone DEF WorkerSet
  <2>8. main' \in Seq(Block)
    BY <2>4, <2>6, <2>7, NotifyType, EmptySeq
  <2> QED BY <1>1, <1>2, <2>2, <2>4, <2>5, <2>8 DEF WorkerSet, TypeOK
<1>3. CASE WorkerObserve
  <2>1. Head(work).kind \in Kind
    BY <1>1, <1>3 DEF WorkerObserve, Call
  <2>2. regs' \in Seq(Kind) /\ Len(regs') = Len(regs) + 1
    BY <1>3, <2>1, AppendProperties DEF WorkerObserve, TypeOK
  <2>3. /\ seen' \in Seq(Record \cup {NoSnap})
        /\ Len(seen') = Len(seen) + 1
    BY <1>3, AppendProperties DEF WorkerObserve, TypeOK
  <2>4. ValueBlock(Len(regs'), View) \in Block
    BY <2>2, LenProperties, ViewType DEF ValueBlock, Block
  <2>5. main' \in Seq(Block)
    BY <1>3, <2>4, AppendProperties DEF WorkerObserve, TypeOK
  <2> QED BY <1>1, <1>3, <2>2, <2>3, <2>5 DEF WorkerObserve, TypeOK
<1> QED BY <1>2, <1>3

\* The answer to the listen and the pushes of the server keep the types.
LEMMA ServerType ==
    ASSUME TypeOK,
           Load \/ ServerApply \/ Reconnect \/ \E rec \in Record : RemoteChange(rec)
    PROVE  TypeOK'
<1>1. server' \in Record /\ applied' \in 0..Len(pending)
  <2>1. CASE ServerApply
    <3>1. applied + 1 \in 1..Len(pending)
      BY <2>1, LenProperties DEF ServerApply, TypeOK
    <3>2. pending[applied + 1] \in Write
      BY <3>1, ElementOfSeq DEF TypeOK
    <3>3. <<pending[applied + 1]>> \in Seq(Write)
      BY <3>2
    <3>4. server' \in Record
      BY <2>1, <3>3, OverlayType DEF ServerApply, TypeOK
    <3> QED BY <2>1, <3>1, <3>4 DEF ServerApply, TypeOK
  <2>2. CASE Load
    BY <2>2 DEF Load, TypeOK
  <2>3. CASE Reconnect
    BY <2>3, LenProperties DEF Reconnect, TypeOK
  <2>4. CASE \E rec \in Record : RemoteChange(rec)
    BY <2>4 DEF RemoteChange, TypeOK
  <2> QED BY <2>1, <2>2, <2>3, <2>4
<1>2. /\ pending' = pending /\ regs' = regs /\ writeId' = writeId
      /\ work' = work /\ seen' = seen /\ loaded' \in BOOLEAN
  BY DEF Load, ServerApply, Reconnect, RemoteChange, TypeOK
<1>3. main' \in Seq(Block)
  <2>1. CASE Reconnect
    BY <2>1 DEF Reconnect, TypeOK
  <2>2. CASE main' = main \o ValueEvents
    <3>1. pending' \in Seq(Write)
      BY <1>2 DEF TypeOK
    <3>2. main' = main \o ValueEvents \o <<>>
      BY <1>1, <2>2, <3>1, NoDone
    <3> QED BY <1>1, <1>2, <3>1, <3>2, NotifyType, EmptySeq
  <2> QED BY <2>1, <2>2 DEF Load, ServerApply, RemoteChange
<1> QED BY <1>1, <1>2, <1>3 DEF TypeOK

\* Acknowledging and refusing a write keep the types.
LEMMA AnswerType ==
    ASSUME TypeOK, Answer
    PROVE  TypeOK'
<1>1. /\ Head(pending) \in Write /\ Tail(pending) \in Seq(Write)
      /\ Len(Tail(pending)) = Len(pending) - 1
  BY HeadTailProperties DEF Answer, Ack, Reject, Answerable, TypeOK
<1>2. pending' \in Seq(Write) /\ server' \in Record /\ regs' = regs
  BY <1>1 DEF Answer, Ack, Reject, TypeOK
<1>3. applied' \in 0..Len(pending')
  <2>1. Len(pending) \in Nat /\ Len(pending) # 0
    BY EmptySeq, LenProperties DEF Answer, Ack, Reject, Answerable, TypeOK
  <2>2. CASE Ack
    BY <1>1, <2>1, <2>2 DEF Ack, TypeOK
  <2>3. CASE Reject
    BY <1>1, <2>1, <2>3 DEF Reject, TypeOK
  <2> QED BY <2>2, <2>3 DEF Answer
<1>4. main' \in Seq(Block)
  <2>1. PICK ok \in BOOLEAN :
          main' = main \o ValueEvents \o Completion(Head(pending), ok)
    BY DEF Answer, Ack, Reject
  <2>2. Completion(Head(pending), ok) \in Seq(Block)
    BY <1>1, CompletionType
  <2> QED BY <1>2, <2>1, <2>2, NotifyType
<1> QED BY <1>2, <1>3, <1>4 DEF Answer, Ack, Reject, TypeOK

\* Losing the process keeps the types.
LEMMA RestartType ==
    ASSUME TypeOK, Restart
    PROVE  TypeOK'
<1>1. PICK k \in applied..Len(pending) :
        server' = Overlay(server, SubSeq(pending, applied + 1, k))
  BY DEF Restart
<1>2. applied \in Nat /\ k \in Int /\ Len(pending) \in Nat /\ k <= Len(pending)
  BY LenProperties DEF TypeOK
<1>3. \A i \in applied + 1..k : pending[i] \in Write
  BY <1>2, ElementOfSeq DEF TypeOK
<1>4. SubSeq(pending, applied + 1, k) \in Seq(Write)
  BY <1>2, <1>3, SubSeqProperties
<1>5. server' \in Record
  BY <1>1, <1>4, OverlayType DEF TypeOK
<1>6. /\ Len(pending') = 0 /\ Len(regs') = 0 /\ Len(seen') = 0
      /\ pending' \in Seq(Write) /\ regs' \in Seq(Kind) /\ work' \in Seq(Call)
      /\ main' \in Seq(Block) /\ seen' \in Seq(Record \cup {NoSnap})
  BY EmptySeq DEF Restart
<1>7. loaded' \in BOOLEAN
  BY DEF Restart
<1>8. applied' = 0 /\ writeId' = 0
  BY DEF Restart
<1>9. applied' \in 0..Len(pending') /\ writeId' \in Nat
  BY <1>6, <1>8
<1> QED BY <1>5, <1>6, <1>7, <1>9 DEF TypeOK

\* Every step keeps the types.
LEMMA NextType ==
    ASSUME TypeOK, [Next]_vars
    PROVE  TypeOK'
<1>1. CASE \E calls \in Seq(Call), blocks \in Seq(AppBlock) :
              MainTurn(calls, blocks) \/ RunBlock(calls, blocks)
  BY <1>1, MainType
<1>2. CASE WorkerSet \/ WorkerObserve
  BY <1>2, WorkerType
<1>3. CASE Load \/ ServerApply \/ Reconnect \/ \E rec \in Record : RemoteChange(rec)
  BY <1>3, ServerType
<1>4. CASE Answer
  BY <1>4, AnswerType
<1>5. CASE Restart
  BY <1>5, RestartType
<1>6. CASE UNCHANGED vars
  BY <1>6 DEF vars, TypeOK
<1> QED BY <1>1, <1>2, <1>3, <1>4, <1>5, <1>6 DEF Next, Backend

\* The types hold initially.
LEMMA InitType == Init => TypeOK
<1> SUFFICES ASSUME Init PROVE TypeOK
  OBVIOUS
<1>1. /\ Len(pending) = 0 /\ Len(regs) = 0 /\ Len(seen) = 0
      /\ pending \in Seq(Write) /\ regs \in Seq(Kind) /\ work \in Seq(Call)
      /\ main \in Seq(Block) /\ seen \in Seq(Record \cup {NoSnap})
  BY EmptySeq DEF Init
<1>2. loaded \in BOOLEAN /\ server \in Record
  BY DEF Init
<1>3. applied = 0 /\ writeId = 0
  BY DEF Init
<1>4. applied \in 0..Len(pending) /\ writeId \in Nat
  BY <1>1, <1>3
<1> QED BY <1>1, <1>2, <1>4 DEF TypeOK

\* The client's state is well formed in every behaviour: in particular the
\* server has never applied more writes than are unanswered, and every
\* observer has its place in `seen'.
THEOREM TypeCorrect == Spec => []TypeOK
BY InitType, NextType, PTL DEF Spec

-----------------------------------------------------------------------------
(* Delivery.  Inductive once every value block on the main queue is known to *)
(* be addressed to a registered observer: otherwise a new observer could     *)
(* find an old snapshot addressed to it.                                     *)

Addressed ==
    \A k \in DOMAIN main : main[k].op = "value" => main[k].to \in 1..Len(regs)

DeliveryInv == TypeOK /\ Addressed /\ Delivery

\* The view and its completeness depend on the server's data and the writes.
LEMMA ViewUnchanged ==
    ASSUME UNCHANGED <<server, loaded, pending>>
    PROVE  View' = View /\ Ready' = Ready
BY DEF View, Ready, Overlay, LastWrite

\* Where a concatenation of three queues keeps each of their items.
LEMMA ConcatThree ==
    ASSUME NEW S, NEW a \in Seq(S), NEW b \in Seq(S), NEW c \in Seq(S)
    PROVE  /\ DOMAIN (a \o b \o c) = 1..Len(a) + Len(b) + Len(c)
           /\ \A j \in 1..Len(a) : (a \o b \o c)[j] = a[j]
           /\ \A j \in 1..Len(b) : (a \o b \o c)[Len(a) + j] = b[j]
           /\ \A j \in 1..Len(c) : (a \o b \o c)[Len(a) + Len(b) + j] = c[j]
<1>1. /\ a \o b \in Seq(S) /\ Len(a \o b) = Len(a) + Len(b)
      /\ \A i \in 1 .. Len(a) + Len(b) :
            (a \o b)[i] = IF i <= Len(a) THEN a[i] ELSE b[i - Len(a)]
  BY ConcatProperties
<1>2. /\ a \o b \o c \in Seq(S) /\ Len(a \o b \o c) = Len(a \o b) + Len(c)
      /\ \A i \in 1 .. Len(a \o b) + Len(c) :
            (a \o b \o c)[i] = IF i <= Len(a \o b) THEN (a \o b)[i] ELSE c[i - Len(a \o b)]
  BY <1>1, ConcatProperties
<1>3. Len(a) \in Nat /\ Len(b) \in Nat /\ Len(c) \in Nat
  BY LenProperties
<1>4. DOMAIN (a \o b \o c) = 1..Len(a) + Len(b) + Len(c)
  BY <1>1, <1>2, LenProperties
<1>5. \A j \in 1..Len(a) : (a \o b \o c)[j] = a[j]
  BY <1>1, <1>2, <1>3
<1>6. \A j \in 1..Len(b) : (a \o b \o c)[Len(a) + j] = b[j]
  <2> SUFFICES ASSUME NEW j \in 1..Len(b) PROVE (a \o b \o c)[Len(a) + j] = b[j]
    OBVIOUS
  <2>1. Len(a) + j \in 1..Len(a) + Len(b) /\ ~(Len(a) + j <= Len(a)) /\ Len(a) + j - Len(a) = j
    BY <1>3
  <2> QED BY <1>1, <1>2, <1>3, <2>1
<1>7. \A j \in 1..Len(c) : (a \o b \o c)[Len(a) + Len(b) + j] = c[j]
  <2> SUFFICES ASSUME NEW j \in 1..Len(c) PROVE (a \o b \o c)[Len(a) + Len(b) + j] = c[j]
    OBVIOUS
  <2>1. /\ Len(a) + Len(b) + j \in 1..Len(a) + Len(b) + Len(c)
        /\ ~(Len(a) + Len(b) + j <= Len(a) + Len(b))
        /\ Len(a) + Len(b) + j - (Len(a) + Len(b)) = j
    BY <1>3
  <2> QED BY <1>1, <1>2, <2>1
<1> QED BY <1>4, <1>5, <1>6, <1>7

\* Every item of a concatenation of three queues comes from one of them.
LEMMA ConcatCases ==
    ASSUME NEW S, NEW a \in Seq(S), NEW b \in Seq(S), NEW c \in Seq(S),
           NEW j \in DOMAIN (a \o b \o c)
    PROVE  \/ j \in DOMAIN a /\ j <= Len(a) /\ (a \o b \o c)[j] = a[j]
           \/ \E x \in DOMAIN b : j = Len(a) + x /\ (a \o b \o c)[j] = b[x]
           \/ \E x \in DOMAIN c : j = Len(a) + Len(b) + x /\ (a \o b \o c)[j] = c[x]
<1>1. Len(a) \in Nat /\ Len(b) \in Nat /\ Len(c) \in Nat
  BY LenProperties
<1>2. DOMAIN a = 1..Len(a) /\ DOMAIN b = 1..Len(b) /\ DOMAIN c = 1..Len(c)
  BY LenProperties
<1>3. j \in 1..Len(a) + Len(b) + Len(c)
  BY ConcatThree
<1>4. CASE j \in 1..Len(a)
  BY <1>1, <1>2, <1>4, ConcatThree
<1>5. CASE j - Len(a) \in 1..Len(b)
  <2>1. PICK x \in 1..Len(b) : x = j - Len(a)
    BY <1>5
  <2>2. j = Len(a) + x
    BY <1>1, <1>3, <2>1
  <2>3. (a \o b \o c)[Len(a) + x] = b[x]
    BY ConcatThree
  <2> QED BY <1>2, <2>2, <2>3
<1>6. CASE j - Len(a) - Len(b) \in 1..Len(c)
  <2>1. PICK x \in 1..Len(c) : x = j - Len(a) - Len(b)
    BY <1>6
  <2>2. j = Len(a) + Len(b) + x
    BY <1>1, <1>3, <2>1
  <2>3. (a \o b \o c)[Len(a) + Len(b) + x] = c[x]
    BY ConcatThree
  <2> QED BY <1>2, <2>2, <2>3
<1> QED BY <1>1, <1>3, <1>4, <1>5, <1>6

\* A step that changes the view tells every observer, in the same step.
LEMMA NotifyDelivers ==
    ASSUME DeliveryInv, View' \in Record,
           regs' = regs, seen' = seen,
           NEW done \in Seq(Block), \A j \in DOMAIN done : done[j].op # "value",
           main' = main \o ValueEvents \o done
    PROVE  Addressed' /\ Delivery'
<1> DEFINE E == ValueEvents
           Changed == Ready' /\ (~Ready \/ View' # View)
<1>1. main \in Seq(Block) /\ E \in Seq(Block) /\ regs \in Seq(Kind)
  BY EventsType DEF DeliveryInv, TypeOK
<1>2. /\ Len(main) \in Nat /\ Len(E) \in Nat /\ Len(regs) \in Nat
      /\ DOMAIN main = 1..Len(main) /\ DOMAIN regs = 1..Len(regs)
  BY <1>1, LenProperties
<1>3. ASSUME NEW j \in DOMAIN main'
      PROVE  \/ j \in DOMAIN main /\ main'[j] = main[j]
             \/ \E x \in DOMAIN E : j = Len(main) + x /\ main'[j] = E[x]
             \/ main'[j].op # "value"
  <2>1. j \in DOMAIN (main \o E \o done) /\ main' = main \o E \o done
    BY <1>3
  <2> HIDE DEF E
  <2> QED BY <1>1, <2>1, ConcatCases
<1>4. \A j \in DOMAIN main : j \in DOMAIN main' /\ main'[j] = main[j]
  <2>1. main' = main \o E \o done
    OBVIOUS
  <2>2. Len(done) \in Nat
    BY LenProperties
  <2> HIDE DEF E
  <2> QED BY <1>1, <1>2, <2>1, <2>2, ConcatThree
<1>5. CASE Changed
  <2>1. E = [i \in 1..Len(regs) |-> ValueBlock(i, View')]
    BY <1>5 DEF ValueEvents
  <2>2. DOMAIN E = 1..Len(regs) /\ Len(E) = Len(regs)
    <3> HIDE DEF E
    <3>1. DOMAIN E = 1..Len(regs)
      BY <2>1
    <3>2. E \in [1..Len(regs) -> Block]
      BY <1>1, <3>1, LenProperties
    <3> QED BY <1>2, <3>1, <3>2, FunctionIsSeq
  <2> HIDE DEF E, Changed
  <2>3. \A i \in 1..Len(regs) :
            E[i] = ValueBlock(i, View') /\ E[i].op = "value" /\ E[i].to = i
    BY <2>1 DEF ValueBlock
  <2>4. Addressed'
    <3> SUFFICES ASSUME NEW k \in DOMAIN main', main'[k].op = "value"
                 PROVE  main'[k].to \in 1..Len(regs)
      BY DEF Addressed
    <3>1. CASE k \in DOMAIN main /\ main'[k] = main[k]
      BY <3>1 DEF DeliveryInv, Addressed
    <3>2. CASE \E x \in DOMAIN E : k = Len(main) + x /\ main'[k] = E[x]
      BY <2>2, <2>3, <3>2
    <3> QED BY <1>3, <3>1, <3>2
  <2>5. Delivery'
    <3> SUFFICES ASSUME NEW i \in 1..Len(regs)
                 PROVE  Current(i)'
      BY <1>2 DEF Delivery
    <3>1. /\ Len(main) + i \in DOMAIN main'
          /\ main'[Len(main) + i] = ValueBlock(i, View')
      <4>1. main' = main \o E \o done
        BY DEF E
      <4>2. Len(done) \in Nat
        BY LenProperties
      <4>3. Len(main) + i \in 1..Len(main) + Len(E) + Len(done)
        BY <1>2, <2>2, <4>2
      <4> QED BY <1>1, <2>2, <2>3, <4>1, <4>3, ConcatThree
    <3>2. ASSUME NEW j \in DOMAIN main', j > Len(main) + i
          PROVE  ~(main'[j].op = "value" /\ main'[j].to = i)
      <4>1. CASE j \in DOMAIN main /\ main'[j] = main[j]
        BY <1>2, <3>2, <4>1
      <4>2. CASE \E x \in DOMAIN E : j = Len(main) + x /\ main'[j] = E[x]
        <5>1. PICK x \in 1..Len(regs) : j = Len(main) + x /\ main'[j] = E[x]
          BY <2>2, <4>2
        <5>2. x # i
          BY <1>2, <3>2, <5>1
        <5> QED BY <2>3, <5>1, <5>2
      <4> QED BY <1>3, <4>1, <4>2
    <3> QED BY <3>1, <3>2 DEF Current, IsValueTo
  <2> QED BY <2>4, <2>5
<1>6. CASE ~Changed
  <2>1. DOMAIN E = {}
    BY <1>6, EmptySeq DEF ValueEvents
  <2> HIDE DEF E
  <2>2. \A j \in DOMAIN main' :
          main'[j].op = "value" => j \in DOMAIN main /\ main'[j] = main[j]
    BY <1>3, <2>1
  <2>3. Addressed'
    BY <2>2 DEF DeliveryInv, Addressed
  <2>4. Delivery'
    <3> SUFFICES ASSUME Ready', NEW i \in 1..Len(regs)
                 PROVE  Current(i)'
      BY <1>2 DEF Delivery
    <3>1. Ready /\ View' = View
      BY <1>6
    <3>2. Current(i)
      BY <1>2, <3>1 DEF DeliveryInv, Delivery
    <3>3. ASSUME NEW k \in DOMAIN main, main[k] = ValueBlock(i, View),
                 \A j \in DOMAIN main : j > k => ~IsValueTo(j, i)
          PROVE  Current(i)'
      <4>1. k \in DOMAIN main' /\ main'[k] = ValueBlock(i, View')
        BY <1>4, <3>1, <3>3
      <4>2. \A j \in DOMAIN main' : j > k => ~(main'[j].op = "value" /\ main'[j].to = i)
        BY <2>2, <3>3 DEF IsValueTo
      <4> QED BY <4>1, <4>2 DEF Current, IsValueTo
    <3>4. ASSUME \A j \in DOMAIN main : ~IsValueTo(j, i), seen[i] = View
          PROVE  Current(i)'
      BY <2>2, <3>1, <3>4 DEF Current, IsValueTo
    <3> QED BY <3>2, <3>3, <3>4 DEF Current
  <2> QED BY <2>3, <2>4
<1> QED BY <1>5, <1>6

\* Running the head of the main queue hands its snapshot to its observer.
LEMMA MainDelivers ==
    ASSUME DeliveryInv, NEW calls \in Seq(Call), NEW blocks \in Seq(AppBlock),
           MainTurn(calls, blocks) \/ RunBlock(calls, blocks)
    PROVE  Addressed' /\ Delivery'
<1>1. View' = View /\ Ready' = Ready /\ regs' = regs
  BY ViewUnchanged DEF MainTurn, RunBlock
<1>2. blocks \in Seq(Block) /\ Len(blocks) \in Nat /\ DOMAIN blocks = 1..Len(blocks)
  BY SeqMonotonic, LenProperties DEF Block
<1>3. \A j \in DOMAIN blocks : blocks[j].op # "value"
  BY LenProperties, ElementOfSeq, AppBlockAssumption
<1>4. main \in Seq(Block) /\ Len(main) \in Nat /\ DOMAIN main = 1..Len(main)
  BY LenProperties DEF DeliveryInv, TypeOK
<1>5. CASE MainTurn(calls, blocks)
  <2>1. main' = main \o ValueEvents \o blocks
    <3>1. ValueEvents = <<>>
      BY <1>1 DEF ValueEvents
    <3> QED BY <1>4, <1>5, <3>1, ConcatEmptySeq DEF MainTurn
  <2>2. View' \in Record
    BY <1>1, ViewType DEF DeliveryInv
  <2> QED BY <1>1, <1>2, <1>3, <1>5, <2>1, <2>2, NotifyDelivers DEF MainTurn
<1>6. CASE RunBlock(calls, blocks)
  <2>1. main # <<>> /\ main' = Tail(main) \o blocks /\ Tail(main) \in Seq(Block)
    BY <1>4, <1>6, HeadTailProperties DEF RunBlock
  <2>2. /\ Len(main) # 0 /\ Head(main) = main[1] /\ 1 \in DOMAIN main
        /\ Len(Tail(main)) = Len(main) - 1
        /\ \A j \in 1..Len(main) - 1 : Tail(main)[j] = main[j + 1]
    BY <1>4, <2>1, EmptySeq, HeadTailProperties
  <2>3. /\ DOMAIN main' = 1..Len(main) - 1 + Len(blocks)
        /\ \A j \in 1..Len(main) - 1 + Len(blocks) :
              main'[j] = IF j <= Len(main) - 1 THEN Tail(main)[j] ELSE blocks[j - (Len(main) - 1)]
    BY <1>2, <2>1, <2>2, ConcatProperties, LenProperties
  <2>4. \A j \in DOMAIN main' :
            main'[j].op = "value" => j + 1 \in DOMAIN main /\ main'[j] = main[j + 1]
    <3> SUFFICES ASSUME NEW j \in DOMAIN main', main'[j].op = "value"
                 PROVE  j + 1 \in DOMAIN main /\ main'[j] = main[j + 1]
      OBVIOUS
    <3>1. CASE j <= Len(main) - 1
      BY <1>2, <1>4, <2>2, <2>3, <3>1
    <3>2. CASE ~(j <= Len(main) - 1)
      <4>1. j - (Len(main) - 1) \in DOMAIN blocks
        BY <1>2, <1>4, <2>2, <2>3, <3>2
      <4> QED BY <1>3, <2>3, <3>2, <4>1
    <3> QED BY <3>1, <3>2
  <2>5. \A k \in DOMAIN main : k # 1 => k - 1 \in DOMAIN main' /\ main'[k - 1] = main[k]
    <3> SUFFICES ASSUME NEW k \in DOMAIN main, k # 1
                 PROVE  k - 1 \in DOMAIN main' /\ main'[k - 1] = main[k]
      OBVIOUS
    <3>1. k - 1 \in 1..Len(main) - 1 /\ (k - 1) + 1 = k
      BY <1>4
    <3>2. k - 1 \in 1..Len(main) - 1 + Len(blocks) /\ k - 1 <= Len(main) - 1
      BY <1>2, <1>4, <3>1
    <3> QED BY <2>2, <2>3, <3>1, <3>2
  <2>6. Addressed'
    BY <1>1, <2>4 DEF DeliveryInv, Addressed
  <2>7. Delivery'
    <3> SUFFICES ASSUME Ready, NEW i \in DOMAIN regs
                 PROVE  Current(i)'
      BY <1>1 DEF Delivery
    <3>1. Current(i)
      BY DEF DeliveryInv, Delivery
    <3>2. DOMAIN seen = DOMAIN regs
      BY LenProperties DEF DeliveryInv, TypeOK
    <3>3. ASSUME NEW k \in DOMAIN main, main[k] = ValueBlock(i, View),
                 \A j \in DOMAIN main : j > k => ~IsValueTo(j, i)
          PROVE  Current(i)'
      <4>1. \A j \in DOMAIN main' :
               j > k - 1 => ~(main'[j].op = "value" /\ main'[j].to = i)
        <5> SUFFICES ASSUME NEW j \in DOMAIN main', j > k - 1,
                            main'[j].op = "value", main'[j].to = i
                     PROVE  FALSE
          OBVIOUS
        <5>1. j + 1 \in DOMAIN main /\ main'[j] = main[j + 1]
          BY <2>4
        <5>2. j + 1 > k
          BY <1>4, <2>3
        <5> QED BY <3>3, <5>1, <5>2 DEF IsValueTo
      <4>2. CASE k = 1
        <5>1. Head(main).op = "value" /\ Head(main).to = i /\ Head(main).snap = View
          BY <2>2, <3>3, <4>2 DEF ValueBlock
        <5>2. seen'[i] = View
          BY <1>6, <3>2, <5>1 DEF RunBlock
        <5>3. \A j \in DOMAIN main' : j > k - 1
          BY <1>2, <1>4, <2>3, <4>2
        <5> QED BY <1>1, <4>1, <5>2, <5>3 DEF Current, IsValueTo
      <4>3. CASE k # 1
        <5>1. k - 1 \in DOMAIN main' /\ main'[k - 1] = ValueBlock(i, View')
          BY <1>1, <2>5, <3>3, <4>3
        <5> QED BY <4>1, <5>1 DEF Current, IsValueTo
      <4> QED BY <4>2, <4>3
    <3>4. ASSUME \A j \in DOMAIN main : ~IsValueTo(j, i), seen[i] = View
          PROVE  Current(i)'
      <4>1. \A j \in DOMAIN main' : ~(main'[j].op = "value" /\ main'[j].to = i)
        BY <2>4, <3>4 DEF IsValueTo
      <4>2. ~(Head(main).op = "value" /\ Head(main).to = i)
        BY <2>2, <3>4 DEF IsValueTo
      <4>3. seen'[i] = seen[i]
        BY <1>6, <3>2, <4>2 DEF RunBlock
      <4> QED BY <1>1, <3>4, <4>1, <4>3 DEF Current, IsValueTo
    <3> QED BY <3>1, <3>3, <3>4 DEF Current
  <2> QED BY <2>6, <2>7
<1> QED BY <1>5, <1>6

\* A new observer starts with the view of the moment, if it is complete.
LEMMA ObserveDelivers ==
    ASSUME DeliveryInv, WorkerObserve
    PROVE  Addressed' /\ Delivery'
<1>1. View' = View /\ Ready' = Ready
  BY ViewUnchanged DEF WorkerObserve
<1>2. Head(work).kind \in Kind
  <2>1. Head(work) \in Call /\ Head(work).op = "observe"
    BY HeadTailProperties DEF WorkerObserve, DeliveryInv, TypeOK
  <2> QED BY <2>1 DEF Call
<1>n. PICK n \in Nat : n = Len(regs)
  BY LenProperties DEF DeliveryInv, TypeOK
<1> DEFINE b == ValueBlock(n + 1, View)
<1>3. /\ Len(regs) = n /\ Len(regs') = n + 1
      /\ DOMAIN regs = 1..n /\ DOMAIN regs' = 1..n + 1
      /\ seen \in Seq(Record \cup {NoSnap}) /\ DOMAIN seen = 1..n
      /\ main \in Seq(Block) /\ Len(main) \in Nat /\ DOMAIN main = 1..Len(main)
  BY <1>2, <1>n, AppendProperties, LenProperties DEF WorkerObserve, DeliveryInv, TypeOK
<1>4. \A i \in 1..n : seen'[i] = seen[i]
  BY <1>3, AppendProperties DEF WorkerObserve, DeliveryInv, TypeOK
<1>5. \A j \in DOMAIN main : main[j].op = "value" => main[j].to \in 1..n
  BY <1>3 DEF DeliveryInv, Addressed
<1>6. CASE ~Ready
  <2>1. main' = main
    BY <1>6 DEF WorkerObserve
  <2> QED BY <1>1, <1>3, <1>5, <1>6, <2>1 DEF Addressed, Delivery
<1>7. CASE Ready
  <2>1. main' = Append(main, b) /\ b \in Block
    BY <1>3, <1>7, ViewType DEF WorkerObserve, DeliveryInv, ValueBlock, Block
  <2>2. b.op = "value" /\ b.to = n + 1
    BY DEF ValueBlock
  <2> HIDE DEF b
  <2>3. /\ DOMAIN main' = 1..Len(main) + 1
        /\ \A j \in DOMAIN main : main'[j] = main[j]
        /\ main'[Len(main) + 1] = b
    BY <1>3, <2>1, AppendProperties, LenProperties
  <2>4. \A j \in DOMAIN main' : j \in DOMAIN main \/ j = Len(main) + 1
    BY <1>3, <2>3
  <2>5. \A j \in DOMAIN main : j \in DOMAIN main' /\ j # Len(main) + 1
    BY <1>3, <2>3
  <2>6. Addressed'
    BY <1>3, <1>5, <2>2, <2>3, <2>4 DEF Addressed
  <2>7. ASSUME NEW i \in 1..n PROVE Current(i)'
    <3>1. Current(i)
      BY <1>3, <1>7 DEF DeliveryInv, Delivery
    <3>2. \A j \in DOMAIN main' :
            main'[j].op = "value" /\ main'[j].to = i => j \in DOMAIN main /\ IsValueTo(j, i)
      BY <1>3, <2>2, <2>3, <2>4 DEF IsValueTo
    <3>3. ASSUME NEW k \in DOMAIN main, main[k] = ValueBlock(i, View),
                 \A j \in DOMAIN main : j > k => ~IsValueTo(j, i)
          PROVE  Current(i)'
      <4>1. k \in DOMAIN main' /\ main'[k] = ValueBlock(i, View')
        BY <1>1, <2>3, <2>5, <3>3
      <4> QED BY <3>2, <3>3, <4>1 DEF Current, IsValueTo
    <3>4. ASSUME \A j \in DOMAIN main : ~IsValueTo(j, i), seen[i] = View
          PROVE  Current(i)'
      BY <1>1, <1>4, <3>2, <3>4 DEF Current, IsValueTo
    <3> QED BY <3>1, <3>3, <3>4 DEF Current
  <2>8. Current(n + 1)'
    <3>1. PICK k \in Nat : k = Len(main) + 1
      BY <1>3
    <3>2. k \in DOMAIN main' /\ main'[k] = ValueBlock(n + 1, View')
      BY <1>1, <1>3, <2>3, <3>1 DEF b
    <3>3. \A j \in DOMAIN main' : ~(j > k)
      BY <1>3, <2>3, <3>1
    <3> QED BY <3>2, <3>3 DEF Current, IsValueTo
  <2>9. \A i \in DOMAIN regs' : i \in 1..n \/ i = n + 1
    BY <1>3
  <2>10. Delivery'
    BY <2>7, <2>8, <2>9 DEF Delivery
  <2> QED BY <2>6, <2>10
<1> QED BY <1>6, <1>7

\* Every step keeps the delivery invariant.
LEMMA NextDelivers ==
    ASSUME DeliveryInv, [Next]_vars
    PROVE  DeliveryInv'
<1>1. TypeOK /\ TypeOK'
  BY NextType DEF DeliveryInv
<1>2. View' \in Record
  BY <1>1, OverlayType DEF View, TypeOK
<1>3. CASE \E calls \in Seq(Call), blocks \in Seq(AppBlock) :
              MainTurn(calls, blocks) \/ RunBlock(calls, blocks)
  BY <1>1, <1>3, MainDelivers DEF DeliveryInv
<1>4. CASE WorkerObserve
  BY <1>1, <1>4, ObserveDelivers DEF DeliveryInv
<1>5. CASE WorkerSet \/ Load \/ ServerApply \/ \E rec \in Record : RemoteChange(rec)
  <2>1. regs' = regs /\ seen' = seen /\ main' = main \o ValueEvents
    BY <1>5 DEF WorkerSet, Load, ServerApply, RemoteChange
  <2>2. main' = main \o ValueEvents \o <<>>
    BY <1>1, <2>1, NoDone DEF TypeOK
  <2>3. <<>> \in Seq(Block) /\ \A j \in DOMAIN <<>> : <<>>[j].op # "value"
    BY EmptySeq
  <2> QED BY <1>1, <1>2, <2>1, <2>2, <2>3, NotifyDelivers DEF DeliveryInv
<1>6. CASE Answer
  <2>1. regs' = regs /\ seen' = seen
    BY <1>6 DEF Answer, Ack, Reject
  <2>2. PICK ok \in BOOLEAN :
          main' = main \o ValueEvents \o Completion(Head(pending), ok)
    BY <1>6 DEF Answer, Ack, Reject
  <2>3. Head(pending) \in Write
    BY <1>1, <1>6, HeadTailProperties DEF Answer, Ack, Reject, Answerable, TypeOK
  <2> QED BY <1>1, <1>2, <2>1, <2>2, <2>3, CompletionType, NotifyDelivers DEF DeliveryInv
<1>7. CASE Reconnect \/ UNCHANGED vars
  <2>1. View' = View /\ Ready' = Ready /\ UNCHANGED <<main, regs, seen>>
    BY <1>7, ViewUnchanged DEF Reconnect, vars
  <2> QED BY <1>1, <2>1 DEF DeliveryInv, Addressed, Delivery, Current, IsValueTo
<1>8. CASE Restart
  <2>1. DOMAIN main' = {} /\ DOMAIN regs' = {}
    BY <1>8, EmptySeq DEF Restart
  <2> QED BY <1>1, <2>1 DEF DeliveryInv, Addressed, Delivery
<1> QED BY <1>3, <1>4, <1>5, <1>6, <1>7, <1>8 DEF Next, Backend

\* The delivery invariant holds in every behaviour.
LEMMA DeliveryInductive == Spec => []DeliveryInv
<1>1. Init => DeliveryInv
  <2>1. Init => DOMAIN main = {} /\ DOMAIN regs = {}
    BY EmptySeq DEF Init
  <2>2. Init => TypeOK
    BY InitType
  <2> QED BY <2>1, <2>2 DEF DeliveryInv, Addressed, Delivery
<1>2. DeliveryInv /\ [Next]_vars => DeliveryInv'
  BY NextDelivers
<1> QED BY <1>1, <1>2, PTL DEF Spec

\* Whatever the order of local writes, answers, refusals, pushes and
\* registrations, no observer misses an update (FSyncTree, FEventRaiser).
THEOREM DeliveryCorrect == Spec => []Delivery
<1>1. DeliveryInv => Delivery
  BY DEF DeliveryInv
<1> QED BY <1>1, DeliveryInductive, PTL

\* With nothing on its way and no write unanswered, a screen shows what the
\* server holds, a refused write included.
THEOREM ConvergedCorrect == Spec => []Converged
<1>1. DeliveryInv => Converged
  <2> SUFFICES ASSUME DeliveryInv, loaded, pending = <<>>, NEW i \in DOMAIN regs,
                      \A j \in DOMAIN main : ~IsValueTo(j, i)
               PROVE  seen[i] = server
    BY DEF Converged
  <2>1. Ready
    BY DEF Ready
  <2>2. Current(i)
    BY <2>1 DEF DeliveryInv, Delivery
  <2>3. seen[i] = View
    BY <2>2 DEF Current, IsValueTo, ValueBlock
  <2>4. DOMAIN pending = {}
    BY EmptySeq
  <2>5. View = [f \in Field |-> server[f]]
    BY <2>4 DEF View, Overlay
  <2>6. server = [f \in Field |-> server[f]]
    BY DEF DeliveryInv, TypeOK, Record
  <2> QED BY <2>3, <2>5, <2>6
<1> QED BY <1>1, DeliveryInductive, PTL
-----------------------------------------------------------------------------
(* The order of the answers.  Inductive once the ids on both queues are known *)
(* not to exceed the last id given out: the next write gets a greater one.    *)

IsDone(b) == b.op = "done"

Ordered(m, p, n) ==
    /\ \A j, k \in DOMAIN m : j < k /\ IsDone(m[j]) /\ IsDone(m[k]) => m[j].id < m[k].id
    /\ \A j \in DOMAIN m, k \in DOMAIN p : IsDone(m[j]) => m[j].id < p[k].id
    /\ \A j, k \in DOMAIN p : j < k => p[j].id < p[k].id
    /\ \A k \in DOMAIN p : p[k].id <= n
    /\ \A j \in DOMAIN m : IsDone(m[j]) => m[j].id <= n

OrderInv == TypeOK /\ Ordered(main, pending, writeId)

\* Blocks that answer no write can be queued anywhere.
LEMMA OthersOrdered ==
    ASSUME NEW m \in Seq(Block), NEW p \in Seq(Write), NEW n \in Nat,
           Ordered(m, p, n), NEW t \in Seq(Block), \A j \in DOMAIN t : ~IsDone(t[j])
    PROVE  Ordered(m \o t, p, n)
<1>1. \A j \in DOMAIN (m \o t) :
          IsDone((m \o t)[j]) => j \in DOMAIN m /\ (m \o t)[j] = m[j]
  <2> SUFFICES ASSUME NEW j \in DOMAIN (m \o t), IsDone((m \o t)[j])
               PROVE  j \in DOMAIN m /\ (m \o t)[j] = m[j]
    OBVIOUS
  <2>1. /\ Len(m) \in Nat /\ Len(t) \in Nat /\ DOMAIN m = 1 .. Len(m)
        /\ DOMAIN t = 1 .. Len(t) /\ DOMAIN (m \o t) = 1 .. Len(m) + Len(t)
    BY LenProperties, ConcatProperties
  <2>2. (m \o t)[j] = IF j <= Len(m) THEN m[j] ELSE t[j - Len(m)]
    BY <2>1, ConcatProperties
  <2>3. CASE j <= Len(m)
    BY <2>1, <2>2, <2>3
  <2>4. CASE ~(j <= Len(m))
    <3>1. j - Len(m) \in DOMAIN t
      BY <2>1, <2>4
    <3> QED BY <2>2, <2>4, <3>1
  <2> QED BY <2>3, <2>4
<1> DEFINE s == m \o t
<1> HIDE DEF s
<1>2. \A j \in DOMAIN s : IsDone(s[j]) => j \in DOMAIN m /\ s[j] = m[j]
  BY <1>1 DEF s
<1>3. Ordered(s, p, n)
  BY <1>2 DEF Ordered
<1> QED BY <1>3 DEF s

\* The block that runs leaves the rest in order.
LEMMA TailOrdered ==
    ASSUME NEW m \in Seq(Block), NEW p \in Seq(Write), NEW n \in Nat,
           Ordered(m, p, n), m # <<>>
    PROVE  Ordered(Tail(m), p, n)
<1> DEFINE s == Tail(m)
<1>1. /\ s \in Seq(Block) /\ Len(m) \in Nat /\ Len(s) = Len(m) - 1
      /\ \A j \in 1 .. Len(s) : s[j] = m[j + 1]
  BY LenProperties, HeadTailProperties
<1> HIDE DEF s
<1>2. DOMAIN s = 1 .. Len(m) - 1 /\ DOMAIN m = 1 .. Len(m)
  BY <1>1, LenProperties
<1>3. \A j \in DOMAIN s : j \in Int /\ j + 1 \in DOMAIN m /\ s[j] = m[j + 1]
  BY <1>1, <1>2
<1>4. \A j, k \in DOMAIN s : j < k => j + 1 < k + 1
  BY <1>3
<1>5. Ordered(s, p, n)
  BY <1>3, <1>4 DEF Ordered
<1> QED BY <1>5 DEF s

\* A new write gets a greater id than any before it.
LEMMA WriteOrdered ==
    ASSUME NEW m \in Seq(Block), NEW p \in Seq(Write), NEW n \in Nat,
           Ordered(m, p, n), NEW w \in Write, w.id = n + 1
    PROVE  Ordered(m, Append(p, w), n + 1)
<1> DEFINE q == Append(p, w)
<1>1. /\ q \in Seq(Write) /\ Len(p) \in Nat /\ Len(q) = Len(p) + 1
      /\ \A j \in 1 .. Len(p) : q[j] = p[j]
      /\ q[Len(p) + 1] = w
  BY LenProperties, AppendProperties
<1> HIDE DEF q
<1>2. DOMAIN q = 1 .. Len(p) + 1 /\ DOMAIN p = 1 .. Len(p)
  BY <1>1, LenProperties
<1>3. \A k \in DOMAIN q : \/ k \in DOMAIN p /\ q[k] = p[k] /\ k <= Len(p)
                          \/ k = Len(p) + 1 /\ q[k].id = n + 1
  BY <1>1, <1>2
<1>4. \A k \in DOMAIN p : p[k].id \in Nat /\ p[k].id <= n
  <2>1. \A k \in DOMAIN p : p[k] \in Write
    BY <1>2, ElementOfSeq
  <2> QED BY <2>1 DEF Ordered, Write
<1>5. \A j \in DOMAIN m : IsDone(m[j]) => m[j].id \in Nat /\ m[j].id <= n
  <2>1. \A j \in DOMAIN m : m[j] \in Block
    BY LenProperties, ElementOfSeq
  <2>2. \A b \in Block : IsDone(b) => b.id \in Nat
    BY AppBlockAssumption DEF Block, IsDone
  <2> QED BY <2>1, <2>2 DEF Ordered
<1>6. \A j \in DOMAIN m, k \in DOMAIN q : IsDone(m[j]) => m[j].id < q[k].id
  BY <1>3, <1>5 DEF Ordered
<1>7. \A j, k \in DOMAIN q : j < k => q[j].id < q[k].id
  <2> SUFFICES ASSUME NEW j \in DOMAIN q, NEW k \in DOMAIN q, j < k
               PROVE  q[j].id < q[k].id
    OBVIOUS
  <2>1. j \in DOMAIN p /\ q[j] = p[j]
    BY <1>1, <1>2, <1>3
  <2>2. CASE k \in DOMAIN p /\ q[k] = p[k]
    BY <2>1, <2>2 DEF Ordered
  <2>3. CASE q[k].id = n + 1
    BY <1>4, <2>1, <2>3
  <2> QED BY <1>3, <2>2, <2>3
<1>8. \A k \in DOMAIN q : q[k].id <= n + 1
  BY <1>3, <1>4
<1>9. \A j \in DOMAIN m : IsDone(m[j]) => m[j].id <= n + 1
  BY <1>5
<1>10. Ordered(m, q, n + 1)
  BY <1>6, <1>7, <1>8, <1>9 DEF Ordered
<1> QED BY <1>10 DEF q

\* The oldest write leaves; its answer goes behind all answers before it, and
\* no write that is left is older.
LEMMA AnswerOrdered ==
    ASSUME NEW m \in Seq(Block), NEW p \in Seq(Write), NEW n \in Nat,
           Ordered(m, p, n), p # <<>>, NEW ok \in BOOLEAN
    PROVE  Ordered(m \o Completion(Head(p), ok), Tail(p), n)
<1> DEFINE w == Head(p)
           q == Tail(p)
<1>1. /\ q \in Seq(Write) /\ Len(p) \in Nat /\ Len(q) = Len(p) - 1 /\ w = p[1]
      /\ \A j \in 1 .. Len(q) : q[j] = p[j + 1]
  BY LenProperties, HeadTailProperties
<1>2. Len(p) # 0
  BY EmptySeq
<1>w. w \in Write
  BY HeadTailProperties
<1> HIDE DEF w, q
<1>3. DOMAIN q = 1 .. Len(p) - 1 /\ DOMAIN p = 1 .. Len(p) /\ 1 \in DOMAIN p
  BY <1>1, <1>2, LenProperties
<1>4. \A k \in DOMAIN q : k \in Int /\ k + 1 \in DOMAIN p /\ 1 < k + 1 /\ q[k] = p[k + 1]
  BY <1>1, <1>3
<1>5. \A j, k \in DOMAIN q : j < k => j + 1 < k + 1
  BY <1>4
<1>6. Ordered(m, q, n)
  BY <1>4, <1>5 DEF Ordered
<1>7. CASE w.tag = NoTag
  <2>1. Completion(w, ok) = <<>>
    BY <1>7 DEF Completion
  <2>2. m \o <<>> = m
    BY ConcatEmptySeq
  <2> QED BY <1>6, <2>1, <2>2 DEF w, q
<1>8. CASE w.tag # NoTag
  <2> DEFINE b == DoneBlock(w.id, w.tag, ok)
             s == Append(m, b)
  <2>1. b \in Block /\ b.id = w.id
    BY <1>8, <1>w DEF DoneBlock, Block, Write
  <2>2. Completion(w, ok) = <<b>>
    BY <1>8 DEF Completion
  <2>3. m \o <<b>> = s
    BY <2>1, AppendIsConcat
  <2> HIDE DEF b
  <2>4. /\ s \in Seq(Block) /\ Len(m) \in Nat /\ Len(s) = Len(m) + 1
        /\ \A j \in 1 .. Len(m) : s[j] = m[j]
        /\ s[Len(m) + 1] = b
    BY <2>1, LenProperties, AppendProperties
  <2> HIDE DEF s
  <2>5. DOMAIN s = 1 .. Len(m) + 1 /\ DOMAIN m = 1 .. Len(m)
    BY <2>4, LenProperties
  <2>6. \A j \in DOMAIN s : \/ j \in DOMAIN m /\ s[j] = m[j] /\ j <= Len(m)
                            \/ j = Len(m) + 1 /\ s[j].id = w.id
    BY <2>1, <2>4, <2>5
  <2>7. \A j \in DOMAIN m : IsDone(m[j]) => m[j].id < w.id
    BY <1>1, <1>3 DEF Ordered
  <2>8. \A k \in DOMAIN q : w.id < q[k].id
    BY <1>1, <1>3, <1>4 DEF Ordered
  <2>9. w.id <= n
    BY <1>1, <1>3 DEF Ordered
  <2>10. \A j, k \in DOMAIN s : j < k /\ IsDone(s[j]) /\ IsDone(s[k]) => s[j].id < s[k].id
    <3> SUFFICES ASSUME NEW j \in DOMAIN s, NEW k \in DOMAIN s, j < k,
                        IsDone(s[j]), IsDone(s[k])
                 PROVE  s[j].id < s[k].id
      OBVIOUS
    <3>1. j \in DOMAIN m /\ s[j] = m[j]
      BY <2>4, <2>5, <2>6
    <3>2. CASE k \in DOMAIN m /\ s[k] = m[k]
      BY <3>1, <3>2 DEF Ordered
    <3>3. CASE s[k].id = w.id
      BY <2>7, <3>1, <3>3
    <3> QED BY <2>6, <3>2, <3>3
  <2>11. \A j \in DOMAIN s, k \in DOMAIN q : IsDone(s[j]) => s[j].id < q[k].id
    BY <1>6, <2>6, <2>8 DEF Ordered
  <2>12. \A j \in DOMAIN s : IsDone(s[j]) => s[j].id <= n
    BY <1>6, <2>6, <2>9 DEF Ordered
  <2>13. Ordered(s, q, n)
    BY <1>6, <2>10, <2>11, <2>12 DEF Ordered
  <2> QED BY <2>2, <2>3, <2>13 DEF w, q
<1> QED BY <1>7, <1>8

\* Value blocks answer no write.
LEMMA EventsOthers ==
    ASSUME regs \in Seq(Kind)
    PROVE  \A j \in DOMAIN ValueEvents : ~IsDone(ValueEvents[j])
<1>1. CASE ValueEvents = <<>>
  BY <1>1, EmptySeq
<1>2. CASE ValueEvents = [i \in 1..Len(regs) |-> ValueBlock(i, View')]
  BY <1>2 DEF ValueBlock, IsDone
<1> QED BY <1>1, <1>2 DEF ValueEvents

\* Every step keeps the order.
LEMMA NextOrders ==
    ASSUME OrderInv, [Next]_vars
    PROVE  OrderInv'
<1>1. TypeOK /\ TypeOK'
  BY NextType DEF OrderInv
<1>t. /\ main \in Seq(Block) /\ pending \in Seq(Write) /\ writeId \in Nat
      /\ regs \in Seq(Kind) /\ Ordered(main, pending, writeId)
  BY DEF OrderInv, TypeOK
<1>2. View' \in Record
  BY <1>1, OverlayType DEF View, TypeOK
<1>e. ValueEvents \in Seq(Block) /\ \A j \in DOMAIN ValueEvents : ~IsDone(ValueEvents[j])
  BY <1>t, <1>2, EventsType, EventsOthers
<1>v. Ordered(main \o ValueEvents, pending, writeId) /\ main \o ValueEvents \in Seq(Block)
  <2> DEFINE E == ValueEvents
  <2> HIDE DEF E
  <2>1. E \in Seq(Block) /\ \A j \in DOMAIN E : ~IsDone(E[j])
    BY <1>e DEF E
  <2>2. Ordered(main \o E, pending, writeId) /\ main \o E \in Seq(Block)
    BY <1>t, <2>1, OthersOrdered, ConcatProperties
  <2> QED BY <2>2 DEF E
<1>3. CASE \E calls \in Seq(Call), blocks \in Seq(AppBlock) :
              MainTurn(calls, blocks) \/ RunBlock(calls, blocks)
  <2>1. PICK calls \in Seq(Call), blocks \in Seq(AppBlock) :
              MainTurn(calls, blocks) \/ RunBlock(calls, blocks)
    BY <1>3
  <2>2. blocks \in Seq(Block)
    BY SeqMonotonic DEF Block
  <2>3. \A j \in DOMAIN blocks : ~IsDone(blocks[j])
    <3>1. \A j \in DOMAIN blocks : blocks[j] \in AppBlock
      BY LenProperties, ElementOfSeq
    <3> QED BY <3>1, AppBlockAssumption DEF IsDone
  <2>4. CASE MainTurn(calls, blocks)
    <3>1. main' = main \o blocks /\ pending' = pending /\ writeId' = writeId
      BY <2>4 DEF MainTurn
    <3> QED BY <1>1, <1>t, <2>2, <2>3, <3>1, OthersOrdered DEF OrderInv
  <2>5. CASE RunBlock(calls, blocks)
    <3>1. /\ main # <<>> /\ main' = Tail(main) \o blocks
          /\ pending' = pending /\ writeId' = writeId
      BY <2>5 DEF RunBlock
    <3>2. Ordered(Tail(main), pending, writeId) /\ Tail(main) \in Seq(Block)
      BY <1>t, <3>1, TailOrdered, HeadTailProperties
    <3>3. Ordered(Tail(main) \o blocks, pending, writeId)
      BY <1>t, <2>2, <2>3, <3>2, OthersOrdered
    <3> QED BY <1>1, <3>1, <3>3 DEF OrderInv
  <2> QED BY <2>1, <2>4, <2>5
<1>4. CASE WorkerObserve
  <2>1. pending' = pending /\ writeId' = writeId
    BY <1>4 DEF WorkerObserve
  <2>2. CASE main' = main
    BY <1>1, <1>t, <2>1, <2>2 DEF OrderInv
  <2>3. CASE main' = Append(main, ValueBlock(Len(regs'), View))
    <3> DEFINE b == ValueBlock(Len(regs'), View)
    <3>1. b \in Block
      <4>1. Len(regs') \in Nat
        BY <1>1, LenProperties DEF TypeOK
      <4> QED BY <1>1, <4>1, ViewType DEF ValueBlock, Block
    <3>2. ~IsDone(b)
      BY DEF ValueBlock, IsDone
    <3> HIDE DEF b
    <3>3. <<b>> \in Seq(Block) /\ \A j \in DOMAIN <<b>> : ~IsDone(<<b>>[j])
      BY <3>1, <3>2
    <3>4. main' = main \o <<b>>
      BY <1>t, <2>3, <3>1, AppendIsConcat DEF b
    <3> QED BY <1>1, <1>t, <2>1, <3>3, <3>4, OthersOrdered DEF OrderInv
  <2> QED BY <1>4, <2>2, <2>3 DEF WorkerObserve
<1>5. CASE WorkerSet
  <2> DEFINE w == [id |-> writeId', data |-> Head(work).data, tag |-> Head(work).tag]
  <2>1. /\ writeId' = writeId + 1 /\ pending' = Append(pending, w) /\ w.id = writeId + 1
        /\ main' = main \o ValueEvents
    BY <1>5 DEF WorkerSet
  <2>2. w \in Write
    <3>1. Head(work) \in Call /\ Head(work).op = "set"
      BY <1>1, <1>5, HeadTailProperties DEF WorkerSet, TypeOK
    <3>2. Head(work).data \in Data /\ Head(work).tag \in Tag \cup {NoTag}
      BY <3>1 DEF Call
    <3> QED BY <1>t, <2>1, <3>2 DEF Write
  <2> HIDE DEF w
  <2> DEFINE s == main \o ValueEvents
  <2>3. s \in Seq(Block) /\ Ordered(s, pending, writeId)
    BY <1>v
  <2> HIDE DEF s
  <2>4. Ordered(s, Append(pending, w), writeId + 1)
    BY <1>t, <2>1, <2>2, <2>3, WriteOrdered
  <2> QED BY <1>1, <2>1, <2>4 DEF OrderInv, s
<1>6. CASE Load \/ ServerApply \/ \E rec \in Record : RemoteChange(rec)
  <2>1. pending' = pending /\ writeId' = writeId /\ main' = main \o ValueEvents
    BY <1>6 DEF Load, ServerApply, RemoteChange
  <2> QED BY <1>1, <1>v, <2>1 DEF OrderInv
<1>7. CASE Answer
  <2>1. /\ pending # <<>> /\ pending' = Tail(pending) /\ writeId' = writeId
    BY <1>7 DEF Answer, Ack, Reject, Answerable
  <2>2. PICK ok \in BOOLEAN :
          main' = main \o ValueEvents \o Completion(Head(pending), ok)
    BY <1>7 DEF Answer, Ack, Reject
  <2> DEFINE s == main \o ValueEvents
  <2>3. s \in Seq(Block) /\ Ordered(s, pending, writeId)
    BY <1>v
  <2>4. main' = s \o Completion(Head(pending), ok)
    BY <2>2
  <2> HIDE DEF s
  <2>5. Ordered(s \o Completion(Head(pending), ok), Tail(pending), writeId)
    BY <1>t, <2>1, <2>3, AnswerOrdered
  <2> QED BY <1>1, <2>1, <2>4, <2>5 DEF OrderInv
<1>8. CASE Reconnect \/ UNCHANGED vars
  <2>1. pending' = pending /\ writeId' = writeId /\ main' = main
    BY <1>8 DEF Reconnect, vars
  <2> QED BY <1>1, <1>t, <2>1 DEF OrderInv
<1>9. CASE Restart
  <2>1. DOMAIN main' = {} /\ DOMAIN pending' = {}
    BY <1>9, EmptySeq DEF Restart
  <2> QED BY <1>1, <2>1 DEF OrderInv, Ordered
<1> QED BY <1>3, <1>4, <1>5, <1>6, <1>7, <1>8, <1>9 DEF Next, Backend

\* Completion blocks run in the order of the writes and no write is answered
\* twice, whatever is refused, sent again or lost (FRepo's and
\* FPersistentConnection's ids).
THEOREM AnswersCorrect == Spec => []AnswersInOrder
<1>1. Init => OrderInv
  <2>1. Init => DOMAIN main = {} /\ DOMAIN pending = {}
    BY EmptySeq DEF Init
  <2>2. Init => TypeOK
    BY InitType
  <2> QED BY <2>1, <2>2 DEF OrderInv, Ordered
<1>2. OrderInv /\ [Next]_vars => OrderInv'
  BY NextOrders
<1>3. OrderInv => AnswersInOrder
  BY DEF OrderInv, Ordered, IsDone, AnswersInOrder
<1> QED BY <1>1, <1>2, <1>3, PTL DEF Spec
-----------------------------------------------------------------------------
(* For the modules that extend this one: what the last block of a kind on a  *)
(* queue says, as blocks come and go.                                        *)

Without(m, op) == \A k \in DOMAIN m : m[k].op # op

LastOf(m, op, k) ==
    /\ k \in DOMAIN m /\ m[k].op = op
    /\ \A j \in DOMAIN m : j > k => m[j].op # op

LastSays(m, op, v) == \A k \in DOMAIN m : LastOf(m, op, k) => m[k].snap = v

\* Blocks of another kind change nothing.
LEMMA AppendOthers ==
    ASSUME NEW m \in Seq(Block), NEW t \in Seq(Block), NEW op, Without(t, op)
    PROVE  /\ Without(m \o t, op) <=> Without(m, op)
           /\ \A v : LastSays(m, op, v) => LastSays(m \o t, op, v)
<1> DEFINE s == m \o t
<1>1. /\ Len(m) \in Nat /\ Len(t) \in Nat /\ DOMAIN m = 1..Len(m) /\ DOMAIN t = 1..Len(t)
      /\ s \in Seq(Block) /\ DOMAIN s = 1..Len(m) + Len(t)
      /\ \A i \in 1..Len(m) + Len(t) : s[i] = IF i <= Len(m) THEN m[i] ELSE t[i - Len(m)]
  <2>1. s \in Seq(Block) /\ Len(s) = Len(m) + Len(t)
    BY ConcatProperties
  <2> QED BY <2>1, LenProperties, ConcatProperties
<1> HIDE DEF s
<1>2. ASSUME NEW i \in DOMAIN s, s[i].op = op
      PROVE  i \in DOMAIN m /\ s[i] = m[i]
  <2>1. CASE i <= Len(m)
    BY <1>1, <2>1
  <2>2. CASE ~(i <= Len(m))
    <3>1. i - Len(m) \in DOMAIN t
      BY <1>1, <2>2
    <3> QED BY <1>1, <1>2, <2>2, <3>1 DEF Without
  <2> QED BY <2>1, <2>2
<1>3. \A i \in DOMAIN m : i \in DOMAIN s /\ s[i] = m[i]
  BY <1>1
<1>4. Without(s, op) <=> Without(m, op)
  BY <1>2, <1>3 DEF Without
<1>5. ASSUME NEW k \in DOMAIN s, LastOf(s, op, k)
      PROVE  k \in DOMAIN m /\ LastOf(m, op, k) /\ s[k] = m[k]
  BY <1>2, <1>3, <1>5 DEF LastOf
<1>6. \A v : LastSays(m, op, v) => LastSays(s, op, v)
  BY <1>5 DEF LastSays
<1> QED BY <1>4, <1>6 DEF s

\* Blocks of the kind that all say the same have the last word.
LEMMA AppendSaying ==
    ASSUME NEW m \in Seq(Block), NEW e \in Seq(Block), NEW op, NEW v,
           e # <<>>, \A i \in DOMAIN e : e[i].op = op /\ e[i].snap = v
    PROVE  ~ Without(m \o e, op) /\ LastSays(m \o e, op, v)
<1> DEFINE s == m \o e
<1>1. /\ Len(m) \in Nat /\ Len(e) \in Nat /\ Len(e) # 0 /\ DOMAIN e = 1..Len(e)
      /\ s \in Seq(Block) /\ DOMAIN s = 1..Len(m) + Len(e)
      /\ \A i \in 1..Len(m) + Len(e) : s[i] = IF i <= Len(m) THEN m[i] ELSE e[i - Len(m)]
  <2>1. s \in Seq(Block) /\ Len(s) = Len(m) + Len(e)
    BY ConcatProperties
  <2> QED BY <2>1, LenProperties, EmptySeq, ConcatProperties
<1> HIDE DEF s
<1>2. \A i \in DOMAIN s : ~(i <= Len(m)) => s[i].op = op /\ s[i].snap = v
  <2> SUFFICES ASSUME NEW i \in DOMAIN s, ~(i <= Len(m))
               PROVE  s[i].op = op /\ s[i].snap = v
    OBVIOUS
  <2>1. i - Len(m) \in DOMAIN e
    BY <1>1
  <2> QED BY <1>1, <2>1
<1>3. Len(m) + Len(e) \in DOMAIN s /\ ~(Len(m) + Len(e) <= Len(m))
  BY <1>1
<1>4. ~ Without(s, op)
  BY <1>2, <1>3 DEF Without
<1>5. ASSUME NEW k \in DOMAIN s, LastOf(s, op, k)
      PROVE  s[k].snap = v
  <2>1. ~(k <= Len(m))
    <3> SUFFICES ASSUME k <= Len(m) PROVE FALSE
      OBVIOUS
    <3>1. Len(m) + Len(e) > k
      BY <1>1, <1>5
    <3> QED BY <1>2, <1>3, <1>5, <3>1 DEF LastOf
  <2> QED BY <1>2, <1>5, <2>1
<1> QED BY <1>4, <1>5 DEF LastSays, s

\* Once the first block has run: it had the last word if none is left.
LEMMA TailSays ==
    ASSUME NEW m \in Seq(Block), m # <<>>, NEW op
    PROVE  /\ Tail(m) \in Seq(Block)
           /\ Without(m, op) <=> Without(Tail(m), op) /\ Head(m).op # op
           /\ \A v : LastSays(m, op, v) => LastSays(Tail(m), op, v)
           /\ \A v : LastSays(m, op, v) /\ Without(Tail(m), op) /\ Head(m).op = op
                        => Head(m).snap = v
<1> DEFINE s == Tail(m)
<1>1. /\ s \in Seq(Block) /\ Len(m) \in Nat /\ Len(m) # 0 /\ DOMAIN m = 1..Len(m)
      /\ DOMAIN s = 1..Len(m) - 1 /\ \A i \in 1..Len(m) - 1 : s[i] = m[i + 1]
  <2>1. s \in Seq(Block) /\ Len(s) = Len(m) - 1 /\ \A i \in 1..Len(s) : s[i] = m[i + 1]
    BY HeadTailProperties
  <2> QED BY <2>1, LenProperties, EmptySeq
<1>2. Head(m) = m[1] /\ 1 \in DOMAIN m
  BY <1>1
<1> HIDE DEF s
<1>3. ASSUME NEW i \in DOMAIN m, i # 1
      PROVE  i - 1 \in DOMAIN s /\ s[i - 1] = m[i]
  <2>1. i - 1 \in 1..Len(m) - 1 /\ i - 1 + 1 = i
    BY <1>1, <1>3
  <2> QED BY <1>1, <2>1
<1>4. \A k \in DOMAIN s : k + 1 \in DOMAIN m /\ s[k] = m[k + 1]
  BY <1>1
<1>5. Without(m, op) <=> Without(s, op) /\ Head(m).op # op
  BY <1>2, <1>3, <1>4 DEF Without
<1>6. ASSUME Without(s, op), Head(m).op = op
      PROVE  LastOf(m, op, 1)
  <2>1. \A j \in DOMAIN m : j > 1 => m[j].op # op
    <3> SUFFICES ASSUME NEW j \in DOMAIN m, j > 1 PROVE m[j].op # op
      OBVIOUS
    <3>1. j # 1
      BY <1>1
    <3> QED BY <1>3, <1>6, <3>1 DEF Without
  <2> QED BY <1>2, <1>6, <2>1 DEF LastOf
<1>7. \A v : LastSays(m, op, v) /\ Without(s, op) /\ Head(m).op = op => Head(m).snap = v
  BY <1>2, <1>6 DEF LastSays
<1>8. ASSUME NEW k \in DOMAIN s, LastOf(s, op, k)
      PROVE  LastOf(m, op, k + 1)
  <2>1. k + 1 \in DOMAIN m /\ s[k] = m[k + 1]
    BY <1>4
  <2>2. \A j \in DOMAIN m : j > k + 1 => m[j].op # op
    <3> SUFFICES ASSUME NEW j \in DOMAIN m, j > k + 1 PROVE m[j].op # op
      OBVIOUS
    <3>1. j # 1 /\ j - 1 > k
      BY <1>1
    <3> QED BY <1>3, <1>8, <3>1 DEF LastOf
  <2> QED BY <1>8, <2>1, <2>2 DEF LastOf
<1>9. \A v : LastSays(m, op, v) => LastSays(s, op, v)
  BY <1>4, <1>8 DEF LastSays
<1> QED BY <1>1, <1>5, <1>7, <1>9 DEF s
=============================================================================
