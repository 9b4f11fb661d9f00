--------------------------- MODULE GateAndFeed_proofs ---------------------------
(****************************************************************************)
(* Proofs about ProfileGate and NewsFeed, the two users of the record on    *)
(* the Home screen, for any number of screens, appearances, pulls, saves,   *)
(* changes by other devices, reconnections and restarts: each is a user of  *)
(* UserRecord; what the gate has judged, and that its forced casts succeed  *)
(* for an account whose record was written when it was made; what the feed  *)
(* asked for last, and what its list shows.                                 *)
(****************************************************************************)
EXTENDS MCProfileGate, NewsFeed, UserRecord_proofs

(* One kind per Profile screen ever made.  A hypothesis of the theorems and *)
(* not an assumption of the module: no run can make so many.                *)
KindsAssumption == \A n \in Nat : ProfileKind(n) \in Kind

-----------------------------------------------------------------------------
(* The app calls the database as UserRecord says it is called. *)

AppTypeOK ==
    /\ container \in {"noAccount", "signingUp", "none", "open"}
    /\ presented \in {"none", "profile", "other", "dismissing"}
    /\ opened \in Nat
    /\ text \in [TextFields -> Value]
    /\ judged \in Record \cup {NoSnap}
    /\ crashed \in BOOLEAN

GateTypeOK == TypeOK /\ AppTypeOK

\* The calls of the gate and of the screens.
LEMMA GateCalls ==
    ASSUME KindsAssumption
    PROVE  /\ ObserveCall(GateKind) \in Call
           /\ \A n \in Nat : ObserveCall(ProfileKind(n)) \in Call
           /\ SetCall([f \in RecordFields |-> ""], "signUp") \in Call
           /\ \A f \in RecordFields, v \in Value : SetField(f, v) \in Call
<1>1. ObserveCall(GateKind) \in Call
  BY RecordAssumption DEF ObserveCall, Call
<1>2. \A n \in Nat : ObserveCall(ProfileKind(n)) \in Call
  BY DEF KindsAssumption, ObserveCall, Call
<1>3. SetCall([f \in RecordFields |-> ""], "signUp") \in Call
  <2>1. [f \in RecordFields |-> ""] \in Data
    BY RecordAssumption DEF Data
  <2>2. PICK d \in Data : d = [f \in RecordFields |-> ""]
    BY <2>1
  <2>3. SetCall(d, "signUp") \in Call
    BY RecordAssumption DEF SetCall, Call
  <2> QED BY <2>2, <2>3
<1>4. ASSUME NEW f \in RecordFields, NEW v \in Value
      PROVE  SetField(f, v) \in Call
  <2>1. [g \in {f} |-> v] \in [{f} -> Value]
    OBVIOUS
  <2>2. [g \in {f} |-> v] \in Data
    BY <2>1, RecordAssumption DEF Data
  <2> QED BY <2>2 DEF SetField, SetCall, Call
<1> QED BY <1>1, <1>2, <1>3, <1>4

\* What the head of the main queue carries.
LEMMA HeadType ==
    ASSUME TypeOK, main # <<>>, Head(main).op \in {"value", "hop"}
    PROVE  Head(main).snap \in Record
<1>1. Head(main) \in Block
  BY HeadTailProperties DEF TypeOK
<1> QED BY <1>1, RecordAssumption DEF Block

\* A snapshot waits one turn of the main queue in a hop.
LEMMA HopType ==
    ASSUME NEW snap \in Record
    PROVE  <<HopBlock(snap)>> \in Seq(AppBlock)
<1>1. HopBlock(snap) \in AppBlock
  BY RecordAssumption DEF HopBlock
<1> QED BY <1>1

\* Queues of one call and of none.
LEMMA OneCall ==
    /\ \A c \in Call : <<c>> \in Seq(Call)
    /\ <<>> \in Seq(Call) /\ <<>> \in Seq(AppBlock)
<1>1. \A c \in Call : <<c>> \in Seq(Call)
  OBVIOUS
<1>2. <<>> \in Seq(Call) /\ <<>> \in Seq(AppBlock)
  BY EmptySeq
<1> QED BY <1>1, <1>2

\* The queue of a save.
LEMMA FiveCalls ==
    ASSUME NEW S, NEW a \in S, NEW b \in S, NEW c \in S, NEW d \in S, NEW e \in S
    PROVE  <<a, b, c, d, e>> \in Seq(S)
OBVIOUS

\* A turn of the main thread with calls of the right type is a step of Next.
LEMMA TurnStep ==
    ASSUME NEW c \in Seq(Call), NEW b \in Seq(AppBlock), MainTurn(c, b) \/ RunBlock(c, b)
    PROVE  Next
BY DEF Next

\* Every step of the app is a step of the database or leaves it alone.
LEMMA GateStep ==
    ASSUME KindsAssumption, GateTypeOK, [GateNext]_gateVars
    PROVE  [Next]_vars
<1> USE DEF GateTypeOK
<1>1. <<>> \in Seq(AppBlock) /\ <<>> \in Seq(Call)
  BY OneCall
<1>2. CASE User
  <2>1. CASE SignUp
    <3>1. <<SetCall([f \in RecordFields |-> ""], "signUp")>> \in Seq(Call)
      BY GateCalls, OneCall
    <3>2. MainTurn(<<SetCall([f \in RecordFields |-> ""], "signUp")>>, <<>>)
      BY <2>1 DEF SignUp
    <3> QED BY <1>1, <3>1, <3>2, TurnStep
  <2>2. CASE SignIn
    <3>1. <<ObserveCall(GateKind)>> \in Seq(Call)
      BY GateCalls, OneCall
    <3>2. MainTurn(<<ObserveCall(GateKind)>>, <<>>)
      BY <2>2 DEF SignIn
    <3> QED BY <1>1, <3>1, <3>2, TurnStep
  <2>3. CASE OpenProfile
    <3>1. opened + 1 \in Nat
      BY DEF AppTypeOK
    <3>2. <<ObserveCall(ProfileKind(opened + 1))>> \in Seq(Call)
      BY <3>1, GateCalls, OneCall
    <3>3. MainTurn(<<ObserveCall(ProfileKind(opened + 1))>>, <<>>)
      BY <2>3 DEF OpenProfile
    <3> QED BY <1>1, <3>2, <3>3, TurnStep
  <2>4. CASE OpenOther \/ \E f \in TextFields, v \in Value : Edit(f, v)
    BY <2>4 DEF OpenOther, Edit
  <2>5. CASE \E date \in Value \ {""} : Save(date)
    <3>1. PICK date \in Value \ {""} : Save(date)
      BY <2>5
    <3>2. \A f \in TextFields : text[f] \in Value
      BY DEF AppTypeOK
    <3>3. /\ SetField("userName", text["userName"]) \in Call
          /\ SetField("userSername", text["userSername"]) \in Call
          /\ SetField("userMobile", text["userMobile"]) \in Call
          /\ SetField("userBirthDate", date) \in Call
      BY <3>2, GateCalls DEF TextFields, RecordFields
    <3>4. PICK a \in Call, b \in Call, d \in Call, e \in Call :
             /\ a = SetField("userName", text["userName"])
             /\ b = SetField("userSername", text["userSername"])
             /\ d = SetField("userMobile", text["userMobile"])
             /\ e = SetField("userBirthDate", date)
      BY <3>3
    <3>5. <<a, b, b, d, e>> \in Seq(Call)
      BY FiveCalls
    <3>6. MainTurn(<<a, b, b, d, e>>, <<>>)
      BY <3>1, <3>4 DEF Save
    <3> QED BY <1>1, <3>5, <3>6, TurnStep
  <2>6. CASE \E list \in Value : SaveSources(list)
    <3>1. PICK list \in Value : SaveSources(list)
      BY <2>6
    <3>2. <<SetField("userSources", list)>> \in Seq(Call)
      BY GateCalls, OneCall DEF RecordFields
    <3>3. MainTurn(<<SetField("userSources", list)>>, <<>>)
      BY <3>1 DEF SaveSources
    <3> QED BY <1>1, <3>2, <3>3, TurnStep
  <2> QED BY <1>2, <2>1, <2>2, <2>3, <2>4, <2>5, <2>6 DEF User
<1>3. CASE Blocks
  <2>1. CASE SignUpAnswered
    <3>1. <<ObserveCall(GateKind)>> \in Seq(Call)
      BY GateCalls, OneCall
    <3>2. RunBlock(<<ObserveCall(GateKind)>>, <<>>) \/ RunBlock(<<>>, <<>>)
      BY <2>1 DEF SignUpAnswered
    <3> QED BY <1>1, <3>1, <3>2, TurnStep
  <2>2. CASE GateEvent
    <3>1. <<HopBlock(Head(main).snap)>> \in Seq(AppBlock)
      BY <2>2, HeadType, HopType DEF GateEvent
    <3>2. RunBlock(<<>>, <<HopBlock(Head(main).snap)>>)
      BY <2>2 DEF GateEvent
    <3> QED BY <1>1, <3>1, <3>2, TurnStep
  <2>3. CASE GateHop
    <3>1. opened + 1 \in Nat
      BY DEF AppTypeOK
    <3>2. <<ObserveCall(ProfileKind(opened + 1))>> \in Seq(Call)
      BY <3>1, GateCalls, OneCall
    <3>3. RunBlock(<<ObserveCall(ProfileKind(opened + 1))>>, <<>>) \/ RunBlock(<<>>, <<>>)
      BY <2>3 DEF GateHop
    <3> QED BY <1>1, <3>2, <3>3, TurnStep
  <2>4. CASE ProfileEvent
    <3>1. RunBlock(<<>>, <<>>)
      BY <2>4 DEF ProfileEvent
    <3> QED BY <1>1, <3>1, TurnStep
  <2> QED BY <1>3, <2>1, <2>2, <2>3, <2>4 DEF Blocks
<1>4. CASE CloseOther \/ Dismissed
  BY <1>4 DEF CloseOther, Dismissed
<1>5. CASE Backend \/ (\E rec \in Record : RemoteChange(rec)) \/ Reconnect \/ Restart
  BY <1>5 DEF Next
<1>6. CASE UNCHANGED gateVars
  BY <1>6 DEF gateVars
<1> QED BY <1>2, <1>3, <1>4, <1>5, <1>6 DEF GateNext

\* Every step keeps the types of the app's own state.
LEMMA AppType ==
    ASSUME GateTypeOK, [GateNext]_gateVars
    PROVE  AppTypeOK'
<1> USE DEF GateTypeOK
<1>n. NoText \in [TextFields -> Value]
  BY RecordAssumption DEF NoText
<1>1. CASE UNCHANGED appVars
  BY <1>1 DEF appVars, AppTypeOK
<1>2. CASE SignUp \/ SignIn \/ OpenOther \/ CloseOther \/ Dismissed
  BY <1>2 DEF SignUp, SignIn, OpenOther, CloseOther, Dismissed, AppTypeOK
<1>3. CASE OpenProfile
  BY <1>n, <1>3 DEF OpenProfile, Present, AppTypeOK
<1>4. CASE \E f \in TextFields, v \in Value : Edit(f, v)
  BY <1>4 DEF Edit, AppTypeOK
<1>5. CASE \E date \in Value \ {""} : Save(date)
  BY <1>5 DEF Save, AppTypeOK
<1>6. CASE \E list \in Value : SaveSources(list)
  BY <1>6 DEF SaveSources, appVars, AppTypeOK
<1>7. CASE SignUpAnswered
  BY <1>7 DEF SignUpAnswered, AppTypeOK
<1>8. CASE GateEvent
  BY <1>8 DEF GateEvent, appVars, AppTypeOK
<1>9. CASE GateHop
  <2>1. judged' \in Record
    BY <1>9, HeadType DEF GateHop
  <2>2. \/ /\ Present /\ UNCHANGED <<container, crashed>>
        \/ /\ crashed' \in BOOLEAN /\ UNCHANGED <<container, presented, opened, text>>
    BY <1>9 DEF GateHop
  <2> QED BY <1>n, <2>1, <2>2 DEF Present, AppTypeOK
<1>10. CASE ProfileEvent
  <2>1. Head(main).snap \in Record
    BY <1>10, HeadType DEF ProfileEvent
  <2>2. \A f \in TextFields : Head(main).snap[f] \in Value \cup {Absent}
    BY <2>1, RecordAssumption DEF Record, TextFields, RecordFields
  <2>3. [f \in TextFields |-> IF Head(main).snap[f] = Absent THEN "" ELSE Head(main).snap[f]]
           \in [TextFields -> Value]
    BY <2>2, RecordAssumption
  <2>4. text' \in [TextFields -> Value]
    BY <1>10, <2>3 DEF ProfileEvent, AppTypeOK
  <2> QED BY <1>10, <2>4 DEF ProfileEvent, AppTypeOK
<1>11. CASE AppGone
  BY <1>n, <1>11 DEF AppGone, AppTypeOK
<1> QED
  BY <1>1, <1>2, <1>3, <1>4, <1>5, <1>6, <1>7, <1>8, <1>9, <1>10, <1>11
     DEF GateNext, User, Blocks, gateVars

\* The state of the app and of the database is well formed in every behaviour.
THEOREM GateTypeCorrect ==
    ASSUME KindsAssumption
    PROVE  GateSpec => []GateTypeOK
<1>1. GateInit => GateTypeOK
  <2>1. NoText \in [TextFields -> Value]
    BY RecordAssumption DEF NoText
  <2>2. GateInit => Init
    BY DEF GateInit
  <2>3. GateInit => AppTypeOK
    <3> SUFFICES ASSUME GateInit PROVE AppTypeOK
      OBVIOUS
    <3>1. /\ container \in {"noAccount", "none"} /\ presented = "none" /\ opened = 0
          /\ text = NoText /\ judged = NoSnap /\ crashed = FALSE
      BY DEF GateInit
    <3>2. text \in [TextFields -> Value] /\ crashed \in BOOLEAN /\ opened \in Nat
      BY <2>1, <3>1
    <3> QED BY <3>1, <3>2 DEF AppTypeOK
  <2> QED BY <2>2, <2>3, InitType DEF GateTypeOK
<1>2. GateTypeOK /\ [GateNext]_gateVars => GateTypeOK'
  BY GateStep, NextType, AppType DEF GateTypeOK
<1> QED BY <1>1, <1>2, PTL DEF GateSpec

\* The refinement: the gate and the Profile screen keep to the protocol of
\* UserRecord, so what is proved of the database holds of the app.
THEOREM GateUsesRecord ==
    ASSUME KindsAssumption
    PROVE  GateSpec => Spec
<1>1. GateInit => Init
  BY DEF GateInit
<1>2. GateTypeOK /\ [GateNext]_gateVars => [Next]_vars
  BY GateStep
<1> QED BY <1>1, <1>2, GateTypeCorrect, PTL DEF GateSpec, Spec

-----------------------------------------------------------------------------
(* What the gate has judged.  Inductive once there is known to be at most one *)
(* observer of the gate, and that the last hop on the main queue, or else the *)
(* last judgement, is about the snapshot that observer was last given.        *)

IsGate(call) == call.op = "observe" /\ call.kind = GateKind

NoGateCall(w) == \A j \in DOMAIN w : ~IsGate(w[j])

NoGate(r) == \A i \in DOMAIN r : r[i] # GateKind

\* The container is opened once in the life of a process.
OneGate ==
    /\ \A i, j \in DOMAIN regs : regs[i] = GateKind /\ regs[j] = GateKind => i = j
    /\ \A i, j \in DOMAIN work : IsGate(work[i]) /\ IsGate(work[j]) => i = j
    /\ NoGate(regs) \/ NoGateCall(work)
    /\ container # "open" => NoGate(regs) /\ NoGateCall(work)

\* With m on the main queue, the last judgement is or will be about s.
Judges(m, a, s) == LastSays(m, "hop", s) /\ (Without(m, "hop") => a = s)

Judged ==
    /\ NoGate(regs) => Without(main, "hop") /\ judged = NoSnap
    /\ \A i \in DOMAIN regs : regs[i] = GateKind => Judges(main, judged, seen[i])

GateInv == OneGate /\ Judged

\* The calls of a turn that open no gate.
LEMMA QuietGate ==
    ASSUME TypeOK, OneGate, NEW c \in Seq(Call), NoGateCall(c),
           work' = work \o c, regs' = regs, container = "open" => container' = "open"
    PROVE  OneGate'
<1>1. /\ Len(work) \in Nat /\ DOMAIN work = 1..Len(work) /\ DOMAIN c = 1..Len(c)
      /\ work' \in Seq(Call) /\ DOMAIN work' = 1..Len(work) + Len(c) /\ Len(c) \in Nat
      /\ \A i \in 1..Len(work) + Len(c) :
            work'[i] = IF i <= Len(work) THEN work[i] ELSE c[i - Len(work)]
  <2>1. work' \in Seq(Call) /\ Len(work') = Len(work) + Len(c)
    BY ConcatProperties DEF TypeOK
  <2> QED BY <2>1, LenProperties, ConcatProperties DEF TypeOK
<1>2. ASSUME NEW i \in DOMAIN work', IsGate(work'[i])
      PROVE  i \in DOMAIN work /\ IsGate(work[i])
  <2>1. CASE i <= Len(work)
    BY <1>1, <1>2, <2>1
  <2>2. CASE ~(i <= Len(work))
    <3>1. i - Len(work) \in DOMAIN c
      BY <1>1, <2>2
    <3> QED BY <1>1, <1>2, <2>2, <3>1 DEF NoGateCall
  <2> QED BY <2>1, <2>2
<1>3. NoGateCall(work) => NoGateCall(work')
  BY <1>2 DEF NoGateCall
<1>4. \A i, j \in DOMAIN work' : IsGate(work'[i]) /\ IsGate(work'[j]) => i = j
  BY <1>2 DEF OneGate
<1> QED BY <1>3, <1>4 DEF OneGate

\* A block that is about to run opens the container, or the login screen does.
LEMMA OpensGate ==
    ASSUME TypeOK, OneGate, container # "open", container' = "open", regs' = regs,
           work' = work \o <<ObserveCall(GateKind)>>
    PROVE  OneGate'
<1>1. NoGate(regs) /\ NoGateCall(work)
  BY DEF OneGate
<1>2. ObserveCall(GateKind) \in Call
  BY RecordAssumption DEF ObserveCall, Call
<1>3. PICK b \in Call : b = ObserveCall(GateKind)
  BY <1>2
<1>4. work' = Append(work, b)
  BY <1>3 DEF TypeOK
<1>5. /\ Len(work) \in Nat /\ DOMAIN work = 1..Len(work) /\ DOMAIN work' = 1..Len(work) + 1
      /\ \A i \in 1..Len(work) : work'[i] = work[i]
  BY <1>4, AppendProperties, LenProperties DEF TypeOK
<1>6. \A i \in DOMAIN work' : IsGate(work'[i]) => i = Len(work) + 1
  BY <1>1, <1>5 DEF NoGateCall
<1>7. \A i, j \in DOMAIN work' : IsGate(work'[i]) /\ IsGate(work'[j]) => i = j
  BY <1>6
<1>8. \A i, j \in DOMAIN regs' : regs'[i] = GateKind /\ regs'[j] = GateKind => i = j
  BY DEF OneGate
<1> QED BY <1>1, <1>7, <1>8 DEF OneGate

\* The worker takes a call off its queue.
LEMMA TakesCall ==
    ASSUME TypeOK, OneGate, work # <<>>, work' = Tail(work), container' = container,
           \/ regs' = regs
           \/ Head(work).op = "observe" /\ regs' = Append(regs, Head(work).kind)
    PROVE  OneGate'
<1>1. /\ Len(work) \in Nat /\ Len(work) # 0 /\ DOMAIN work = 1..Len(work)
      /\ DOMAIN work' = 1..Len(work) - 1 /\ \A i \in 1..Len(work) - 1 : work'[i] = work[i + 1]
  <2>1. /\ Tail(work) \in Seq(Call) /\ Len(Tail(work)) = Len(work) - 1
        /\ \A i \in 1..Len(Tail(work)) : Tail(work)[i] = work[i + 1]
    BY HeadTailProperties DEF TypeOK
  <2> QED BY <2>1, LenProperties, EmptySeq DEF TypeOK
<1>2. Head(work) = work[1] /\ 1 \in DOMAIN work /\ Head(work) \in Call
  BY <1>1, HeadTailProperties DEF TypeOK
<1>3. \A i \in DOMAIN work' : i + 1 \in DOMAIN work /\ i + 1 # 1 /\ work'[i] = work[i + 1]
  BY <1>1
<1>4. ASSUME NEW i \in DOMAIN work', NEW j \in DOMAIN work', IsGate(work'[i]), IsGate(work'[j])
      PROVE  i = j
  <2>1. i + 1 = j + 1
    BY <1>3, <1>4 DEF OneGate
  <2> QED BY <1>1, <2>1
<1>5. NoGateCall(work) => NoGateCall(work')
  BY <1>3 DEF NoGateCall
<1>6. CASE regs' = regs
  BY <1>4, <1>5, <1>6 DEF OneGate
<1>7. CASE Head(work).op = "observe" /\ regs' = Append(regs, Head(work).kind)
  <2>1. Head(work).kind \in Kind
    BY <1>2, <1>7 DEF Call
  <2>2. /\ Len(regs) \in Nat /\ DOMAIN regs = 1..Len(regs) /\ DOMAIN regs' = 1..Len(regs) + 1
        /\ \A i \in 1..Len(regs) : regs'[i] = regs[i]
        /\ regs'[Len(regs) + 1] = Head(work).kind
    BY <1>7, <2>1, AppendProperties, LenProperties DEF TypeOK
  <2>3. CASE Head(work).kind = GateKind
    <3>1. IsGate(work[1])
      BY <1>2, <1>7, <2>3 DEF IsGate
    <3>2. NoGate(regs) /\ container = "open"
      BY <1>2, <3>1 DEF OneGate, NoGateCall
    <3>3. NoGateCall(work')
      <4> SUFFICES ASSUME NEW i \in DOMAIN work', IsGate(work'[i]) PROVE FALSE
        BY DEF NoGateCall
      <4>1. i + 1 = 1
        BY <1>2, <1>3, <3>1 DEF OneGate
      <4> QED BY <1>3, <4>1
    <3>4. \A i \in DOMAIN regs' : regs'[i] = GateKind => i = Len(regs) + 1
      BY <2>2, <3>2 DEF NoGate
    <3>5. \A i, j \in DOMAIN regs' : regs'[i] = GateKind /\ regs'[j] = GateKind => i = j
      BY <3>4
    <3> QED BY <1>4, <3>2, <3>3, <3>5 DEF OneGate
  <2>4. CASE Head(work).kind # GateKind
    <3>1. \A i \in DOMAIN regs' : regs'[i] = GateKind => i \in DOMAIN regs /\ regs[i] = GateKind
      BY <2>2, <2>4
    <3>2. NoGate(regs) => NoGate(regs')
      BY <3>1 DEF NoGate
    <3>3. \A i, j \in DOMAIN regs' : regs'[i] = GateKind /\ regs'[j] = GateKind => i = j
      BY <3>1 DEF OneGate
    <3> QED BY <1>4, <1>5, <3>2, <3>3 DEF OneGate
  <2> QED BY <2>3, <2>4
<1> QED BY <1>6, <1>7

\* Blocks that are no hops, queued without a call to the gate.
LEMMA QuietJudged ==
    ASSUME TypeOK, Judged, NEW t \in Seq(Block), Without(t, "hop"), main' = main \o t,
           UNCHANGED <<regs, seen, judged>>
    PROVE  Judged'
<1>1. /\ Without(main', "hop") <=> Without(main, "hop")
      /\ \A v : LastSays(main, "hop", v) => LastSays(main', "hop", v)
  <2>1. /\ Without(main \o t, "hop") <=> Without(main, "hop")
        /\ \A v : LastSays(main, "hop", v) => LastSays(main \o t, "hop", v)
    BY AppendOthers DEF TypeOK
  <2> QED BY <2>1
<1>2. ASSUME NEW i \in DOMAIN regs, regs[i] = GateKind
      PROVE  Judges(main', judged, seen[i])
  BY <1>1, <1>2 DEF Judged, Judges
<1> QED BY <1>1, <1>2 DEF Judged

\* What the database queues on the main queue are no hops.
LEMMA EventsQuiet ==
    ASSUME TypeOK, View' \in Record
    PROVE  /\ ValueEvents \in Seq(Block) /\ Without(ValueEvents, "hop")
           /\ \A w \in Write, ok \in BOOLEAN :
                 Completion(w, ok) \in Seq(Block) /\ Without(Completion(w, ok), "hop")
<1>1. ValueEvents \in Seq(Block)
  BY EventsType DEF TypeOK
<1>2. Without(ValueEvents, "hop")
  <2>1. CASE Ready' /\ (~Ready \/ View' # View)
    <3>1. ValueEvents = [i \in 1..Len(regs) |-> ValueBlock(i, View')]
      BY <2>1 DEF ValueEvents
    <3> QED BY <3>1 DEF Without, ValueBlock
  <2>2. CASE ~(Ready' /\ (~Ready \/ View' # View))
    <3>1. ValueEvents = <<>>
      BY <2>2 DEF ValueEvents
    <3> QED BY <3>1, EmptySeq DEF Without
  <2> QED BY <2>1, <2>2
<1>3. ASSUME NEW w \in Write, NEW ok \in BOOLEAN
      PROVE  Completion(w, ok) \in Seq(Block) /\ Without(Completion(w, ok), "hop")
  <2>1. Completion(w, ok) \in Seq(Block)
    BY CompletionType
  <2>2. Without(Completion(w, ok), "hop")
    BY DEF Without, Completion, DoneBlock
  <2> QED BY <2>1, <2>2
<1> QED BY <1>1, <1>2, <1>3

\* A snapshot for the gate becomes the last hop; it is the one its observer has.
LEMMA EventJudged ==
    ASSUME TypeOK, Addressed, OneGate, Judged, GateEvent
    PROVE  Judged'
<1>1. PICK to, snap : to = Head(main).to /\ snap = Head(main).snap
  OBVIOUS
<1>2. /\ main # <<>> /\ Head(main).op = "value" /\ regs[to] = GateKind
      /\ main' = Tail(main) \o <<HopBlock(snap)>> /\ seen' = [seen EXCEPT ![to] = snap]
      /\ regs' = regs
  BY <1>1 DEF GateEvent, RunBlock
<1>3. Head(main) = main[1] /\ 1 \in DOMAIN main
  BY <1>2, EmptySeq, LenProperties DEF TypeOK
<1>4. to \in DOMAIN regs /\ DOMAIN seen = DOMAIN regs
  <2>1. to \in 1..Len(regs)
    BY <1>1, <1>2, <1>3 DEF Addressed
  <2> QED BY <2>1, LenProperties DEF TypeOK
<1>5. HopBlock(snap) \in Block /\ HopBlock(snap).op = "hop" /\ HopBlock(snap).snap = snap
  <2>1. snap \in Record
    BY <1>1, <1>2, HeadType
  <2> QED BY <2>1, RecordAssumption DEF HopBlock, Block
<1>6. PICK b \in Block : b = HopBlock(snap) /\ b.op = "hop" /\ b.snap = snap
  BY <1>5
<1>7. Tail(main) \in Seq(Block)
  BY <1>2, HeadTailProperties DEF TypeOK
<1>8. <<b>> \in Seq(Block) /\ <<b>> # <<>>
      /\ \A i \in DOMAIN <<b>> : <<b>>[i].op = "hop" /\ <<b>>[i].snap = snap
  BY <1>6
<1>9. ~Without(main', "hop") /\ LastSays(main', "hop", snap)
  <2>1. main' = Tail(main) \o <<b>>
    BY <1>2, <1>6
  <2> QED BY <1>7, <1>8, <2>1, AppendSaying
<1>10. ~NoGate(regs')
  BY <1>2, <1>4 DEF NoGate
<1>11. ASSUME NEW i \in DOMAIN regs, regs[i] = GateKind
       PROVE  Judges(main', judged', seen'[i])
  <2>1. i = to
    BY <1>2, <1>4, <1>11 DEF OneGate
  <2>2. seen'[i] = snap
    BY <1>2, <1>4, <2>1
  <2> QED BY <1>9, <2>2 DEF Judges
<1> QED BY <1>2, <1>10, <1>11 DEF Judged

\* A hop that runs is judged; if it was the last, nothing newer is known.
LEMMA HopJudged ==
    ASSUME TypeOK, Judged, GateHop
    PROVE  Judged'
<1>1. /\ main # <<>> /\ Head(main).op = "hop" /\ judged' = Head(main).snap
      /\ main' = Tail(main) \o <<>> /\ UNCHANGED <<regs, seen>>
  BY DEF GateHop, RunBlock
<1>2. main \in Seq(Block) /\ main' = Tail(main)
  BY <1>1, HeadTailProperties, ConcatEmptySeq DEF TypeOK
<1>3. /\ ~Without(main, "hop")
      /\ \A v : LastSays(main, "hop", v) =>
                 /\ LastSays(main', "hop", v)
                 /\ Without(main', "hop") => judged' = v
  <2>1. /\ Without(main, "hop") <=> Without(Tail(main), "hop") /\ Head(main).op # "hop"
        /\ \A v : LastSays(main, "hop", v) => LastSays(Tail(main), "hop", v)
        /\ \A v : LastSays(main, "hop", v) /\ Without(Tail(main), "hop")
                     /\ Head(main).op = "hop" => Head(main).snap = v
    BY <1>1, <1>2, TailSays
  <2> QED BY <1>1, <1>2, <2>1
<1>4. ASSUME NEW i \in DOMAIN regs, regs[i] = GateKind
      PROVE  Judges(main', judged', seen[i])
  <2>1. LastSays(main, "hop", seen[i])
    BY <1>4 DEF Judged, Judges
  <2>2. LastSays(main', "hop", seen[i]) /\ (Without(main', "hop") => judged' = seen[i])
    BY <1>3, <2>1
  <2> QED BY <2>2 DEF Judges
<1> QED BY <1>1, <1>3, <1>4 DEF Judged

\* The other blocks leave what the gate's observer was given alone.
LEMMA OtherJudged ==
    ASSUME TypeOK, Addressed, OneGate, Judged, SignUpAnswered \/ ProfileEvent
    PROVE  Judged'
<1>1. /\ main # <<>> /\ Head(main).op # "hop" /\ main' = Tail(main) \o <<>>
      /\ UNCHANGED <<regs, judged>>
  BY DEF SignUpAnswered, ProfileEvent, RunBlock
<1>2. main \in Seq(Block) /\ main' = Tail(main)
  BY <1>1, HeadTailProperties, ConcatEmptySeq DEF TypeOK
<1>3. /\ Without(main', "hop") <=> Without(main, "hop")
      /\ \A v : LastSays(main, "hop", v) => LastSays(main', "hop", v)
  <2>1. /\ Without(main, "hop") <=> Without(Tail(main), "hop") /\ Head(main).op # "hop"
        /\ \A v : LastSays(main, "hop", v) => LastSays(Tail(main), "hop", v)
    BY <1>1, <1>2, TailSays
  <2> QED BY <1>1, <1>2, <2>1
<1>4. ASSUME NEW i \in DOMAIN regs, regs[i] = GateKind
      PROVE  seen'[i] = seen[i]
  <2>1. CASE SignUpAnswered
    BY <2>1 DEF SignUpAnswered, RunBlock
  <2>2. CASE ProfileEvent
    <3>1. /\ Head(main).op = "value" /\ Head(main).to # i
          /\ seen' = [seen EXCEPT ![Head(main).to] = Head(main).snap]
      BY <1>4, <2>2 DEF ProfileEvent, RunBlock
    <3>2. i \in DOMAIN seen
      BY LenProperties DEF TypeOK
    <3> QED BY <3>1, <3>2
  <2> QED BY <2>1, <2>2
<1>5. ASSUME NEW i \in DOMAIN regs, regs[i] = GateKind
      PROVE  Judges(main', judged, seen'[i])
  <2>1. LastSays(main, "hop", seen[i]) /\ (Without(main, "hop") => judged = seen[i])
    BY <1>5 DEF Judged, Judges
  <2>2. LastSays(main', "hop", seen[i])
    BY <1>3, <2>1
  <2> QED BY <1>3, <1>4, <1>5, <2>1, <2>2 DEF Judges
<1> QED BY <1>1, <1>3, <1>5 DEF Judged

\* The gate's observer starts with nothing seen and nothing judged.
LEMMA ObserveJudged ==
    ASSUME TypeOK, OneGate, Judged, WorkerObserve, judged' = judged
    PROVE  Judged'
<1>1. /\ work # <<>> /\ Head(work).op = "observe"
      /\ regs' = Append(regs, Head(work).kind) /\ seen' = Append(seen, NoSnap)
      /\ main' = IF Ready THEN Append(main, ValueBlock(Len(regs'), View)) ELSE main
  BY DEF WorkerObserve
<1>2. Head(work) \in Call /\ Head(work) = work[1] /\ 1 \in DOMAIN work
  BY <1>1, HeadTailProperties, EmptySeq, LenProperties DEF TypeOK
<1>3. Head(work).kind \in Kind
  BY <1>1, <1>2 DEF Call
<1>4. /\ Len(regs) \in Nat /\ DOMAIN regs = 1..Len(regs) /\ DOMAIN regs' = 1..Len(regs) + 1
      /\ \A i \in 1..Len(regs) : regs'[i] = regs[i]
      /\ regs'[Len(regs) + 1] = Head(work).kind /\ Len(regs') \in Nat
  BY <1>1, <1>3, AppendProperties, LenProperties DEF TypeOK
<1>5. /\ \A i \in 1..Len(regs) : seen'[i] = seen[i]
      /\ seen'[Len(regs) + 1] = NoSnap
  BY <1>1, AppendProperties, LenProperties DEF TypeOK
<1>6. PICK t \in Seq(Block) : main' = main \o t /\ Without(t, "hop")
  <2>1. CASE Ready
    <3>1. ValueBlock(Len(regs'), View) \in Block /\ ValueBlock(Len(regs'), View).op = "value"
      BY <1>4, ViewType DEF ValueBlock, Block
    <3>2. PICK b \in Block : b = ValueBlock(Len(regs'), View) /\ b.op = "value"
      BY <3>1
    <3>3. main' = main \o <<b>>
      <4>1. main' = Append(main, b) /\ main \in Seq(Block)
        BY <1>1, <2>1, <3>2 DEF TypeOK
      <4> QED BY <4>1
    <3>4. <<b>> \in Seq(Block) /\ Without(<<b>>, "hop")
      BY <3>2 DEF Without
    <3> QED BY <3>3, <3>4
  <2>2. CASE ~Ready
    <3>1. main' = main \o <<>>
      BY <1>1, <2>2, ConcatEmptySeq DEF TypeOK
    <3>2. <<>> \in Seq(Block) /\ Without(<<>>, "hop")
      BY EmptySeq DEF Without
    <3> QED BY <3>1, <3>2
  <2> QED BY <2>1, <2>2
<1>7. main \in Seq(Block)
  BY DEF TypeOK
<1>8. /\ Without(main', "hop") <=> Without(main, "hop")
      /\ \A v : LastSays(main, "hop", v) => LastSays(main', "hop", v)
  BY <1>6, <1>7, AppendOthers
<1>9. NoGate(regs') => NoGate(regs)
  BY <1>4 DEF NoGate
<1>10. ASSUME NEW i \in DOMAIN regs', regs'[i] = GateKind
       PROVE  Judges(main', judged, seen'[i])
  <2>1. CASE i \in 1..Len(regs)
    <3>1. regs[i] = GateKind /\ i \in DOMAIN regs /\ seen'[i] = seen[i]
      BY <1>4, <1>5, <1>10, <2>1
    <3> QED BY <1>8, <3>1 DEF Judged, Judges
  <2>2. CASE i = Len(regs) + 1
    <3>1. IsGate(work[1])
      BY <1>1, <1>2, <1>4, <1>10, <2>2 DEF IsGate
    <3>2. NoGate(regs)
      BY <1>2, <3>1 DEF OneGate, NoGateCall
    <3>3. Without(main, "hop") /\ judged = NoSnap /\ seen'[i] = NoSnap
      BY <1>5, <2>2, <3>2 DEF Judged
    <3>4. LastSays(main', "hop", NoSnap)
      BY <1>8, <3>3 DEF LastSays, LastOf, Without
    <3> QED BY <3>3, <3>4 DEF Judges
  <2> QED BY <1>4, <2>1, <2>2
<1> QED BY <1>8, <1>9, <1>10 DEF Judged

\* No call of a save, nor of a Profile screen, is one of the gate.
LEMMA QuietCalls ==
    /\ NoGateCall(<<>>)
    /\ \A c : ~IsGate(c) => NoGateCall(<<c>>)
    /\ \A n : ~IsGate(ObserveCall(ProfileKind(n)))
    /\ \A data, tag : ~IsGate(SetCall(data, tag))
    /\ \A f, v : ~IsGate(SetField(f, v))
<1>1. NoGateCall(<<>>)
  BY EmptySeq DEF NoGateCall
<1>2. \A c : ~IsGate(c) => NoGateCall(<<c>>)
  BY DEF NoGateCall
<1>3. \A n : ~IsGate(ObserveCall(ProfileKind(n)))
  BY DEF IsGate, ObserveCall, ProfileKind, GateKind
<1>4. \A data, tag : ~IsGate(SetCall(data, tag))
  BY DEF IsGate, SetCall
<1>5. \A f, v : ~IsGate(SetField(f, v))
  BY <1>4 DEF SetField
<1> QED BY <1>1, <1>2, <1>3, <1>4, <1>5

\* Nor is a queue of five such calls.
LEMMA QuietSave ==
    ASSUME NEW a, NEW b, NEW c, NEW d, NEW e,
           ~IsGate(a), ~IsGate(b), ~IsGate(c), ~IsGate(d), ~IsGate(e)
    PROVE  NoGateCall(<<a, b, c, d, e>>)
<1>1. DOMAIN <<a, b, c, d, e>> = {1, 2, 3, 4, 5}
  OBVIOUS
<1> QED BY <1>1 DEF NoGateCall

\* A turn of the main thread that has nothing to do with the gate.
LEMMA QuietTurn ==
    ASSUME TypeOK, GateInv, NEW c \in Seq(Call), NoGateCall(c), MainTurn(c, <<>>),
           container = "open" => container' = "open", judged' = judged
    PROVE  GateInv'
<1>1. /\ work' = work \o c /\ main' = main \o <<>> /\ UNCHANGED <<regs, seen>>
  BY DEF MainTurn
<1>2. <<>> \in Seq(Block) /\ Without(<<>>, "hop")
  BY EmptySeq DEF Without
<1>3. OneGate'
  BY <1>1, QuietGate DEF GateInv
<1>4. Judged'
  BY <1>1, <1>2, QuietJudged DEF GateInv
<1> QED BY <1>3, <1>4 DEF GateInv

\* The user's actions.
LEMMA UserKeeps ==
    ASSUME KindsAssumption, GateTypeOK, GateInv, User
    PROVE  GateInv'
<1> USE DEF GateTypeOK
<1>1. CASE SignUp
  <2>1. <<SetCall([f \in RecordFields |-> ""], "signUp")>> \in Seq(Call)
    BY GateCalls, OneCall
  <2>2. NoGateCall(<<SetCall([f \in RecordFields |-> ""], "signUp")>>)
    BY QuietCalls
  <2>3. MainTurn(<<SetCall([f \in RecordFields |-> ""], "signUp")>>, <<>>)
        /\ container # "open" /\ judged' = judged
    BY <1>1 DEF SignUp
  <2> QED BY <2>1, <2>2, <2>3, QuietTurn
<1>2. CASE SignIn
  <2>1. /\ container # "open" /\ container' = "open" /\ regs' = regs
        /\ work' = work \o <<ObserveCall(GateKind)>>
    BY <1>2 DEF SignIn, MainTurn
  <2>2. OneGate'
    BY <2>1, OpensGate DEF GateInv
  <2>3. main' = main \o <<>> /\ UNCHANGED <<regs, seen, judged>>
    BY <1>2 DEF SignIn, MainTurn
  <2>4. <<>> \in Seq(Block) /\ Without(<<>>, "hop")
    BY EmptySeq DEF Without
  <2>5. Judged'
    BY <2>3, <2>4, QuietJudged DEF GateInv
  <2> QED BY <2>2, <2>5 DEF GateInv
<1>3. CASE OpenProfile
  <2>1. opened + 1 \in Nat
    BY DEF AppTypeOK
  <2>2. <<ObserveCall(ProfileKind(opened + 1))>> \in Seq(Call)
    BY <2>1, GateCalls, OneCall
  <2>3. NoGateCall(<<ObserveCall(ProfileKind(opened + 1))>>)
    BY QuietCalls
  <2>4. MainTurn(<<ObserveCall(ProfileKind(opened + 1))>>, <<>>)
        /\ container' = container /\ judged' = judged
    BY <1>3 DEF OpenProfile
  <2> QED BY <2>2, <2>3, <2>4, QuietTurn
<1>4. CASE OpenOther \/ \E f \in TextFields, v \in Value : Edit(f, v)
  <2>1. UNCHANGED <<vars, container, judged>>
    BY <1>4 DEF OpenOther, Edit
  <2> QED BY <2>1 DEF vars, GateInv, OneGate, Judged
<1>5. CASE \E date \in Value \ {""} : Save(date)
  <2>1. PICK date \in Value \ {""} : Save(date)
    BY <1>5
  <2>2. \A f \in TextFields : text[f] \in Value
    BY DEF AppTypeOK
  <2>3. /\ SetField("userName", text["userName"]) \in Call
        /\ SetField("userSername", text["userSername"]) \in Call
        /\ SetField("userMobile", text["userMobile"]) \in Call
        /\ SetField("userBirthDate", date) \in Call
    BY <2>2, GateCalls DEF TextFields, RecordFields
  <2>4. PICK a \in Call, b \in Call, d \in Call, e \in Call :
           /\ a = SetField("userName", text["userName"])
           /\ b = SetField("userSername", text["userSername"])
           /\ d = SetField("userMobile", text["userMobile"])
           /\ e = SetField("userBirthDate", date)
    BY <2>3
  <2>5. ~IsGate(a) /\ ~IsGate(b) /\ ~IsGate(d) /\ ~IsGate(e)
    BY <2>4, QuietCalls
  <2>6. <<a, b, b, d, e>> \in Seq(Call) /\ NoGateCall(<<a, b, b, d, e>>)
    BY <2>5, FiveCalls, QuietSave
  <2>7. MainTurn(<<a, b, b, d, e>>, <<>>) /\ container' = container /\ judged' = judged
    BY <2>1, <2>4 DEF Save
  <2> QED BY <2>6, <2>7, QuietTurn
<1>6. CASE \E list \in Value : SaveSources(list)
  <2>1. PICK list \in Value : SaveSources(list)
    BY <1>6
  <2>2. <<SetField("userSources", list)>> \in Seq(Call)
    BY GateCalls, OneCall DEF RecordFields
  <2>3. NoGateCall(<<SetField("userSources", list)>>)
    BY QuietCalls
  <2>4. MainTurn(<<SetField("userSources", list)>>, <<>>)
        /\ container' = container /\ judged' = judged
    BY <2>1 DEF SaveSources, appVars
  <2> QED BY <2>2, <2>3, <2>4, QuietTurn
<1> QED BY <1>1, <1>2, <1>3, <1>4, <1>5, <1>6 DEF User

\* The blocks of the main queue.
LEMMA BlocksKeep ==
    ASSUME KindsAssumption, GateTypeOK, Addressed, GateInv, Blocks
    PROVE  GateInv'
<1> USE DEF GateTypeOK
<1>q. NoGateCall(<<>>) /\ <<>> \in Seq(Call)
  BY QuietCalls, OneCall
<1>1. CASE SignUpAnswered
  <2>1. Judged'
    BY <1>1, OtherJudged DEF GateInv
  <2>2. CASE Head(main).ok
    <3>1. /\ container # "open" /\ container' = "open" /\ regs' = regs
          /\ work' = work \o <<ObserveCall(GateKind)>>
      BY <1>1, <2>2 DEF SignUpAnswered, RunBlock
    <3> QED BY <2>1, <3>1, OpensGate DEF GateInv
  <2>3. CASE ~Head(main).ok
    <3>1. /\ container # "open" /\ regs' = regs /\ work' = work \o <<>>
      BY <1>1, <2>3 DEF SignUpAnswered, RunBlock
    <3>2. OneGate'
      BY <1>q, <3>1, QuietGate DEF GateInv
    <3> QED BY <2>1, <3>2 DEF GateInv
  <2> QED BY <2>2, <2>3
<1>2. CASE GateEvent
  <2>1. Judged'
    BY <1>2, EventJudged DEF GateInv
  <2>2. work' = work \o <<>> /\ regs' = regs /\ container' = container
    BY <1>2 DEF GateEvent, RunBlock, appVars
  <2>3. OneGate'
    BY <1>q, <2>2, QuietGate DEF GateInv
  <2> QED BY <2>1, <2>3 DEF GateInv
<1>3. CASE GateHop
  <2>1. Judged'
    BY <1>3, HopJudged DEF GateInv
  <2>2. PICK c \in Seq(Call) :
           NoGateCall(c) /\ work' = work \o c /\ regs' = regs /\ container' = container
    <3>1. opened + 1 \in Nat
      BY DEF AppTypeOK
    <3>2. <<ObserveCall(ProfileKind(opened + 1))>> \in Seq(Call)
      BY <3>1, GateCalls, OneCall
    <3>3. NoGateCall(<<ObserveCall(ProfileKind(opened + 1))>>)
      BY QuietCalls
    <3>4. RunBlock(<<ObserveCall(ProfileKind(opened + 1))>>, <<>>) \/ RunBlock(<<>>, <<>>)
      BY <1>3 DEF GateHop
    <3>5. \/ work' = work \o <<ObserveCall(ProfileKind(opened + 1))>>
          \/ work' = work \o <<>>
      BY <3>4 DEF RunBlock
    <3>6. regs' = regs /\ container' = container
      BY <1>3 DEF GateHop, RunBlock
    <3> QED BY <1>q, <3>2, <3>3, <3>5, <3>6
  <2>3. OneGate'
    BY <2>2, QuietGate DEF GateInv
  <2> QED BY <2>1, <2>3 DEF GateInv
<1>4. CASE ProfileEvent
  <2>1. Judged'
    BY <1>4, OtherJudged DEF GateInv
  <2>2. work' = work \o <<>> /\ regs' = regs /\ container' = container
    BY <1>4 DEF ProfileEvent, RunBlock
  <2>3. OneGate'
    BY <1>q, <2>2, QuietGate DEF GateInv
  <2> QED BY <2>1, <2>3 DEF GateInv
<1> QED BY <1>1, <1>2, <1>3, <1>4 DEF Blocks

\* The database's own steps.
LEMMA BackendKeeps ==
    ASSUME TypeOK, TypeOK', GateInv, UNCHANGED appVars,
           Backend \/ \E rec \in Record : RemoteChange(rec)
    PROVE  GateInv'
<1>1. View' \in Record
  BY OverlayType DEF View, TypeOK
<1>2. container' = container /\ judged' = judged
  BY DEF appVars
<1>3. CASE WorkerObserve
  <2>1. /\ work # <<>> /\ work' = Tail(work) /\ Head(work).op = "observe"
        /\ regs' = Append(regs, Head(work).kind)
    BY <1>3 DEF WorkerObserve
  <2>2. OneGate'
    BY <1>2, <2>1, TakesCall DEF GateInv
  <2>3. Judged'
    BY <1>2, <1>3, ObserveJudged DEF GateInv
  <2> QED BY <2>2, <2>3 DEF GateInv
<1>4. CASE WorkerSet \/ Load \/ ServerApply \/ Answer \/ \E rec \in Record : RemoteChange(rec)
  <2>1. regs' = regs /\ seen' = seen
    BY <1>4 DEF WorkerSet, Load, ServerApply, Answer, Ack, Reject, RemoteChange
  <2>2. OneGate'
    <3>1. CASE WorkerSet
      <4>1. work # <<>> /\ work' = Tail(work)
        BY <3>1 DEF WorkerSet
      <4> QED BY <1>2, <2>1, <4>1, TakesCall DEF GateInv
    <3>2. CASE work' = work
      BY <1>2, <2>1, <3>2 DEF GateInv, OneGate
    <3> QED BY <1>4, <3>1, <3>2 DEF Load, ServerApply, Answer, Ack, Reject, RemoteChange
  <2>3. PICK t \in Seq(Block) : Without(t, "hop") /\ main' = main \o t
    <3>1. CASE main' = main \o ValueEvents
      BY <1>1, <3>1, EventsQuiet
    <3>2. CASE Answer
      <4>1. PICK ok \in BOOLEAN :
              main' = main \o ValueEvents \o Completion(Head(pending), ok)
        BY <3>2 DEF Answer, Ack, Reject
      <4>2. Head(pending) \in Write
        BY <3>2, HeadTailProperties DEF Answer, Ack, Reject, Answerable, TypeOK
      <4>3. PICK e \in Seq(Block), d \in Seq(Block) :
              /\ e = ValueEvents /\ d = Completion(Head(pending), ok)
              /\ Without(e, "hop") /\ Without(d, "hop")
        BY <1>1, <4>2, EventsQuiet
      <4>4. main' = main \o (e \o d)
        <5>1. main \in Seq(Block) /\ main' = (main \o e) \o d
          BY <4>1, <4>3 DEF TypeOK
        <5> QED BY <5>1, ConcatAssociative
      <4>5. e \o d \in Seq(Block) /\ Without(e \o d, "hop")
        BY <4>3, ConcatProperties, AppendOthers
      <4> QED BY <4>4, <4>5
    <3> QED BY <1>4, <3>1, <3>2 DEF WorkerSet, Load, ServerApply, RemoteChange
  <2>4. Judged'
    BY <1>2, <2>1, <2>3, QuietJudged DEF GateInv
  <2> QED BY <2>2, <2>4 DEF GateInv
<1> QED BY <1>3, <1>4 DEF Backend

\* Every step keeps what the gate judges that of its observer.
LEMMA GateKeeps ==
    ASSUME KindsAssumption, GateTypeOK, TypeOK', Addressed, GateInv, [GateNext]_gateVars
    PROVE  GateInv'
<1> USE DEF GateTypeOK
<1>1. CASE User
  BY <1>1, UserKeeps
<1>2. CASE Blocks
  BY <1>2, BlocksKeep
<1>3. CASE (Backend \/ \E rec \in Record : RemoteChange(rec)) /\ UNCHANGED appVars
  BY <1>3, BackendKeeps
<1>4. CASE CloseOther \/ Dismissed \/ (Reconnect /\ UNCHANGED appVars) \/ UNCHANGED gateVars
  <2>1. UNCHANGED <<regs, work, main, seen, container, judged>>
    BY <1>4 DEF CloseOther, Dismissed, Reconnect, gateVars, appVars, vars
  <2> QED BY <2>1 DEF GateInv, OneGate, Judged
<1>5. CASE Restart /\ AppGone
  <2>1. regs' = <<>> /\ work' = <<>> /\ main' = <<>> /\ judged' = NoSnap
    BY <1>5 DEF Restart, AppGone
  <2>2. DOMAIN regs' = {} /\ DOMAIN work' = {} /\ DOMAIN main' = {}
    BY <2>1, EmptySeq
  <2> QED BY <2>1, <2>2 DEF GateInv, OneGate, Judged, NoGate, NoGateCall, Without
<1> QED BY <1>1, <1>2, <1>3, <1>4, <1>5 DEF GateNext

\* What the gate judges is the client's view once nothing is on its way to it:
\* the extra turn of the main queue loses and reorders nothing
\* (ContainerViewController, OnlineRepository.isUserProfileEmpty).
THEOREM GateCurrentCorrect ==
    ASSUME KindsAssumption
    PROVE  GateSpec => []GateCurrent
<1>1. GateInit => GateInv
  <2>1. GateInit => DOMAIN regs = {} /\ DOMAIN work = {} /\ DOMAIN main = {} /\ judged = NoSnap
    BY EmptySeq DEF GateInit, Init
  <2> QED BY <2>1 DEF GateInv, OneGate, Judged, NoGate, NoGateCall, Without
<1>2. GateTypeOK /\ GateTypeOK' /\ DeliveryInv /\ GateInv /\ [GateNext]_gateVars => GateInv'
  BY GateKeeps DEF GateTypeOK, DeliveryInv
<1>3. DeliveryInv /\ GateInv => GateCurrent
  <2> SUFFICES ASSUME DeliveryInv, GateInv, NEW i \in DOMAIN regs, regs[i] = GateKind, Ready,
                      \A j \in DOMAIN main : ~IsValueTo(j, i) /\ main[j].op # "hop"
               PROVE  judged = View
    BY DEF GateCurrent
  <2>1. Current(i)
    BY DEF DeliveryInv, Delivery
  <2>2. seen[i] = View
    BY <2>1 DEF Current, IsValueTo, ValueBlock
  <2>3. Without(main, "hop")
    BY DEF Without
  <2> QED BY <2>2, <2>3 DEF GateInv, Judged, Judges
<1>4. GateSpec => []DeliveryInv
  BY GateUsesRecord, DeliveryInductive, PTL
<1> QED BY <1>1, <1>2, <1>3, <1>4, GateTypeCorrect, PTL DEF GateSpec

-----------------------------------------------------------------------------
(* The forced casts.  Inductive once it is known of the server's record, and  *)
(* of every snapshot on its way, that no field the gate reads is missing: the *)
(* app only ever writes strings.                                              *)

Complete(rec) == \A f \in GateFields : rec[f] # Absent

SnapsComplete(m) == \A k \in DOMAIN m : m[k].op \in {"value", "hop"} => Complete(m[k].snap)

CastInv == hadRecord => Complete(server) /\ SnapsComplete(main) /\ ~crashed

\* A complete record under writes of the app is complete.
LEMMA OverlayComplete ==
    ASSUME NEW rec \in Record, NEW ws \in Seq(Write), Complete(rec)
    PROVE  Complete(Overlay(rec, ws))
<1> SUFFICES ASSUME NEW f \in GateFields
             PROVE  Overlay(rec, ws)[f] # Absent
  BY DEF Complete
<1>f. f \in Field
  BY RecordAssumption DEF GateFields
<1>1. CASE \E k \in DOMAIN ws : LastWrite(ws, f, k)
  <2> DEFINE k == CHOOSE k \in DOMAIN ws : LastWrite(ws, f, k)
  <2>1. k \in DOMAIN ws /\ LastWrite(ws, f, k)
    BY <1>1
  <2>2. Overlay(rec, ws)[f] = ws[k].data[f]
    BY <1>f, <1>1 DEF Overlay
  <2> HIDE DEF k
  <2>3. ws[k] \in Write
    BY <2>1, LenProperties, ElementOfSeq
  <2>4. ws[k].data \in Data /\ f \in DOMAIN ws[k].data
    BY <2>1, <2>3 DEF LastWrite, Write
  <2>5. PICK d \in Data : d = ws[k].data /\ f \in DOMAIN d
    BY <2>4
  <2>6. CASE d \in [Field -> Value]
    <3>1. d[f] \in Value
      BY <1>f, <2>6
    <3> QED BY <2>2, <2>5, <3>1, RecordAssumption
  <2>7. CASE d \in UNION {[{g} -> Value] : g \in Field}
    <3>1. PICK g \in Field : d \in [{g} -> Value]
      BY <2>7
    <3>2. d[f] \in Value
      BY <2>5, <3>1
    <3> QED BY <2>2, <2>5, <3>2, RecordAssumption
  <2> QED BY <2>6, <2>7 DEF Data
<1>2. CASE ~ \E k \in DOMAIN ws : LastWrite(ws, f, k)
  BY <1>f, <1>2 DEF Overlay, Complete
<1> QED BY <1>1, <1>2

\* Queues of complete snapshots.
LEMMA AppendComplete ==
    ASSUME NEW m \in Seq(Block), NEW t \in Seq(Block), SnapsComplete(m), SnapsComplete(t)
    PROVE  SnapsComplete(m \o t)
<1>1. /\ Len(m) \in Nat /\ Len(t) \in Nat /\ DOMAIN m = 1..Len(m) /\ DOMAIN t = 1..Len(t)
      /\ DOMAIN (m \o t) = 1..Len(m) + Len(t)
      /\ \A i \in 1..Len(m) + Len(t) :
            (m \o t)[i] = IF i <= Len(m) THEN m[i] ELSE t[i - Len(m)]
  <2>1. m \o t \in Seq(Block) /\ Len(m \o t) = Len(m) + Len(t)
    BY ConcatProperties
  <2> QED BY <2>1, LenProperties, ConcatProperties
<1> SUFFICES ASSUME NEW i \in 1..Len(m) + Len(t), (m \o t)[i].op \in {"value", "hop"}
             PROVE  Complete((m \o t)[i].snap)
  BY <1>1 DEF SnapsComplete
<1>2. CASE i <= Len(m)
  <2>1. (m \o t)[i] = m[i] /\ i \in DOMAIN m
    BY <1>1, <1>2
  <2> QED BY <2>1 DEF SnapsComplete
<1>3. CASE ~(i <= Len(m))
  <2>1. PICK j \in DOMAIN t : (m \o t)[i] = t[j]
    <3>1. i - Len(m) \in DOMAIN t
      BY <1>1, <1>3
    <3> QED BY <1>1, <1>3, <3>1
  <2> QED BY <2>1 DEF SnapsComplete
<1> QED BY <1>2, <1>3

\* The block that runs, and what it leaves, are complete.
LEMMA TailComplete ==
    ASSUME NEW m \in Seq(Block), m # <<>>, SnapsComplete(m)
    PROVE  /\ SnapsComplete(Tail(m))
           /\ Head(m).op \in {"value", "hop"} => Complete(Head(m).snap)
<1>1. /\ Len(m) \in Nat /\ Len(m) # 0 /\ DOMAIN m = 1..Len(m)
      /\ DOMAIN Tail(m) = 1..Len(m) - 1 /\ \A i \in 1..Len(m) - 1 : Tail(m)[i] = m[i + 1]
  <2>1. /\ Tail(m) \in Seq(Block) /\ Len(Tail(m)) = Len(m) - 1
        /\ \A i \in 1..Len(Tail(m)) : Tail(m)[i] = m[i + 1]
    BY HeadTailProperties
  <2> QED BY <2>1, LenProperties, EmptySeq
<1>2. \A i \in DOMAIN Tail(m) : i + 1 \in DOMAIN m /\ Tail(m)[i] = m[i + 1]
  BY <1>1
<1>3. SnapsComplete(Tail(m))
  BY <1>2 DEF SnapsComplete
<1>4. Head(m) = m[1] /\ 1 \in DOMAIN m
  BY <1>1
<1> QED BY <1>3, <1>4 DEF SnapsComplete

\* The observers are told of a complete view, and an answer says nothing of it.
LEMMA EventsComplete ==
    ASSUME TypeOK, TypeOK', Complete(server')
    PROVE  /\ ValueEvents \in Seq(Block) /\ SnapsComplete(ValueEvents)
           /\ \A w \in Write, ok \in BOOLEAN :
                 Completion(w, ok) \in Seq(Block) /\ SnapsComplete(Completion(w, ok))
<1>1. View' \in Record /\ Complete(View')
  BY OverlayType, OverlayComplete DEF View, TypeOK
<1>2. ValueEvents \in Seq(Block)
  BY <1>1, EventsType DEF TypeOK
<1>3. SnapsComplete(ValueEvents)
  <2>1. CASE Ready' /\ (~Ready \/ View' # View)
    <3>1. ValueEvents = [i \in 1..Len(regs) |-> ValueBlock(i, View')]
      BY <2>1 DEF ValueEvents
    <3>2. PICK v : v = View' /\ Complete(v)
      BY <1>1
    <3>3. ValueEvents = [i \in 1..Len(regs) |-> ValueBlock(i, v)]
      BY <3>1, <3>2
    <3> QED BY <3>2, <3>3 DEF SnapsComplete, ValueBlock
  <2>2. CASE ~(Ready' /\ (~Ready \/ View' # View))
    <3>1. ValueEvents = <<>>
      BY <2>2 DEF ValueEvents
    <3> QED BY <3>1, EmptySeq DEF SnapsComplete
  <2> QED BY <2>1, <2>2
<1>4. ASSUME NEW w \in Write, NEW ok \in BOOLEAN
      PROVE  Completion(w, ok) \in Seq(Block) /\ SnapsComplete(Completion(w, ok))
  <2>1. Completion(w, ok) \in Seq(Block)
    BY CompletionType
  <2>2. SnapsComplete(Completion(w, ok))
    BY DEF SnapsComplete, Completion, DoneBlock
  <2> QED BY <2>1, <2>2
<1> QED BY <1>2, <1>3, <1>4

\* What stands behind the bounds of the runs is the app's specification.
LEMMA MCStep ==
    ASSUME GateTypeOK, [MCNext]_mcgatevars
    PROVE  [GateNext]_gateVars /\ hadRecord' = hadRecord
<1>1. ASSUME NEW rec \in MCChanges PROVE rec \in Record
  <2>1. PICK f \in {"userName", "userSources"} : rec = [server EXCEPT ![f] = "x"]
    BY <1>1 DEF MCChanges
  <2> QED BY <2>1, MCAssumption DEF GateTypeOK, TypeOK, Record
<1>2. CASE MCNext
  <2>1. GateNext
    BY <1>1, <1>2 DEF MCNext, GateNext
  <2>2. hadRecord' = hadRecord
    BY <1>2 DEF MCNext, Free, Input
  <2> QED BY <2>1, <2>2
<1>3. CASE UNCHANGED mcgatevars
  BY <1>3 DEF mcgatevars
<1> QED BY <1>2, <1>3

\* The blocks of the main queue keep every snapshot complete and every cast safe.
LEMMA BlocksCast ==
    ASSUME GateTypeOK, Blocks, ~crashed, SnapsComplete(main)
    PROVE  server' = server /\ SnapsComplete(main') /\ ~crashed'
<1>1. main \in Seq(Block) /\ main # <<>>
  BY DEF Blocks, SignUpAnswered, GateEvent, GateHop, ProfileEvent, GateTypeOK, TypeOK
<1>2. /\ Tail(main) \in Seq(Block) /\ SnapsComplete(Tail(main))
      /\ Head(main).op \in {"value", "hop"} => Complete(Head(main).snap)
  BY <1>1, TailComplete, HeadTailProperties
<1>3. server' = server
  BY DEF Blocks, SignUpAnswered, GateEvent, GateHop, ProfileEvent, RunBlock
<1>4. CASE GateEvent
  <2>1. PICK snap \in Record : snap = Head(main).snap /\ Complete(snap)
    BY <1>1, <1>2, <1>4, HeadType DEF GateEvent, GateTypeOK
  <2>a. HopBlock(snap) \in AppBlock /\ HopBlock(snap).snap = snap
    BY <2>1, RecordAssumption DEF HopBlock
  <2>b. PICK b \in Block : b = HopBlock(snap) /\ b.snap = snap
    BY <2>a DEF Block
  <2>2. SnapsComplete(<<b>>)
    BY <2>1, <2>b DEF SnapsComplete
  <2>3. main' = Tail(main) \o <<b>> /\ crashed' = crashed
    BY <1>4, <2>1, <2>b DEF GateEvent, RunBlock, appVars
  <2>4. <<b>> \in Seq(Block)
    OBVIOUS
  <2> QED BY <1>2, <1>3, <2>2, <2>3, <2>4, AppendComplete
<1>5. CASE GateHop
  <2>1. Complete(Head(main).snap)
    BY <1>2, <1>5 DEF GateHop
  <2>2. {f \in GateFields : Head(main).snap[f] = Absent} = {}
    BY <2>1 DEF Complete
  <2>3. crashed' = crashed \/ crashed' = FALSE
    BY <1>5, <2>2 DEF GateHop
  <2>4. main' = Tail(main) \o <<>>
    BY <1>5 DEF GateHop, RunBlock
  <2>5. main' = Tail(main)
    BY <1>2, <2>4, ConcatEmptySeq
  <2> QED BY <1>2, <1>3, <2>3, <2>5
<1>6. CASE SignUpAnswered \/ ProfileEvent
  <2>1. main' = Tail(main) \o <<>> /\ crashed' = crashed
    BY <1>6 DEF SignUpAnswered, ProfileEvent, RunBlock
  <2>2. main' = Tail(main)
    BY <1>2, <2>1, ConcatEmptySeq
  <2> QED BY <1>2, <1>3, <2>1, <2>2
<1> QED BY <1>4, <1>5, <1>6 DEF Blocks

\* The steps of the database keep the record complete, and so the view.
LEMMA BackendCasts ==
    ASSUME TypeOK, TypeOK', Complete(server), SnapsComplete(main),
           Backend \/ \E rec \in MCChanges : RemoteChange(rec)
    PROVE  Complete(server') /\ SnapsComplete(main')
<1>1. Complete(server')
  <2>1. CASE server' = server
    BY <2>1
  <2>2. CASE ServerApply
    <3>1. applied + 1 \in 1..Len(pending)
      BY <2>2, LenProperties DEF ServerApply, TypeOK
    <3>2. PICK w \in Write : w = pending[applied + 1]
      BY <3>1, ElementOfSeq DEF TypeOK
    <3>w. <<w>> \in Seq(Write)
      OBVIOUS
    <3>3. PICK ws \in Seq(Write) : ws = <<w>> /\ ws = <<pending[applied + 1]>>
      BY <3>2, <3>w
    <3> QED BY <2>2, <3>3, OverlayComplete DEF ServerApply, TypeOK
  <2>3. CASE \E rec \in MCChanges : RemoteChange(rec)
    <3>1. PICK f \in {"userName", "userSources"} : server' = [server EXCEPT ![f] = "x"]
      BY <2>3 DEF MCChanges, RemoteChange
    <3>2. \A g \in Field : server'[g] = server[g] \/ server'[g] = "x"
      BY <3>1 DEF TypeOK, Record
    <3>3. "x" # Absent
      BY MCAssumption, RecordAssumption
    <3> QED BY <3>2, <3>3, RecordAssumption DEF Complete, GateFields
  <2> QED
    BY <2>1, <2>2, <2>3 DEF Backend, WorkerSet, WorkerObserve, Load, Answer, Ack, Reject
<1>2. /\ ValueEvents \in Seq(Block) /\ SnapsComplete(ValueEvents) /\ main \in Seq(Block)
      /\ \A w \in Write, ok \in BOOLEAN :
            Completion(w, ok) \in Seq(Block) /\ SnapsComplete(Completion(w, ok))
  BY <1>1, EventsComplete DEF TypeOK
<1>3. CASE main' = main \o ValueEvents
  <2>1. PICK e \in Seq(Block) : e = ValueEvents /\ SnapsComplete(e)
    BY <1>2
  <2>2. SnapsComplete(main \o e)
    BY <1>2, <2>1, AppendComplete
  <2> QED BY <1>1, <1>3, <2>1, <2>2
<1>4. CASE Answer
  <2>1. PICK ok \in BOOLEAN :
          main' = main \o ValueEvents \o Completion(Head(pending), ok)
    BY <1>4 DEF Answer, Ack, Reject
  <2>2. Head(pending) \in Write
    BY <1>4, HeadTailProperties DEF Answer, Ack, Reject, Answerable, TypeOK
  <2>3. PICK e \in Seq(Block), d \in Seq(Block) :
          /\ e = ValueEvents /\ d = Completion(Head(pending), ok)
          /\ SnapsComplete(e) /\ SnapsComplete(d)
    BY <1>2, <2>2
  <2>4. main \o e \in Seq(Block) /\ SnapsComplete(main \o e)
    BY <1>2, <2>3, ConcatProperties, AppendComplete
  <2>5. main' = (main \o e) \o d
    BY <2>1, <2>3
  <2> QED BY <1>1, <2>3, <2>4, <2>5, AppendComplete
<1>5. CASE WorkerObserve
  <2>1. View \in Record /\ Complete(View)
    BY OverlayType, OverlayComplete DEF View, TypeOK
  <2>2. CASE Ready
    <3>1. PICK n \in Nat, v \in Record : n = Len(regs') /\ v = View /\ Complete(v)
      BY <2>1, LenProperties DEF TypeOK
    <3>2. ValueBlock(n, v) \in Block /\ SnapsComplete(<<ValueBlock(n, v)>>)
      BY <3>1 DEF ValueBlock, Block, SnapsComplete
    <3>3. PICK b \in Block : b = ValueBlock(n, v)
      BY <3>2
    <3>4. main' = Append(main, b)
      BY <1>5, <2>2, <3>1, <3>3 DEF WorkerObserve
    <3>5. main' = main \o <<b>> /\ <<b>> \in Seq(Block) /\ SnapsComplete(<<b>>)
      BY <1>2, <3>2, <3>3, <3>4
    <3> QED BY <1>1, <1>2, <3>5, AppendComplete
  <2>3. CASE ~Ready
    BY <1>1, <1>5, <2>3 DEF WorkerObserve
  <2> QED BY <2>2, <2>3
<1>6. main' = main \o ValueEvents \/ Answer \/ WorkerObserve
  BY DEF Backend, WorkerSet, Load, ServerApply, RemoteChange
<1>7. SnapsComplete(main')
  BY <1>3, <1>4, <1>5, <1>6
<1> QED BY <1>1, <1>7

\* Every step keeps the casts safe.
LEMMA NextCasts ==
    ASSUME GateTypeOK, GateTypeOK', CastInv, [MCNext]_mcgatevars
    PROVE  CastInv'
<1>1. hadRecord' = hadRecord
  BY MCStep
<1> SUFFICES ASSUME hadRecord, Complete(server), SnapsComplete(main), ~crashed
             PROVE  Complete(server') /\ SnapsComplete(main') /\ ~crashed'
  BY <1>1 DEF CastInv
<1>2. CASE User \/ CloseOther \/ Dismissed
  <2>1. main' = main \o <<>> \/ main' = main
    BY <1>2 DEF User, SignUp, SignIn, OpenProfile, OpenOther, Edit, Save, SaveSources,
                CloseOther, Dismissed, MainTurn, vars
  <2>2. server' = server /\ crashed' = crashed
    BY <1>2 DEF User, SignUp, SignIn, OpenProfile, OpenOther, Edit, Save, SaveSources,
                CloseOther, Dismissed, MainTurn, vars, appVars
  <2>3. main' = main
    BY <2>1, ConcatEmptySeq DEF GateTypeOK, TypeOK
  <2> QED BY <2>2, <2>3
<1>3. CASE Blocks
  BY <1>3, BlocksCast
<1>4. CASE (Backend \/ \E rec \in MCChanges : RemoteChange(rec)) /\ UNCHANGED appVars
  <2>1. crashed' = crashed
    BY <1>4 DEF appVars
  <2> QED BY <1>4, <2>1, BackendCasts DEF GateTypeOK
<1>5. CASE (Reconnect /\ UNCHANGED appVars) \/ UNCHANGED mcgatevars
  <2>1. server' = server /\ main' = main /\ crashed' = crashed
    BY <1>5 DEF Reconnect, mcgatevars, gateVars, vars, appVars
  <2> QED BY <2>1
<1>6. CASE Restart /\ AppGone
  <2>1. PICK k \in applied..Len(pending) :
          server' = Overlay(server, SubSeq(pending, applied + 1, k))
    BY <1>6 DEF Restart
  <2>2. applied \in Nat /\ k \in Int /\ Len(pending) \in Nat /\ k <= Len(pending)
    BY LenProperties DEF GateTypeOK, TypeOK
  <2>3. \A i \in applied + 1..k : pending[i] \in Write
    BY <2>2, ElementOfSeq DEF GateTypeOK, TypeOK
  <2>4. SubSeq(pending, applied + 1, k) \in Seq(Write)
    BY <2>2, <2>3, SubSeqProperties
  <2>5. Complete(server')
    BY <2>1, <2>4, OverlayComplete DEF GateTypeOK, TypeOK
  <2>6. SnapsComplete(main')
    BY <1>6, EmptySeq DEF Restart, SnapsComplete
  <2> QED BY <1>6, <2>5, <2>6 DEF AppGone
<1>7. \/ User \/ CloseOther \/ Dismissed
      \/ Blocks
      \/ (Backend \/ \E rec \in MCChanges : RemoteChange(rec)) /\ UNCHANGED appVars
      \/ (Reconnect /\ UNCHANGED appVars) \/ UNCHANGED mcgatevars
      \/ Restart /\ AppGone
  BY DEF MCNext
<1> QED BY <1>2, <1>3, <1>4, <1>5, <1>6, <1>7

\* The forced casts of isUserProfileEmpty never fail for an account whose
\* record was written when it was made, whatever is saved, refused or lost.
THEOREM CastsCorrect ==
    ASSUME KindsAssumption
    PROVE  MCSpec => []NeverCrashesWithRecord
<1>1. MCInit => GateTypeOK /\ CastInv
  <2> SUFFICES ASSUME MCInit PROVE GateTypeOK /\ CastInv
    OBVIOUS
  <2>1. GateTypeOK
    <3>1. NoText \in [TextFields -> Value]
      BY RecordAssumption DEF NoText
    <3>2. Init /\ GateInit
      BY DEF MCInit, GateInit
    <3>3. /\ container \in {"noAccount", "none"} /\ presented = "none" /\ opened = 0
          /\ text = NoText /\ judged = NoSnap /\ crashed = FALSE
      BY <3>2 DEF GateInit
    <3>4. text \in [TextFields -> Value] /\ crashed \in BOOLEAN /\ opened \in Nat
      BY <3>1, <3>3
    <3>5. AppTypeOK
      BY <3>3, <3>4 DEF AppTypeOK
    <3> QED BY <3>2, <3>5, InitType DEF GateTypeOK
  <2>2. ASSUME hadRecord PROVE Complete(server)
    <3>1. server \in MCRecords
      BY <2>2 DEF MCInit
    <3>2. \A f \in Field : server[f] = "" \/ server[f] = "x"
      BY <3>1 DEF MCRecords
    <3>3. "" # Absent /\ "x" # Absent
      BY MCAssumption, RecordAssumption
    <3> QED BY <3>2, <3>3, RecordAssumption DEF Complete, GateFields
  <2>3. SnapsComplete(main) /\ ~crashed
    BY EmptySeq DEF MCInit, GateInit, Init, SnapsComplete
  <2> QED BY <2>1, <2>2, <2>3 DEF CastInv
<1>2. GateTypeOK /\ [MCNext]_mcgatevars => GateTypeOK'
  BY MCStep, GateStep, NextType, AppType DEF GateTypeOK
<1>3. GateTypeOK /\ GateTypeOK' /\ CastInv /\ [MCNext]_mcgatevars => CastInv'
  BY NextCasts
<1>4. CastInv => NeverCrashesWithRecord
  BY DEF CastInv, NeverCrashesWithRecord, NeverCrashes
<1> QED BY <1>1, <1>2, <1>3, <1>4, PTL DEF MCSpec

-----------------------------------------------------------------------------
(* The Home screen calls the database as UserRecord says it is called. *)

\* The two calls of the Home screen and of the Sources screen.
LEMMA FeedCalls ==
    /\ <<ObserveCall(Home)>> \in Seq(Call)
    /\ \A list \in Value : <<SetCall([f \in {SourcesField} |-> list], NoTag)>> \in Seq(Call)
    /\ <<>> \in Seq(Call) /\ <<>> \in Seq(AppBlock)
<1>1. ObserveCall(Home) \in Call
  BY FeedAssumption DEF ObserveCall, Call
<1>2. ASSUME NEW list \in Value
      PROVE  SetCall([f \in {SourcesField} |-> list], NoTag) \in Call
  <2>1. [f \in {SourcesField} |-> list] \in [{SourcesField} -> Value]
    OBVIOUS
  <2>2. [f \in {SourcesField} |-> list] \in Data
    BY <2>1, FeedAssumption DEF Data
  <2> QED BY <2>2 DEF SetCall, Call
<1> QED BY <1>1, <1>2

\* Every step of the Home screen is a step of the database or leaves it alone.
LEMMA FeedStep ==
    ASSUME [FeedNext]_homeVars
    PROVE  [Next]_vars
<1>1. CASE Appear \/ Pull
  <2>1. MainTurn(<<ObserveCall(Home)>>, <<>>)
    BY <1>1 DEF Appear, Pull
  <2> QED BY <2>1, FeedCalls DEF Next
<1>2. CASE \E list \in Value : ListSaved(list)
  <2>1. PICK list \in Value : ListSaved(list)
    BY <1>2
  <2> QED BY <2>1, FeedCalls DEF ListSaved, Next
<1>3. CASE Snapshot
  BY <1>3, FeedCalls DEF Snapshot, Next
<1>4. CASE Network
  BY <1>4 DEF Network, Answered, Failed
<1>5. CASE Backend \/ (\E rec \in Record : RemoteChange(rec)) \/ Reconnect \/ Restart
  BY <1>5 DEF Next
<1>6. CASE UNCHANGED homeVars
  BY <1>6 DEF homeVars
<1> QED BY <1>1, <1>2, <1>3, <1>4, <1>5, <1>6 DEF FeedNext, HomeUser

\* The refinement: the app's Home screen keeps to the protocol of UserRecord,
\* so what is proved of the database and its observers holds of the app.
THEOREM FeedUsesRecord == FeedSpec => Spec
<1>1. FeedInit => Init
  BY DEF FeedInit
<1> QED BY <1>1, FeedStep, PTL DEF FeedSpec, Spec

\* In particular every observer of the Home screen has been told, or is being
\* told, of the client's view (FSyncTree, OnlineRepository.getUserSources).
LEMMA FeedDelivers == FeedSpec => []DeliveryInv
BY FeedUsesRecord, DeliveryInductive, PTL

-----------------------------------------------------------------------------
(* What was asked for.  Inductive as what the last snapshot on the main      *)
(* queue says, or what was asked for when there is none on it.               *)

\* With queue m and `a' asked for, the last request is or will be for view v.
AsksFor(m, a, v) ==
    /\ Without(m, "value") => a = SourcesOf(v)
    /\ LastSays(m, "value", v)

AskedInv == Ready /\ regs # <<>> => AsksFor(main, asked, View)

\* A change of the view, told to every observer, will be asked for; without one
\* the last request stands.
LEMMA NotifyAsks ==
    ASSUME TypeOK, View' \in Record, AskedInv, regs' = regs, asked' = asked,
           NEW done \in Seq(Block), Without(done, "value"),
           main' = main \o ValueEvents \o done
    PROVE  AskedInv'
<1> SUFFICES ASSUME Ready', regs # <<>>
             PROVE  AsksFor(main', asked, View')
  BY DEF AskedInv
<1> DEFINE E == ValueEvents
           Changed == ~Ready \/ View' # View
<1>1. main \in Seq(Block) /\ E \in Seq(Block) /\ regs \in Seq(Kind)
  BY EventsType DEF TypeOK
<1>2. AsksFor(main \o E, asked, View')
  <2>1. CASE Changed
    <3>1. E = [i \in 1..Len(regs) |-> ValueBlock(i, View')]
      BY <2>1 DEF ValueEvents
    <3>2. Len(regs) \in Nat /\ Len(regs) # 0
      BY <1>1, EmptySeq, LenProperties
    <3> HIDE DEF E
    <3>3. DOMAIN E = 1..Len(regs) /\ 1 \in DOMAIN E
      BY <3>1, <3>2
    <3>4. E # <<>>
      BY <3>3, EmptySeq, <1>1, LenProperties
    <3>5. \A i \in DOMAIN E : E[i].op = "value" /\ E[i].snap = View'
      BY <3>1, <3>3 DEF ValueBlock
    <3> QED BY <1>1, <3>4, <3>5, AppendSaying DEF AsksFor
  <2>2. CASE ~Changed
    <3>1. E = <<>>
      BY <2>2 DEF ValueEvents
    <3>2. main \o E = main
      BY <1>1, <3>1, ConcatEmptySeq
    <3>3. AsksFor(main, asked, View)
      BY <2>2 DEF AskedInv
    <3> QED BY <2>2, <3>2, <3>3
  <2> QED BY <2>1, <2>2
<1>3. main \o E \in Seq(Block)
  BY <1>1, ConcatProperties
<1>4. main' = (main \o E) \o done
  OBVIOUS
<1>5. PICK m \in Seq(Block) : m = main \o E
  BY <1>3
<1> HIDE DEF E
<1>6. /\ Without(m \o done, "value") <=> Without(m, "value")
      /\ LastSays(m, "value", View') => LastSays(m \o done, "value", View')
  BY AppendOthers
<1> QED BY <1>2, <1>4, <1>5, <1>6 DEF AsksFor

\* Every step keeps the last request, or the last snapshot, that of the view.
LEMMA FeedAsks ==
    ASSUME TypeOK, TypeOK', AskedInv, [FeedNext]_homeVars
    PROVE  AskedInv'
<1>1. View' \in Record /\ main \in Seq(Block)
  BY OverlayType DEF View, TypeOK
<1>2. CASE Appear \/ Pull \/ \E list \in Value : ListSaved(list)
  <2>1. main' = main \o <<>> /\ UNCHANGED <<server, loaded, pending, regs, asked>>
    BY <1>2 DEF Appear, Pull, ListSaved, MainTurn, feedVars
  <2>2. main' = main
    BY <1>1, <2>1, ConcatEmptySeq
  <2>3. View' = View /\ Ready' = Ready
    BY <2>1, ViewUnchanged
  <2> QED BY <2>1, <2>2, <2>3 DEF AskedInv
<1>3. CASE Snapshot
  <2>1. /\ main # <<>> /\ main' = Tail(main) \o <<>> /\ Head(main).op = "value"
        /\ asked' = SourcesOf(Head(main).snap) /\ UNCHANGED <<server, loaded, pending, regs>>
    BY <1>3 DEF Snapshot, RunBlock
  <2>2. main' = Tail(main)
    BY <1>1, <2>1, HeadTailProperties, ConcatEmptySeq
  <2>3. View' = View /\ Ready' = Ready
    BY <2>1, ViewUnchanged
  <2>4. AsksFor(main, asked, View) => AsksFor(main', asked', View)
    BY <1>1, <2>1, <2>2, TailSays DEF AsksFor
  <2> QED BY <2>1, <2>3, <2>4 DEF AskedInv
<1>4. CASE Network \/ UNCHANGED homeVars \/ (Reconnect /\ UNCHANGED feedVars)
  <2>1. UNCHANGED <<server, loaded, pending, regs, main, asked>>
    BY <1>4 DEF Network, Answered, Failed, Reconnect, homeVars, vars, feedVars
  <2>2. View' = View /\ Ready' = Ready
    BY <2>1, ViewUnchanged
  <2> QED BY <2>1, <2>2 DEF AskedInv
<1>5. CASE WorkerObserve /\ UNCHANGED feedVars
  <2>1. /\ UNCHANGED <<server, loaded, pending, asked>>
        /\ main' = IF Ready THEN Append(main, ValueBlock(Len(regs'), View)) ELSE main
    BY <1>5 DEF WorkerObserve, feedVars
  <2>2. View' = View /\ Ready' = Ready
    BY <2>1, ViewUnchanged
  <2> SUFFICES ASSUME Ready PROVE AsksFor(main', asked, View)
    BY <2>1, <2>2 DEF AskedInv
  <2>3. PICK b : b = ValueBlock(Len(regs'), View)
    OBVIOUS
  <2>4. b \in Block /\ b.op = "value" /\ b.snap = View
    <3>1. Len(regs') \in Nat
      BY LenProperties DEF TypeOK
    <3> QED BY <1>1, <2>2, <2>3, <3>1 DEF ValueBlock, Block
  <2>5. main' = main \o <<b>>
    BY <1>1, <2>1, <2>3, <2>4
  <2>6. <<b>> \in Seq(Block) /\ <<b>> # <<>>
    BY <2>4
  <2>7. \A i \in DOMAIN <<b>> : <<b>>[i].op = "value" /\ <<b>>[i].snap = View
    BY <2>4
  <2> QED BY <1>1, <2>5, <2>6, <2>7, AppendSaying DEF AsksFor
<1>6. CASE /\ WorkerSet \/ Load \/ ServerApply \/ \E rec \in Record : RemoteChange(rec)
           /\ UNCHANGED feedVars
  <2>1. regs' = regs /\ asked' = asked /\ main' = main \o ValueEvents
    BY <1>6 DEF WorkerSet, Load, ServerApply, RemoteChange, feedVars
  <2>2. main' = main \o ValueEvents \o <<>>
    BY <2>1, NoDone DEF TypeOK
  <2>3. <<>> \in Seq(Block) /\ Without(<<>>, "value")
    BY EmptySeq DEF Without
  <2> QED BY <1>1, <2>1, <2>2, <2>3, NotifyAsks
<1>7. CASE Answer /\ UNCHANGED feedVars
  <2>1. regs' = regs /\ asked' = asked
    BY <1>7 DEF Answer, Ack, Reject, feedVars
  <2>2. PICK ok \in BOOLEAN :
          main' = main \o ValueEvents \o Completion(Head(pending), ok)
    BY <1>7 DEF Answer, Ack, Reject
  <2>3. Head(pending) \in Write
    BY <1>7, HeadTailProperties DEF Answer, Ack, Reject, Answerable, TypeOK
  <2>4. Completion(Head(pending), ok) \in Seq(Block) /\ Without(Completion(Head(pending), ok), "value")
    BY <2>3, CompletionType DEF Without
  <2> QED BY <1>1, <2>1, <2>2, <2>4, NotifyAsks
<1>8. CASE Restart /\ HomeGone
  BY <1>8 DEF Restart, AskedInv
<1> QED
  BY <1>2, <1>3, <1>4, <1>5, <1>6, <1>7, <1>8 DEF FeedNext, HomeUser, Backend

\* What AskedForView rests on holds in every behaviour.
LEMMA AskedInductive == FeedSpec => []AskedInv
<1>1. FeedInit => AskedInv
  BY DEF FeedInit, Init, AskedInv
<1>2. TypeOK /\ TypeOK' /\ AskedInv /\ [FeedNext]_homeVars => AskedInv'
  BY FeedAsks
<1>3. FeedSpec => []TypeOK
  BY FeedUsesRecord, TypeCorrect, PTL
<1> QED BY <1>1, <1>2, <1>3, PTL DEF FeedSpec

\* However many observers Home has added and in whatever order they are told,
\* the last request is for the sources in the client's view (getNews).
THEOREM AskedCorrect == FeedSpec => []AskedForView
<1>1. AskedInv => AskedForView
  BY DEF AskedInv, AskedForView, AsksFor, Without, Idle
<1> QED BY <1>1, AskedInductive, PTL

-----------------------------------------------------------------------------
(* What is shown.  Inductive with what the last request was for: as long as  *)
(* no answer fails or overtakes another, it is the newest one in flight, or  *)
(* the one shown.                                                            *)

FeedTypeOK ==
    /\ inflight \in Seq(Sources)
    /\ asked \in Sources \cup {NoNews} /\ news \in Sources \cup {NoNews}
    /\ refreshing \in BOOLEAN /\ failed \in BOOLEAN /\ disturbed \in BOOLEAN

Latest == IF inflight = <<>> THEN news ELSE inflight[Len(inflight)]

FeedInv == FeedTypeOK /\ (~disturbed => asked = Latest)

\* What is asked for is a list of sources.
LEMMA SourcesType ==
    ASSUME NEW rec \in Record
    PROVE  SourcesOf(rec) \in Sources
<1>1. rec[SourcesField] \in Value \cup {Absent}
  BY FeedAssumption DEF Record
<1> QED BY <1>1 DEF SourcesOf, Sources

\* Taking one request off the list; the newest stays the newest.
LEMMA RemoveType ==
    ASSUME NEW S, NEW s \in Seq(S), NEW k \in DOMAIN s
    PROVE  /\ RemoveAt(s, k) \in Seq(S) /\ s[k] \in S
           /\ k = 1 /\ Len(s) = 1 => RemoveAt(s, k) = <<>>
           /\ k = 1 /\ Len(s) # 1 =>
                 RemoveAt(s, k) # <<>> /\ RemoveAt(s, k)[Len(RemoveAt(s, k))] = s[Len(s)]
<1>1. Len(s) \in Nat /\ DOMAIN s = 1..Len(s) /\ s \in [1..Len(s) -> S]
  BY LenProperties
<1>2. k \in 1..Len(s)
  BY <1>1
<1>3. SubSeq(s, 1, k - 1) \in Seq(S)
  BY <1>1, <1>2, SubSeqProperties
<1>4. /\ SubSeq(s, k + 1, Len(s)) \in Seq(S)
      /\ Len(SubSeq(s, k + 1, Len(s))) =
            IF k + 1 <= Len(s) THEN Len(s) - (k + 1) + 1 ELSE 0
      /\ \A i \in 1..Len(s) - (k + 1) + 1 : SubSeq(s, k + 1, Len(s))[i] = s[k + 1 + i - 1]
  BY <1>1, <1>2, SubSeqProperties
<1>5. RemoveAt(s, k) \in Seq(S)
  BY <1>3, <1>4, ConcatProperties DEF RemoveAt
<1>6. s[k] \in S
  BY <1>1, <1>2
<1>7. ASSUME k = 1
      PROVE  RemoveAt(s, k) = SubSeq(s, 2, Len(s))
  <2>1. SubSeq(s, 1, k - 1) = <<>>
    BY <1>7, SubSeqEmpty
  <2>2. k + 1 = 2
    BY <1>7
  <2> QED BY <1>4, <2>1, <2>2, ConcatEmptySeq DEF RemoveAt
<1>8. k = 1 /\ Len(s) = 1 => RemoveAt(s, k) = <<>>
  <2>1. SubSeq(s, 2, 1) = <<>>
    BY SubSeqEmpty
  <2> SUFFICES ASSUME k = 1, Len(s) = 1 PROVE RemoveAt(s, k) = <<>>
    OBVIOUS
  <2>2. RemoveAt(s, k) = SubSeq(s, 2, Len(s))
    BY <1>7
  <2>3. SubSeq(s, 2, Len(s)) = SubSeq(s, 2, 1)
    OBVIOUS
  <2> QED BY <2>1, <2>2, <2>3
<1>9. ASSUME k = 1, Len(s) # 1
      PROVE  RemoveAt(s, k) # <<>> /\ RemoveAt(s, k)[Len(RemoveAt(s, k))] = s[Len(s)]
  <2>1. PICK t \in Seq(S) : t = RemoveAt(s, k)
    BY <1>5
  <2>l. Len(s) \in Nat /\ Len(s) >= 2
    BY <1>1, <1>2, <1>9
  <2>t. t = SubSeq(s, 2, Len(s))
    BY <1>7, <1>9, <2>1
  <2>s. /\ Len(SubSeq(s, 2, Len(s))) = Len(s) - 1
        /\ \A i \in 1..Len(s) - 1 : SubSeq(s, 2, Len(s))[i] = s[i + 1]
    <3>1. \A i \in 2..Len(s) : s[i] \in S
      BY <1>1
    <3>2. /\ Len(SubSeq(s, 2, Len(s))) = IF 2 <= Len(s) THEN Len(s) - 2 + 1 ELSE 0
          /\ \A i \in 1..Len(s) - 2 + 1 : SubSeq(s, 2, Len(s))[i] = s[2 + i - 1]
      BY <2>l, <3>1, SubSeqProperties
    <3>3. 1..Len(s) - 2 + 1 = 1..Len(s) - 1 /\ Len(s) - 2 + 1 = Len(s) - 1
      BY <2>l
    <3>4. \A i \in 1..Len(s) - 1 : 2 + i - 1 = i + 1
      BY <2>l
    <3> QED BY <2>l, <3>2, <3>3, <3>4
  <2>2. Len(t) = Len(s) - 1 /\ Len(t) # 0 /\ Len(t) \in 1..Len(s) - 1
    BY <2>l, <2>t, <2>s
  <2>3. t[Len(s) - 1] = s[Len(s)]
    BY <2>l, <2>t, <2>s, <2>2
  <2>4. t # <<>>
    BY <2>2, EmptySeq
  <2> QED BY <2>1, <2>2, <2>3, <2>4
<1> QED BY <1>5, <1>6, <1>8, <1>9

\* Every step keeps the types and the newest request the last one made.
LEMMA FeedKeeps ==
    ASSUME TypeOK, FeedInv, [FeedNext]_homeVars
    PROVE  FeedInv'
<1>1. CASE UNCHANGED feedVars \/ Appear \/ \E list \in Value : ListSaved(list)
  BY <1>1 DEF Appear, ListSaved, feedVars, FeedInv, FeedTypeOK, Latest
<1>2. CASE Pull
  BY <1>2 DEF Pull, FeedInv, FeedTypeOK, Latest
<1>3. CASE Snapshot
  <2>1. /\ main # <<>> /\ Head(main).op = "value" /\ asked' = SourcesOf(Head(main).snap)
        /\ inflight' = Append(inflight, asked')
        /\ UNCHANGED <<news, refreshing, failed, disturbed>>
    BY <1>3 DEF Snapshot, RunBlock
  <2>2. Head(main) \in Block
    BY <2>1, HeadTailProperties DEF TypeOK
  <2>3. Head(main).snap \in Record
    BY <2>1, <2>2, AppBlockAssumption DEF Block
  <2>4. asked' \in Sources
    BY <2>1, <2>3, SourcesType
  <2>5. inflight \in Seq(Sources)
    BY DEF FeedInv, FeedTypeOK
  <2>6. inflight' \in Seq(Sources) /\ inflight' # <<>> /\ inflight'[Len(inflight')] = asked'
    BY <2>1, <2>4, <2>5
  <2>7. Latest' = asked'
    BY <2>6 DEF Latest
  <2> QED BY <2>1, <2>4, <2>6, <2>7 DEF FeedInv, FeedTypeOK
<1>4. CASE Network
  <2>1. PICK k \in DOMAIN inflight : Answered(k) \/ Failed(k)
    BY <1>4 DEF Network
  <2>2. inflight' = RemoveAt(inflight, k) /\ asked' = asked
    BY <2>1 DEF Answered, Failed
  <2>3. inflight \in Seq(Sources) /\ DOMAIN inflight = 1..Len(inflight) /\ Len(inflight) \in Nat
    BY LenProperties DEF FeedInv, FeedTypeOK
  <2>4. inflight' \in Seq(Sources) /\ inflight[k] \in Sources
    BY <2>2, <2>3, RemoveType
  <2>5. FeedTypeOK'
    <3>1. news' \in Sources \cup {NoNews}
      BY <2>1, <2>4 DEF Answered, Failed, FeedInv, FeedTypeOK
    <3>2. refreshing' \in BOOLEAN /\ failed' \in BOOLEAN
      BY <2>1 DEF Answered, Failed, FeedInv, FeedTypeOK
    <3>3. disturbed' \in BOOLEAN
      BY <2>1 DEF Answered, Failed, FeedInv, FeedTypeOK
    <3> QED BY <2>2, <2>4, <3>1, <3>2, <3>3 DEF FeedInv, FeedTypeOK
  <2>6. ASSUME ~disturbed' PROVE asked' = Latest'
    <3>1. k = 1 /\ ~disturbed /\ news' = inflight[k]
      BY <2>1, <2>6 DEF Answered, Failed
    <3>2. inflight # <<>>
      BY <2>3, EmptySeq
    <3>3. asked = inflight[Len(inflight)]
      BY <3>1, <3>2 DEF FeedInv, Latest
    <3>4. CASE Len(inflight) = 1
      <4>1. inflight' = <<>>
        BY <2>2, <2>3, <3>1, <3>4, RemoveType
      <4> QED BY <2>2, <3>1, <3>3, <3>4, <4>1 DEF Latest
    <3>5. CASE Len(inflight) # 1
      <4>1. inflight' # <<>> /\ inflight'[Len(inflight')] = inflight[Len(inflight)]
        BY <2>2, <2>3, <3>1, <3>5, RemoveType
      <4> QED BY <2>2, <3>3, <4>1 DEF Latest
    <3> QED BY <3>4, <3>5
  <2> QED BY <2>5, <2>6 DEF FeedInv
<1>5. CASE HomeGone
  BY <1>5, EmptySeq DEF HomeGone, FeedInv, FeedTypeOK, Latest
<1> QED
  BY <1>1, <1>2, <1>3, <1>4, <1>5 DEF FeedNext, HomeUser, homeVars

\* Types and the newest request, in every behaviour.
LEMMA FeedInductive == FeedSpec => []FeedInv
<1>1. FeedInit => FeedInv
  <2>1. <<>> \in Seq(Sources)
    BY EmptySeq
  <2>2. FeedInit => FeedTypeOK
    BY <2>1 DEF FeedInit, FeedTypeOK
  <2>3. FeedInit => asked = Latest
    BY DEF FeedInit, Latest
  <2> QED BY <2>2, <2>3 DEF FeedInv
<1>2. TypeOK /\ FeedInv /\ [FeedNext]_homeVars => FeedInv'
  BY FeedKeeps
<1>3. FeedSpec => []TypeOK
  BY FeedUsesRecord, TypeCorrect, PTL
<1> QED BY <1>1, <1>2, <1>3, PTL DEF FeedSpec

\* The list shown is the one for the server's sources unless a request failed
\* or was overtaken: nothing else can leave an old list (userSources, newsList).
THEOREM StaleCorrect == FeedSpec => []StaleOnlyIfDisturbed
<1>1. TypeOK /\ AskedInv /\ FeedInv => StaleOnlyIfDisturbed
  <2> SUFFICES ASSUME TypeOK, AskedInv, FeedInv,
                      loaded, pending = <<>>, regs # <<>>, Idle, inflight = <<>>, ~disturbed
               PROVE  news = SourcesOf(server)
    BY DEF StaleOnlyIfDisturbed
  <2>1. Ready
    BY DEF Ready
  <2>2. asked = SourcesOf(View)
    BY <2>1 DEF AskedInv, AsksFor, Without, Idle
  <2>3. asked = news
    BY DEF FeedInv, Latest
  <2>4. DOMAIN pending = {}
    BY EmptySeq
  <2>5. View = [f \in Field |-> server[f]]
    BY <2>4 DEF View, Overlay
  <2>6. View = server
    BY <2>5 DEF TypeOK, Record
  <2> QED BY <2>2, <2>3, <2>6
<1>2. FeedSpec => []TypeOK
  BY FeedUsesRecord, TypeCorrect, PTL
<1> QED BY <1>1, <1>2, AskedInductive, FeedInductive, PTL
================================================================================
