----------------------------- MODULE Screens_proofs -----------------------------
(****************************************************************************)
(* Proofs about the screens that share no state: the news reader            *)
(* (NewsReader), the password fields (PasswordChange) and who is signed in  *)
(* (Session), for every list of news, every text and every set of accounts, *)
(* and without the bounds of the model-checked runs.                        *)
(****************************************************************************)
EXTENDS MCScreens, SequenceTheorems, TLAPS

-----------------------------------------------------------------------------
(* The news reader *)

\* Nothing is left of a reader that is closed; an open one is where its index
\* says; and the pictures queued come after the one shown, the last one being
\* the last that was downloaded.
ReaderClosed ==
    data = Closed => /\ shown = 0 /\ link = 0 /\ picture = 0 /\ fetched = 0 /\ blocks = <<>>

ReaderOpen ==
    data # Closed =>
        /\ data \in Lists /\ index \in Nat /\ link \in 1 .. index
        /\ link <= Len(data)

BlocksBehind ==
    /\ shown \in Nat /\ link \in Nat /\ picture \in Nat /\ fetched \in Nat /\ blocks \in Seq(Nat)
    /\ \A k \in 1 .. Len(blocks) : link <= blocks[k] /\ blocks[k] <= fetched
    /\ blocks # <<>> => blocks[Len(blocks)] = fetched

ReaderInv == ReaderClosed /\ ReaderOpen /\ BlocksBehind /\ InList /\ PictureOfLatest

\* A list of Lists has a length, and its places from 1 up to it.
LEMMA ListPlaces ==
    ASSUME NEW list \in Lists
    PROVE  Len(list) \in Nat /\ DOMAIN list = 1 .. Len(list)
BY ListsAssumption, LenProperties

\* A block queued for a later article keeps the queue in its place.
LEMMA QueueOneMore ==
    ASSUME BlocksBehind, NEW i \in Nat, shown <= i, fetched <= shown, link <= i,
           fetched' = i, blocks' = Append(blocks, i)
    PROVE  /\ blocks' \in Seq(Nat) /\ blocks' # <<>> /\ blocks'[Len(blocks')] = i
           /\ \A k \in 1 .. Len(blocks') : link <= blocks'[k] /\ blocks'[k] <= i
<1>1. blocks \in Seq(Nat) /\ Len(blocks) \in Nat
  BY LenProperties DEF BlocksBehind
<1>2. /\ blocks' \in Seq(Nat) /\ blocks' # <<>> /\ Len(blocks') = Len(blocks) + 1
      /\ \A k \in 1 .. Len(blocks) : blocks'[k] = blocks[k]
      /\ blocks'[Len(blocks) + 1] = i
  BY <1>1, AppendProperties
<1>3. ASSUME NEW k \in 1 .. Len(blocks') PROVE link <= blocks'[k] /\ blocks'[k] <= i
  <2>1. CASE k = Len(blocks) + 1
    BY <1>2, <2>1
  <2>2. CASE k # Len(blocks) + 1
    <3>1. k \in 1 .. Len(blocks)
      BY <1>1, <1>2, <2>2
    <3>2. link <= blocks[k] /\ blocks[k] <= fetched /\ blocks[k] \in Nat
      BY <1>1, <3>1, ElementOfSeq DEF BlocksBehind
    <3> QED BY <1>2, <3>1, <3>2 DEF BlocksBehind
  <2> QED BY <2>1, <2>2
<1> QED BY <1>1, <1>2, <1>3

\* Opened on an article of the list.
LEMMA OpenStep ==
    ASSUME ReaderInv, NEW list \in Lists, NEW i \in DOMAIN list, Open(list, i)
    PROVE  ReaderInv'
<1>1. /\ data' = list /\ index' = i /\ link' = i /\ shown' = i /\ picture' = picture
      /\ UNCHANGED <<fetched, blocks>> \/ (fetched' = i /\ blocks' = Append(blocks, i))
  BY DEF Open, ConfigurateView
<1>2. i \in 1 .. Len(list) /\ Len(list) \in Nat /\ DOMAIN list = 1 .. Len(list) /\ list # Closed
  BY ListPlaces, ListsAssumption
<1>3. shown = 0 /\ link = 0 /\ picture = 0 /\ fetched = 0 /\ blocks = <<>>
  BY DEF Open, ReaderInv, ReaderClosed
<1>4. CASE UNCHANGED <<fetched, blocks>>
  <2>1. BlocksBehind'
    BY <1>1, <1>2, <1>3, <1>4 DEF BlocksBehind
  <2> QED BY <1>1, <1>2, <1>3, <1>4, <2>1
          DEF ReaderInv, ReaderClosed, ReaderOpen, InList, PictureOfLatest
<1>5. CASE fetched' = i /\ blocks' = Append(blocks, i)
  <2>1. blocks' = <<i>> /\ Len(blocks') = 1 /\ blocks'[1] = i /\ blocks' \in Seq(Nat)
    BY <1>2, <1>3, <1>5
  <2>2. BlocksBehind'
    BY <1>1, <1>2, <1>3, <1>5, <2>1 DEF BlocksBehind
  <2>3. PictureOfLatest'
    BY <1>1, <1>2, <1>3, <1>5, <2>1 DEF PictureOfLatest
  <2> QED BY <1>1, <1>2, <2>2, <2>3 DEF ReaderInv, ReaderClosed, ReaderOpen, InList
<1> QED BY <1>1, <1>4, <1>5

\* Next, within the list or past its end.
LEMMA NextNewsStep == ASSUME ReaderInv, NextNews PROVE ReaderInv'
<1>1. /\ data # Closed /\ index' = index + 1 /\ UNCHANGED <<data, link, picture>>
  BY DEF NextNews
<1>2. /\ data \in Lists /\ index \in Nat /\ link \in 1 .. index /\ link <= Len(data)
      /\ Len(data) \in Nat /\ DOMAIN data = 1 .. Len(data)
      /\ shown = (IF index > Len(data) THEN Len(data) ELSE index) /\ shown \in DOMAIN data
      /\ BlocksBehind
  BY <1>1, ListPlaces DEF ReaderInv, ReaderOpen, InList
<1>n. /\ Len(data) \in Nat /\ index \in Nat /\ link \in Nat /\ index' = index + 1
      /\ 1 <= link /\ link <= index /\ link <= Len(data)
      /\ index > Len(data) => shown = Len(data)
      /\ ~ (index > Len(data)) => shown = index
  <2>1. Len(data) \in Nat /\ index \in Nat /\ index' = index + 1
    BY <1>1, <1>2
  <2>2. link \in Nat /\ 1 <= link /\ link <= index /\ link <= Len(data)
    BY <1>2
  <2>3. index > Len(data) => shown = Len(data)
    BY <1>2
  <2>4. ~ (index > Len(data)) => shown = index
    BY <1>2
  <2> QED BY <2>1, <2>2, <2>3, <2>4
<1>o. ReaderClosed' /\ ReaderOpen'
  <2>1. data' # Closed /\ data' = data /\ link' = link /\ index' \in Nat
    BY <1>1, <1>2
  <2>2. link \in 1 .. index'
    BY <1>1, <1>2
  <2> QED BY <1>2, <2>1, <2>2 DEF ReaderClosed, ReaderOpen
<1>3. CASE UNCHANGED <<shown, fetched, blocks>> /\ index' > Len(data)
  <2>1. BlocksBehind' /\ PictureOfLatest'
    BY <1>1, <1>3 DEF ReaderInv, BlocksBehind, PictureOfLatest
  <2>2. shown' = Len(data) /\ shown' \in DOMAIN data /\ link \in 1 .. shown'
    <3>1. shown = Len(data) /\ shown' = shown
      <4>1. index > Len(data) \/ index = Len(data)
        BY <1>n, <1>3
      <4> QED BY <1>n, <1>3, <4>1
    <3>2. shown \in DOMAIN data
      BY <1>2
    <3> QED BY <1>n, <3>1, <3>2
  <2>3. InList'
    <3>1. /\ data' = data /\ shown' \in DOMAIN data /\ link' \in 1 .. shown'
          /\ index' > Len(data) /\ shown' = Len(data)
      BY <1>1, <1>3, <2>2
    <3> QED BY <3>1 DEF InList
  <2> QED BY <1>o, <2>1, <2>3 DEF ReaderInv
<1>4. CASE ~ (index' > Len(data)) /\ shown' = index'
           /\ (UNCHANGED <<fetched, blocks>>
               \/ (fetched' = index' /\ blocks' = Append(blocks, index')))
  <2>1. /\ shown = index /\ index' \in 1 .. Len(data) /\ link <= index' /\ index <= index'
        /\ index' \in Nat /\ link \in Nat
    <3>1. shown = index /\ index' <= Len(data)
      BY <1>n, <1>4
    <3> QED BY <1>n, <3>1
  <2>2. fetched <= index /\ fetched \in Nat /\ picture <= fetched /\ picture \in Nat
        /\ (picture # 0 => picture >= link)
    BY <2>1 DEF ReaderInv, PictureOfLatest, BlocksBehind
  <2>3. InList'
    <3>1. /\ data' = data /\ shown' \in DOMAIN data /\ link' \in 1 .. shown'
          /\ ~ (index' > Len(data)) /\ shown' = index'
      <4>1. DOMAIN data = 1 .. Len(data) /\ data' = data /\ link' = link
        BY <1>1, <1>2
      <4>2. ~ (index' > Len(data)) /\ shown' = index'
        BY <1>4
      <4>3. index' \in 1 .. Len(data) /\ link \in 1 .. index'
        BY <1>n, <2>1
      <4> QED BY <4>1, <4>2, <4>3
    <3> QED BY <3>1 DEF InList
  <2>4. CASE UNCHANGED <<fetched, blocks>>
    <3>1. BlocksBehind'
      BY <1>1, <1>2, <1>4, <2>1, <2>4 DEF BlocksBehind
    <3>2. PictureOfLatest'
      <4>1. /\ picture' = picture /\ fetched' = fetched /\ blocks' = blocks /\ link' = link
            /\ shown' = index' /\ (blocks = <<>> => picture = fetched)
        BY <1>1, <1>4, <2>4 DEF ReaderInv, PictureOfLatest
      <4>2. fetched <= index' 
        BY <1>n, <2>2
      <4> QED BY <2>2, <4>1, <4>2 DEF PictureOfLatest
    <3> QED BY <1>o, <2>3, <3>1, <3>2 DEF ReaderInv
  <2>5. CASE fetched' = index' /\ blocks' = Append(blocks, index')
    <3>1. /\ blocks' \in Seq(Nat) /\ blocks' # <<>> /\ blocks'[Len(blocks')] = index'
          /\ \A k \in 1 .. Len(blocks') : link <= blocks'[k] /\ blocks'[k] <= index'
      BY <1>2, <2>1, <2>2, <2>5, QueueOneMore
    <3>2. BlocksBehind'
      BY <1>1, <1>2, <1>4, <2>1, <2>2, <2>5, <3>1 DEF BlocksBehind
    <3>3. PictureOfLatest'
      <4>1. /\ picture' = picture /\ fetched' = index' /\ blocks' # <<>> /\ link' = link
            /\ shown' = index'
        BY <1>1, <1>4, <2>5, <3>1
      <4>2. picture <= index' 
        BY <1>n, <2>2
      <4>3. picture # 0 => picture >= link
        BY <2>2
      <4>4. index' <= index'
        BY <2>1
      <4> QED BY <4>1, <4>2, <4>3, <4>4 DEF PictureOfLatest
    <3> QED BY <1>o, <2>3, <3>2, <3>3 DEF ReaderInv
  <2> QED BY <1>4, <2>4, <2>5
<1> QED BY <1>1, <1>3, <1>4 DEF NextNews, ConfigurateView

\* The queued block shows the oldest of the pictures queued.
LEMMA ShowPictureStep == ASSUME ReaderInv, ShowPicture PROVE ReaderInv'
<1>1. /\ blocks # <<>> /\ picture' = Head(blocks) /\ blocks' = Tail(blocks)
      /\ UNCHANGED <<data, index, shown, link, fetched>>
  BY DEF ShowPicture
<1>2. /\ blocks \in Seq(Nat) /\ Len(blocks) \in Nat /\ Len(blocks) >= 1 /\ fetched \in Nat
      /\ \A k \in 1 .. Len(blocks) : blocks[k] \in Nat
  BY <1>1, EmptySeq, ElementOfSeq DEF ReaderInv, BlocksBehind
<1>3. /\ Tail(blocks) \in Seq(Nat) /\ Len(Tail(blocks)) = Len(blocks) - 1
      /\ \A k \in 1 .. Len(Tail(blocks)) : Tail(blocks)[k] = blocks[k + 1]
      /\ Head(blocks) = blocks[1]
  BY <1>1, <1>2, HeadTailProperties
<1>4. link <= Head(blocks) /\ Head(blocks) <= fetched /\ Head(blocks) \in Nat
  BY <1>2, <1>3 DEF ReaderInv, BlocksBehind
<1>5. \A k \in 1 .. Len(Tail(blocks)) : k + 1 \in 1 .. Len(blocks)
  BY <1>2, <1>3
<1>6. Tail(blocks) # <<>> => Tail(blocks)[Len(Tail(blocks))] = blocks[Len(blocks)]
  <2>0. SUFFICES ASSUME Tail(blocks) # <<>>
                 PROVE  Tail(blocks)[Len(Tail(blocks))] = blocks[Len(blocks)]
    OBVIOUS
  <2>1. Len(Tail(blocks)) \in Nat \ {0}
    BY <1>3, <2>0, EmptySeq
  <2> QED BY <1>2, <1>3, <2>1
<1>7. BlocksBehind'
  BY <1>1, <1>2, <1>3, <1>4, <1>5, <1>6 DEF ReaderInv, BlocksBehind
<1>8. Tail(blocks) = <<>> => Head(blocks) = fetched
  <2>0. SUFFICES ASSUME Tail(blocks) = <<>> PROVE Head(blocks) = fetched
    OBVIOUS
  <2>1. Len(blocks) = 1
    <3>1. Len(Tail(blocks)) = 0
      BY <2>0
    <3>2. Len(Tail(blocks)) = Len(blocks) - 1
      BY <1>3
    <3>3. Len(blocks) \in Nat
      BY <1>2
    <3> DEFINE m == Len(Tail(blocks))
    <3> HIDE DEF m
    <3>4. m = 0 /\ m = Len(blocks) - 1
      BY <3>1, <3>2 DEF m
    <3> QED BY <3>3, <3>4
  <2> QED BY <1>1, <1>3, <2>1 DEF ReaderInv, BlocksBehind
<1>9. PictureOfLatest'
  BY <1>1, <1>2, <1>4, <1>8 DEF ReaderInv, PictureOfLatest, BlocksBehind
<1> QED BY <1>1, <1>7, <1>9 DEF ReaderInv, ReaderClosed, ReaderOpen, InList

LEMMA NoReaderStep == ASSUME NoReader PROVE ReaderInv'
BY DEF NoReader, ReaderInv, ReaderClosed, ReaderOpen, BlocksBehind, InList, PictureOfLatest

LEMMA ReaderInvariant == ReaderSpec => []ReaderInv
<1>1. ReaderInit => ReaderInv
  BY DEF ReaderInit, ReaderInv, ReaderClosed, ReaderOpen, BlocksBehind, InList, PictureOfLatest
<1>2. ReaderInv /\ [ReaderNext]_readerVars => ReaderInv'
  <2>1. ReaderInv /\ UNCHANGED readerVars => ReaderInv'
    BY DEF readerVars, ReaderInv, ReaderClosed, ReaderOpen, BlocksBehind, InList, PictureOfLatest
  <2> QED BY <2>1, OpenStep, NextNewsStep, ShowPictureStep, NoReaderStep
          DEF ReaderNext, Dismiss, Relaunch
<1> QED BY <1>1, <1>2, PTL DEF ReaderSpec

\* The reader stays in the list however often Next is tapped.
THEOREM ReaderInList == ReaderSpec => []InList
<1>1. ReaderInv => InList
  BY DEF ReaderInv
<1> QED BY <1>1, ReaderInvariant, PTL

\* The picture is never of an article beyond the one shown, nor of another
\* reader, and with nothing queued it is the last downloaded.
THEOREM PictureCorrect == ReaderSpec => []PictureOfLatest
<1>1. ReaderInv => PictureOfLatest
  BY DEF ReaderInv
<1> QED BY <1>1, ReaderInvariant, PTL

-----------------------------------------------------------------------------
(* The password fields *)

Reply == [tap : 1 .. taps, screen : 1 .. screen, ok : BOOLEAN]

\* The taps that were answered, and then those in line, are in the order they
\* were made.
InOrder ==
    /\ \A i, j \in 1 .. Len(replies) : i < j => replies[i].tap < replies[j].tap
    /\ \A i, j \in 1 .. Len(queue) : i < j => queue[i].tap < queue[j].tap
    /\ \A i \in 1 .. Len(replies), j \in 1 .. Len(queue) : replies[i].tap < queue[j].tap

\* The account's password is not from a later tap than those in line, from the
\* oldest of them once the server has set it, and not from an earlier one than
\* those whose success waits to be told.
HeldBetween ==
    /\ \A k \in 1 .. Len(queue) : held <= queue[k].tap
    /\ phase = "set" => held = queue[1].tap
    /\ \A k \in 1 .. Len(replies) : replies[k].ok => held >= replies[k].tap

PasswordInv == PasswordTypeOK /\ InOrder /\ HeldBetween

\* The lengths and places of the two queues.
LEMMA QueueLengths ==
    ASSUME PasswordTypeOK
    PROVE  /\ Len(queue) \in Nat /\ Len(replies) \in Nat
           /\ DOMAIN queue = 1 .. Len(queue) /\ DOMAIN replies = 1 .. Len(replies)
           /\ \A k \in 1 .. Len(queue) : queue[k] \in Tap /\ queue[k].tap \in Nat
           /\ \A k \in 1 .. Len(replies) : replies[k] \in Reply /\ replies[k].tap \in Nat
<1>1. queue \in Seq(Tap) /\ replies \in Seq(Reply) /\ taps \in Nat
  BY DEF PasswordTypeOK, Reply
<1>2. \A k \in 1 .. Len(queue) : queue[k] \in Tap
  BY <1>1, ElementOfSeq
<1>3. \A k \in 1 .. Len(replies) : replies[k] \in Reply
  BY <1>1, ElementOfSeq
<1>4. (\A x \in Tap : x.tap \in Nat) /\ (\A x \in Reply : x.tap \in Nat)
  BY <1>1 DEF Tap, Reply
<1> QED BY <1>1, <1>2, <1>3, <1>4, LenProperties

\* A queue that is not empty has a first place, where its head is.
LEMMA QueueHead ==
    ASSUME PasswordTypeOK, queue # <<>>
    PROVE  /\ 1 \in 1 .. Len(queue) /\ Head(queue) = queue[1] /\ Head(queue) \in Tap
           /\ Tail(queue) \in Seq(Tap) /\ Len(Tail(queue)) = Len(queue) - 1
           /\ \A k \in 1 .. Len(Tail(queue)) : /\ k + 1 \in 1 .. Len(queue)
                                               /\ Tail(queue)[k] = queue[k + 1]
<1>1. queue \in Seq(Tap) /\ Len(queue) \in Nat \ {0}
  BY EmptySeq DEF PasswordTypeOK
<1>2. /\ Head(queue) \in Tap /\ Tail(queue) \in Seq(Tap) /\ Len(Tail(queue)) = Len(queue) - 1
      /\ \A k \in 1 .. Len(Tail(queue)) : Tail(queue)[k] = queue[k + 1]
  BY <1>1, HeadTailProperties
<1> QED BY <1>1, <1>2

LEMMA RepliesTyped ==
    ASSUME PasswordTypeOK
    PROVE  replies \in Seq(Reply)
BY DEF PasswordTypeOK, Reply

LEMMA EmptyTyped == Empty \in [new : Text, confirm : Text]
BY TextAssumption DEF Empty

\* The type invariant with a name for what the answers are.
PasswordTyped ==
    /\ typed \in [new : Text, confirm : Text] /\ red \in BOOLEAN
    /\ screen \in Nat \ {0} /\ signedIn \in BOOLEAN /\ taps \in Nat
    /\ queue \in Seq(Tap) /\ phase \in {"waiting", "sent", "set"}
    /\ phase # "waiting" => queue # <<>>
    /\ replies \in Seq(Reply)
    /\ held \in 0 .. taps

LEMMA PasswordTyping == /\ PasswordTypeOK <=> PasswordTyped
                        /\ PasswordTypeOK' <=> PasswordTyped'
BY DEF PasswordTypeOK, PasswordTyped, Reply

\* The user's part: typing, tapping and leaving the screen.
LEMMA TypeStep ==
    ASSUME PasswordInv, NEW new \in Text, NEW confirm \in Text, Type(new, confirm)
    PROVE  PasswordInv'
BY DEF Type, PasswordInv, PasswordTypeOK, InOrder, HeldBetween, Tap

LEMMA ReopenStep == ASSUME PasswordInv, Reopen PROVE PasswordInv'
<1>1. /\ screen' = screen + 1 /\ typed' = Empty /\ red' = FALSE
      /\ UNCHANGED <<signedIn, taps, queue, phase, replies, held>>
  BY DEF Reopen
<1>2. screen \in Nat \ {0}
  BY DEF PasswordInv, PasswordTypeOK
<1>3. 1 .. screen \subseteq 1 .. screen'
  BY <1>1, <1>2
<1>4. Tap \subseteq Tap' /\ Reply \subseteq Reply'
  BY <1>1, <1>3 DEF Tap, Reply
<1>5. queue' \in Seq(Tap') /\ replies' \in Seq(Reply')
  <2>1. queue \in Seq(Tap) /\ replies \in Seq(Reply)
    BY RepliesTyped DEF PasswordInv, PasswordTypeOK
  <2> QED BY <1>1, <1>4, <2>1, SeqMonotonic
<1>6. PasswordTypeOK'
  <2>1. typed' \in [new : Text, confirm : Text] /\ red' \in BOOLEAN /\ screen' \in Nat \ {0}
    <3>1. typed' \in [new : Text, confirm : Text] /\ red' \in BOOLEAN
      BY <1>1, EmptyTyped
    <3>2. screen' = screen + 1
      BY <1>1
    <3> QED BY <1>2, <3>1, <3>2
  <2>2. /\ signedIn' \in BOOLEAN /\ taps' \in Nat /\ phase' \in {"waiting", "sent", "set"}
        /\ (phase' # "waiting" => queue' # <<>>) /\ held' \in 0 .. taps'
    BY <1>1 DEF PasswordInv, PasswordTypeOK
  <2> QED BY <1>5, <2>1, <2>2, PasswordTyping DEF PasswordTyped
<1> QED BY <1>1, <1>6 DEF PasswordInv, InOrder, HeldBetween

LEMMA ChangePasswordStep == ASSUME PasswordInv, ChangePassword PROVE PasswordInv'
<1>1. CASE UNCHANGED <<taps, queue>>
  <2>1. /\ UNCHANGED <<taps, queue, screen, signedIn, phase, replies, held>>
        /\ UNCHANGED <<typed, red>> \/ (typed' = Empty /\ red' = TRUE)
    BY <1>1 DEF ChangePassword, MarkRed
  <2>2. typed' \in [new : Text, confirm : Text] /\ red' \in BOOLEAN
    BY <2>1, EmptyTyped DEF PasswordInv, PasswordTypeOK
  <2>3. PasswordTypeOK'
    <3>1. Tap' = Tap /\ Reply' = Reply
      BY <2>1 DEF Tap, Reply
    <3> QED BY <2>1, <2>2, <3>1, PasswordTyping DEF PasswordInv, PasswordTyped
  <2> QED BY <2>1, <2>3 DEF PasswordInv, InOrder, HeldBetween
<1>2. CASE taps' = taps + 1 /\ queue' = Append(queue, [tap |-> taps + 1, screen |-> screen])
           /\ UNCHANGED <<typed, red>>
  <2> DEFINE new == [tap |-> taps + 1, screen |-> screen]
  <2>1. UNCHANGED <<typed, red, screen, signedIn, phase, replies, held>>
    BY <1>2 DEF ChangePassword
  <2>2. taps \in Nat /\ screen \in Nat \ {0} /\ held \in 0 .. taps
    BY DEF PasswordInv, PasswordTypeOK
  <2>3. 1 .. taps \subseteq 1 .. taps' /\ taps' \in Nat /\ taps + 1 \in 1 .. taps'
    BY <1>2, <2>2
  <2>4. Tap \subseteq Tap' /\ Reply \subseteq Reply' /\ new \in Tap' /\ new.tap = taps + 1
    BY <2>1, <2>2, <2>3 DEF Tap, Reply
  <2>5. queue \in Seq(Tap') /\ replies' \in Seq(Reply')
    BY <2>1, <2>4, SeqMonotonic DEF PasswordInv, PasswordTypeOK, Reply
  <2> HIDE DEF new
  <2>q. queue' = Append(queue, new)
    BY <1>2 DEF new
  <2>6. /\ queue' \in Seq(Tap') /\ queue' # <<>> /\ Len(queue') = Len(queue) + 1
        /\ \A k \in 1 .. Len(queue) : queue'[k] = queue[k]
        /\ queue'[Len(queue) + 1] = new
    BY <2>q, <2>4, <2>5, AppendProperties
  <2>7. PasswordTypeOK'
    <3>1. held' \in 0 .. taps'
      BY <1>2, <2>1, <2>2
    <3> QED BY <2>1, <1>2, <2>3, <2>5, <2>6, <3>1 DEF PasswordInv, PasswordTypeOK, Reply
  <2>8. /\ Len(queue) \in Nat /\ Len(replies) \in Nat
        /\ \A k \in 1 .. Len(queue) : queue[k].tap \in 1 .. taps
        /\ \A k \in 1 .. Len(replies) : replies[k].tap \in 1 .. taps
    BY QueueLengths DEF PasswordInv, Tap, Reply
  <2>9. ASSUME NEW k \in 1 .. Len(queue')
        PROVE  \/ k \in 1 .. Len(queue) /\ queue'[k] = queue[k]
               \/ k = Len(queue) + 1 /\ queue'[k].tap = taps + 1
    BY <2>4, <2>6, <2>8
  <2>10. InOrder'
    <3>1. \A i, j \in 1 .. Len(queue') : i < j => queue'[i].tap < queue'[j].tap
      <4> SUFFICES ASSUME NEW i \in 1 .. Len(queue'), NEW j \in 1 .. Len(queue'), i < j
                   PROVE  queue'[i].tap < queue'[j].tap
        OBVIOUS
      <4>1. i \in 1 .. Len(queue) /\ queue'[i] = queue[i]
        BY <2>9, <2>8, <2>6
      <4>2. CASE j \in 1 .. Len(queue) /\ queue'[j] = queue[j]
        BY <4>1, <4>2 DEF PasswordInv, InOrder
      <4>3. CASE j = Len(queue) + 1 /\ queue'[j].tap = taps + 1
        <5>1. queue[i].tap \in 1 .. taps
          BY <2>8, <4>1
        <5> QED BY <2>2, <4>1, <4>3, <5>1
      <4> QED BY <2>9, <4>2, <4>3
    <3>2. \A i \in 1 .. Len(replies'), j \in 1 .. Len(queue') : replies'[i].tap < queue'[j].tap
      <4> SUFFICES ASSUME NEW i \in 1 .. Len(replies), NEW j \in 1 .. Len(queue')
                   PROVE  replies[i].tap < queue'[j].tap
        BY <2>1
      <4>2. CASE j \in 1 .. Len(queue) /\ queue'[j] = queue[j]
        BY <4>2 DEF PasswordInv, InOrder
      <4>3. CASE j = Len(queue) + 1 /\ queue'[j].tap = taps + 1
        <5>1. replies[i].tap \in 1 .. taps
          BY <2>8
        <5> QED BY <2>2, <4>3, <5>1
      <4> QED BY <2>9, <4>2, <4>3
    <3>3. \A i, j \in 1 .. Len(replies') : i < j => replies'[i].tap < replies'[j].tap
      BY <2>1 DEF PasswordInv, InOrder
    <3> QED BY <3>1, <3>2, <3>3 DEF InOrder
  <2>11. HeldBetween'
    <3>1. ASSUME NEW k \in 1 .. Len(queue') PROVE held <= queue'[k].tap
      <4>1. CASE k \in 1 .. Len(queue) /\ queue'[k] = queue[k]
        BY <4>1 DEF PasswordInv, HeldBetween
      <4>2. CASE queue'[k].tap = taps + 1
        BY <2>2, <4>2
      <4> QED BY <2>9, <4>1, <4>2
    <3>2. phase = "set" => held = queue'[1].tap
      <4> SUFFICES ASSUME phase = "set" PROVE held = queue'[1].tap
        OBVIOUS
      <4>1. queue # <<>>
        BY DEF PasswordInv, PasswordTypeOK
      <4>2. 1 \in 1 .. Len(queue)
        BY <4>1, QueueHead DEF PasswordInv
      <4> QED BY <2>6, <4>2 DEF PasswordInv, HeldBetween
    <3> QED BY <2>1, <3>1, <3>2 DEF PasswordInv, HeldBetween
  <2> QED BY <2>7, <2>10, <2>11 DEF PasswordInv
<1> QED BY <1>1, <1>2 DEF ChangePassword, MarkRed

\* The service sends a request, and the server sets the password it asks for.
LEMMA SendStep == ASSUME PasswordInv, Send PROVE PasswordInv'
BY DEF Send, screenVars, PasswordInv, PasswordTypeOK, InOrder, HeldBetween, Tap

LEMMA ServerSetsStep ==
    ASSUME PasswordInv, ServerSets
    PROVE  PasswordInv' /\ held' >= held
<1>1. /\ phase = "sent" /\ phase' = "set" /\ held' = Head(queue).tap
      /\ UNCHANGED <<typed, red, screen, signedIn, taps, queue, replies>>
  BY DEF ServerSets, screenVars
<1>2. queue # <<>>
  BY <1>1 DEF PasswordInv, PasswordTypeOK
<1>3. /\ 1 \in 1 .. Len(queue) /\ held' = queue[1].tap /\ queue[1].tap \in 1 .. taps
  BY <1>1, <1>2, QueueHead DEF PasswordInv, Tap
<1>4. held' >= held /\ held \in Nat /\ taps \in Nat /\ held' \in 0 .. taps
  <2>1. held <= queue[1].tap /\ held \in Nat /\ taps \in Nat
    BY <1>3 DEF PasswordInv, HeldBetween, PasswordTypeOK
  <2> QED BY <1>3, <2>1
<1>5. PasswordTypeOK' /\ InOrder'
  BY <1>1, <1>2, <1>4 DEF PasswordInv, PasswordTypeOK, InOrder, Tap
<1>6. ASSUME NEW k \in 1 .. Len(queue) PROVE held' <= queue[k].tap
  <2>1. CASE k = 1
    BY <1>3, <2>1
  <2>2. CASE k # 1
    <3>1. 1 < k
      BY <2>2
    <3>2. queue[1].tap < queue[k].tap /\ queue[k].tap \in Nat
      BY <1>3, <3>1, QueueLengths DEF PasswordInv, InOrder
    <3> QED BY <1>3, <3>2
  <2> QED BY <2>1, <2>2
<1>7. ASSUME NEW k \in 1 .. Len(replies), replies[k].ok PROVE held' >= replies[k].tap
  <2>1. held >= replies[k].tap /\ replies[k].tap \in Nat
    BY <1>7, QueueLengths DEF PasswordInv, HeldBetween
  <2>2. held' \in Nat
    BY <1>4
  <2> QED BY <1>4, <2>1, <2>2
<1> QED BY <1>1, <1>3, <1>4, <1>5, <1>6, <1>7 DEF PasswordInv, HeldBetween

\* A request is over, and was set if it is told to have succeeded.
LEMMA CompleteStep ==
    ASSUME PasswordInv, queue # <<>>, NEW ok \in BOOLEAN, Complete(ok),
           signedIn' \in BOOLEAN, ok => held = queue[1].tap
    PROVE  PasswordInv'
<1> DEFINE told == [tap |-> Head(queue).tap, screen |-> Head(queue).screen, ok |-> ok]
<1>1. /\ queue' = Tail(queue) /\ phase' = "waiting" /\ replies' = Append(replies, told)
      /\ UNCHANGED <<typed, red, screen, taps, held>>
  BY DEF Complete, screenVars
<1>2. /\ 1 \in 1 .. Len(queue) /\ Head(queue) = queue[1] /\ Head(queue) \in Tap
      /\ Tail(queue) \in Seq(Tap) /\ Len(Tail(queue)) = Len(queue) - 1
      /\ \A k \in 1 .. Len(Tail(queue)) : /\ k + 1 \in 1 .. Len(queue)
                                          /\ Tail(queue)[k] = queue[k + 1]
  BY QueueHead DEF PasswordInv
<1>3. told \in Reply /\ told.tap = queue[1].tap /\ told.ok = ok
  BY <1>2 DEF Tap, Reply
<1>4. replies \in Seq(Reply) /\ Len(replies) \in Nat
  BY QueueLengths DEF PasswordInv, PasswordTypeOK, Reply
<1> HIDE DEF told
<1>5. /\ replies' \in Seq(Reply) /\ Len(replies') = Len(replies) + 1
      /\ \A k \in 1 .. Len(replies) : replies'[k] = replies[k]
      /\ replies'[Len(replies) + 1] = told
  BY <1>1, <1>3, <1>4, AppendProperties
<1>6. PasswordTypeOK'
  <2>1. Tap' = Tap /\ Reply' = Reply
    BY <1>1 DEF Tap, Reply
  <2> QED BY <1>1, <1>2, <1>5, <2>1 DEF PasswordInv, PasswordTypeOK, Reply
<1>7. ASSUME NEW i \in 1 .. Len(replies')
      PROVE  \/ i \in 1 .. Len(replies) /\ replies'[i] = replies[i]
             \/ i = Len(replies) + 1 /\ replies'[i] = told
  BY <1>4, <1>5
<1>8. ASSUME NEW j \in 1 .. Len(queue')
      PROVE  /\ j + 1 \in 1 .. Len(queue) /\ queue'[j] = queue[j + 1]
             /\ queue[1].tap < queue'[j].tap
  <2>1. j + 1 \in 1 .. Len(queue) /\ queue'[j] = queue[j + 1]
    BY <1>1, <1>2
  <2>2. 1 < j + 1
    OBVIOUS
  <2> QED BY <1>2, <2>1, <2>2 DEF PasswordInv, InOrder
<1>9. InOrder'
  <2>1. ASSUME NEW i \in 1 .. Len(replies'), NEW j \in 1 .. Len(replies'), i < j
        PROVE  replies'[i].tap < replies'[j].tap
    <3>1. i \in 1 .. Len(replies) /\ replies'[i] = replies[i]
      BY <1>4, <1>5, <1>7, <2>1
    <3>2. CASE j \in 1 .. Len(replies) /\ replies'[j] = replies[j]
      BY <2>1, <3>1, <3>2 DEF PasswordInv, InOrder
    <3>3. CASE replies'[j] = told
      BY <1>2, <1>3, <3>1, <3>3 DEF PasswordInv, InOrder
    <3> QED BY <1>7, <3>2, <3>3
  <2>2. ASSUME NEW i \in 1 .. Len(queue'), NEW j \in 1 .. Len(queue'), i < j
        PROVE  queue'[i].tap < queue'[j].tap
    <3>1. i + 1 < j + 1
      BY <2>2
    <3> QED BY <1>8, <3>1 DEF PasswordInv, InOrder
  <2>3. ASSUME NEW i \in 1 .. Len(replies'), NEW j \in 1 .. Len(queue')
        PROVE  replies'[i].tap < queue'[j].tap
    <3>1. CASE i \in 1 .. Len(replies) /\ replies'[i] = replies[i]
      BY <1>8, <3>1 DEF PasswordInv, InOrder
    <3>2. CASE replies'[i] = told
      BY <1>3, <1>8, <3>2
    <3> QED BY <1>7, <3>1, <3>2
  <2> QED BY <2>1, <2>2, <2>3 DEF InOrder
<1>10. HeldBetween'
  <2>1. ASSUME NEW k \in 1 .. Len(queue') PROVE held <= queue'[k].tap
    BY <1>8 DEF PasswordInv, HeldBetween
  <2>2. ASSUME NEW k \in 1 .. Len(replies'), replies'[k].ok PROVE held >= replies'[k].tap
    <3>1. CASE k \in 1 .. Len(replies) /\ replies'[k] = replies[k]
      BY <2>2, <3>1 DEF PasswordInv, HeldBetween
    <3>2. CASE replies'[k] = told
      <4>1. held = replies'[k].tap /\ held \in Nat
        BY <1>3, <2>2, <3>2 DEF PasswordInv, PasswordTypeOK
      <4> QED BY <4>1
    <3> QED BY <1>7, <3>1, <3>2
  <2>3. phase' # "set"
    BY <1>1
  <2> QED BY <1>1, <2>1, <2>2, <2>3 DEF HeldBetween
<1> QED BY <1>6, <1>9, <1>10 DEF PasswordInv

LEMMA CompletedStep ==
    ASSUME PasswordInv, ChangeSucceeds \/ ChangeFails
    PROVE  PasswordInv' /\ held' = held
<1>1. phase # "waiting" /\ signedIn' \in BOOLEAN
  BY DEF ChangeSucceeds, ChangeFails, PasswordInv, PasswordTypeOK
<1>2. queue # <<>>
  BY <1>1 DEF PasswordInv, PasswordTypeOK
<1>3. PICK ok \in BOOLEAN : Complete(ok) /\ (ok => phase = "set")
  BY DEF ChangeSucceeds, ChangeFails
<1>4. ok => held = queue[1].tap
  BY <1>3 DEF PasswordInv, HeldBetween
<1>5. PasswordInv'
  BY <1>1, <1>2, <1>3, <1>4, CompleteStep
<1> QED BY <1>3, <1>5 DEF Complete

\* An answer is told on the screen.
LEMMA AnsweredStep == ASSUME PasswordInv, Answered PROVE PasswordInv' /\ held' = held
<1>1. /\ replies # <<>> /\ replies' = Tail(replies)
      /\ UNCHANGED <<screen, signedIn, taps, queue, phase, held>>
  BY DEF Answered
<1>2. replies \in Seq(Reply)
  BY DEF PasswordInv, PasswordTypeOK, Reply
<1>3. /\ Head(replies) \in Reply /\ Tail(replies) \in Seq(Reply)
      /\ Len(Tail(replies)) = Len(replies) - 1 /\ Len(replies) \in Nat
      /\ \A k \in 1 .. Len(Tail(replies)) : Tail(replies)[k] = replies[k + 1]
  BY <1>1, <1>2, HeadTailProperties, LenProperties
<1>4. ASSUME NEW k \in 1 .. Len(replies')
      PROVE  k + 1 \in 1 .. Len(replies) /\ replies'[k] = replies[k + 1]
  BY <1>1, <1>3
<1>5. typed' \in [new : Text, confirm : Text] /\ red' \in BOOLEAN
  <2>1. Head(replies).ok \in BOOLEAN
    BY <1>3 DEF Reply
  <2>2. UNCHANGED <<typed, red>> \/ (typed' = Empty /\ red' = ~Head(replies).ok)
    BY DEF Answered
  <2>3. (~Head(replies).ok) \in BOOLEAN
    OBVIOUS
  <2>4. typed \in [new : Text, confirm : Text] /\ red \in BOOLEAN
    BY DEF PasswordInv, PasswordTypeOK
  <2>6. red' \in BOOLEAN
    BY <2>2, <2>3, <2>4
  <2> QED BY <2>2, <2>4, <2>6, EmptyTyped
<1>6. PasswordTypeOK'
  <2>1. Tap' = Tap /\ Reply' = Reply
    BY <1>1 DEF Tap, Reply
  <2>2. replies' \in Seq(Reply)
    BY <1>1, <1>3
  <2> QED BY <1>1, <1>5, <2>1, <2>2 DEF PasswordInv, PasswordTypeOK, Reply
<1>7. InOrder'
  <2>1. ASSUME NEW i \in 1 .. Len(replies'), NEW j \in 1 .. Len(replies'), i < j
        PROVE  replies'[i].tap < replies'[j].tap
    <3>1. i + 1 < j + 1
      BY <2>1
    <3> QED BY <1>4, <3>1 DEF PasswordInv, InOrder
  <2>2. ASSUME NEW i \in 1 .. Len(replies'), NEW j \in 1 .. Len(queue)
        PROVE  replies'[i].tap < queue[j].tap
    BY <1>4 DEF PasswordInv, InOrder
  <2> QED BY <1>1, <2>1, <2>2 DEF PasswordInv, InOrder
<1>8. HeldBetween'
  BY <1>1, <1>4 DEF PasswordInv, HeldBetween
<1> QED BY <1>1, <1>6, <1>7, <1>8 DEF PasswordInv

\* The process ends; a request on its way may still be served.
LEMMA ProcessEndsStep ==
    ASSUME PasswordInv, ProcessEnds
    PROVE  PasswordInv' /\ held' >= held
<1>1. /\ queue' = <<>> /\ replies' = <<>> /\ typed' = Empty /\ red' = FALSE
      /\ held' = held \/ (phase = "sent" /\ held' = Head(queue).tap)
      /\ phase' = "waiting" /\ signedIn' = TRUE /\ screen' = screen + 1 /\ taps' = taps
  BY DEF ProcessEnds, Lost
<1>2. held \in 0 .. taps /\ taps \in Nat /\ screen \in Nat \ {0}
  BY DEF PasswordInv, PasswordTypeOK
<1>3. held' >= held /\ held' \in 0 .. taps
  <2>1. CASE held' = held
    BY <1>2, <2>1
  <2>2. CASE phase = "sent" /\ held' = Head(queue).tap
    <3>1. queue # <<>>
      BY <2>2 DEF PasswordInv, PasswordTypeOK
    <3>2. /\ 1 \in 1 .. Len(queue) /\ held' = queue[1].tap /\ queue[1].tap \in 1 .. taps
      BY <2>2, <3>1, QueueHead DEF PasswordInv, Tap
    <3>3. held <= queue[1].tap
      BY <3>2 DEF PasswordInv, HeldBetween
    <3> QED BY <1>2, <3>2, <3>3
  <2> QED BY <1>1, <2>1, <2>2
<1>4. <<>> \in Seq(Tap') /\ <<>> \in Seq(Reply') /\ Len(<<>>) = 0
  BY EmptySeq
<1>5. PasswordTypeOK'
  <2>1. /\ typed' \in [new : Text, confirm : Text] /\ red' \in BOOLEAN /\ screen' \in Nat \ {0}
        /\ signedIn' \in BOOLEAN
    <3>1. typed' \in [new : Text, confirm : Text] /\ red' \in BOOLEAN /\ signedIn' \in BOOLEAN
      BY <1>1, EmptyTyped
    <3>2. screen' = screen + 1
      BY <1>1
    <3> QED BY <1>2, <3>1, <3>2
  <2>2. /\ taps' \in Nat /\ phase' \in {"waiting", "sent", "set"} /\ phase' = "waiting"
        /\ held' \in 0 .. taps'
    BY <1>1, <1>2, <1>3
  <2>3. queue' \in Seq(Tap') /\ replies' \in Seq(Reply')
    BY <1>1, <1>4
  <2> QED BY <2>1, <2>2, <2>3, PasswordTyping DEF PasswordTyped
<1>6. Len(queue') = 0 /\ Len(replies') = 0 /\ phase' # "set"
  BY <1>1, <1>4
<1> QED BY <1>3, <1>5, <1>6 DEF PasswordInv, InOrder, HeldBetween

LEMMA PasswordInitInv == ASSUME PasswordInit PROVE PasswordInv
<1>1. <<>> \in Seq(Tap) /\ <<>> \in Seq(Reply) /\ Len(<<>>) = 0
  BY EmptySeq
<1>2. /\ typed \in [new : Text, confirm : Text] /\ red \in BOOLEAN /\ screen \in Nat \ {0}
      /\ signedIn \in BOOLEAN /\ taps \in Nat /\ queue = <<>> /\ phase = "waiting"
      /\ replies = <<>> /\ held = 0 /\ held \in 0 .. taps
  <2>1. typed \in [new : Text, confirm : Text]
    BY EmptyTyped DEF PasswordInit
  <2>2. held \in 0 .. taps /\ screen \in Nat \ {0} /\ taps \in Nat
    BY DEF PasswordInit
  <2> QED BY <2>1, <2>2 DEF PasswordInit
<1>3. PasswordTypeOK
  BY <1>1, <1>2, PasswordTyping DEF PasswordTyped
<1>4. Len(queue) = 0 /\ Len(replies) = 0 /\ phase # "set"
  BY <1>1, <1>2
<1> QED BY <1>3, <1>4 DEF PasswordInv, InOrder, HeldBetween

\* Every step keeps the invariant, and the password never goes back.
LEMMA PasswordStep ==
    ASSUME PasswordInv, [PasswordNext]_passwordVars
    PROVE  PasswordInv' /\ held' >= held
<1>h. held \in Nat
  BY DEF PasswordInv, PasswordTypeOK
<1>1. CASE ChangePassword
  <2>1. held' = held
    BY <1>1 DEF ChangePassword
  <2> QED BY <1>h, <1>1, <2>1, ChangePasswordStep
<1>2. CASE Reopen
  <2>1. held' = held
    BY <1>2 DEF Reopen
  <2> QED BY <1>h, <1>2, <2>1, ReopenStep
<1>3. ASSUME NEW new \in Text, NEW confirm \in Text, Type(new, confirm)
      PROVE  PasswordInv' /\ held' >= held
  BY <1>h, <1>3, TypeStep DEF Type
<1>4. CASE Send
  BY <1>h, <1>4, SendStep DEF Send
<1>5. CASE UNCHANGED passwordVars
  <2>1. /\ UNCHANGED <<typed, red, screen, signedIn, taps, queue, phase, replies, held>>
        /\ Tap' = Tap /\ Reply' = Reply
    BY <1>5 DEF passwordVars, Tap, Reply
  <2>2. PasswordTypeOK'
    BY <2>1, PasswordTyping DEF PasswordInv, PasswordTyped
  <2> QED BY <1>h, <2>1, <2>2 DEF PasswordInv, InOrder, HeldBetween
<1>6. CASE ServerSets \/ ProcessEnds
  BY <1>6, ServerSetsStep, ProcessEndsStep
<1>7. CASE ChangeSucceeds \/ ChangeFails \/ Answered
  BY <1>h, <1>7, CompletedStep, AnsweredStep
<1> QED BY <1>1, <1>2, <1>3, <1>4, <1>5, <1>6, <1>7 DEF PasswordNext, ProfileUser, Service

LEMMA PasswordInvariant == PasswordSpec => []PasswordInv
BY PasswordInitInv, PasswordStep, PTL DEF PasswordSpec

\* The password fields and requests have their types.
THEOREM PasswordTypeCorrect == PasswordSpec => []PasswordTypeOK
<1>1. PasswordInv => PasswordTypeOK
  BY DEF PasswordInv
<1> QED BY <1>1, PasswordInvariant, PTL

\* The account never goes back to the password of an earlier tap.
THEOREM PasswordNeverOlder == PasswordSpec => NeverOlder
<1>1. PasswordInv /\ [PasswordNext]_passwordVars => [held' >= held]_passwordVars
  BY PasswordStep
<1> QED BY <1>1, PasswordInvariant, PTL DEF PasswordSpec, NeverOlder

\* What is told of a request is true, and told in the order of the taps.
THEOREM ToldCorrect == PasswordSpec => []ToldTruth
<1>1. PasswordInv => ToldTruth
  <2> SUFFICES ASSUME PasswordInv PROVE ToldTruth
    OBVIOUS
  <2> DEFINE r == [k \in DOMAIN replies |-> replies[k].tap]
             q == [k \in DOMAIN queue |-> queue[k].tap]
             line == r \o q
  <2>1. /\ Len(queue) \in Nat /\ Len(replies) \in Nat
        /\ DOMAIN queue = 1 .. Len(queue) /\ DOMAIN replies = 1 .. Len(replies)
        /\ \A k \in 1 .. Len(queue) : queue[k].tap \in Nat
        /\ \A k \in 1 .. Len(replies) : replies[k].tap \in Nat
    BY QueueLengths DEF PasswordInv
  <2>2. r \in Seq(Nat) /\ Len(r) = Len(replies) /\ q \in Seq(Nat) /\ Len(q) = Len(queue)
    BY <2>1
  <2>3. /\ \A k \in 1 .. Len(replies) : r[k] = replies[k].tap
        /\ \A k \in 1 .. Len(queue) : q[k] = queue[k].tap
    BY <2>1
  <2>4. \A k \in DOMAIN replies : replies[k].ok => held >= replies[k].tap
    BY <2>1 DEF PasswordInv, HeldBetween
  <2> HIDE DEF r, q
  <2>5. /\ line \in Seq(Nat) /\ Len(line) = Len(replies) + Len(queue)
        /\ \A i \in 1 .. Len(replies) + Len(queue) :
              line[i] = IF i <= Len(replies) THEN r[i] ELSE q[i - Len(replies)]
    <3>1. /\ r \o q \in Seq(Nat) /\ Len(r \o q) = Len(r) + Len(q)
          /\ \A i \in 1 .. Len(r) + Len(q) :
                (r \o q)[i] = IF i <= Len(r) THEN r[i] ELSE q[i - Len(r)]
      BY <2>2, ConcatProperties
    <3> QED BY <2>2, <3>1
  <2>6. DOMAIN line = 1 .. Len(replies) + Len(queue)
    BY <2>5, LenProperties
  <2>7. ASSUME NEW i \in 1 .. Len(replies) + Len(queue), NEW j \in 1 .. Len(replies) + Len(queue),
               i < j
        PROVE  line[i] < line[j]
    <3>1. CASE j <= Len(replies)
      <4>1. /\ i \in 1 .. Len(replies) /\ j \in 1 .. Len(replies)
        BY <2>1, <2>7, <3>1
      <4>2. line[i] = replies[i].tap /\ line[j] = replies[j].tap
        BY <2>3, <2>5, <4>1
      <4> QED BY <2>7, <4>1, <4>2 DEF PasswordInv, InOrder
    <3>2. CASE i <= Len(replies) /\ ~ (j <= Len(replies))
      <4>1. /\ i \in 1 .. Len(replies) /\ j - Len(replies) \in 1 .. Len(queue)
        BY <2>1, <3>2
      <4>2. line[i] = replies[i].tap /\ line[j] = queue[j - Len(replies)].tap
        BY <2>3, <2>5, <3>2, <4>1
      <4> QED BY <4>1, <4>2 DEF PasswordInv, InOrder
    <3>3. CASE ~ (i <= Len(replies))
      <4>1. /\ i - Len(replies) \in 1 .. Len(queue) /\ j - Len(replies) \in 1 .. Len(queue)
            /\ ~ (j <= Len(replies)) /\ i - Len(replies) < j - Len(replies)
        BY <2>1, <2>7, <3>3
      <4>2. line[i] = queue[i - Len(replies)].tap /\ line[j] = queue[j - Len(replies)].tap
        BY <2>3, <2>5, <3>3, <4>1
      <4> QED BY <4>1, <4>2 DEF PasswordInv, InOrder
    <3> QED BY <2>1, <2>7, <3>1, <3>2, <3>3
  <2>8. \A i, j \in DOMAIN line : i < j => line[i] < line[j]
    BY <2>6, <2>7
  <2> QED BY <2>4, <2>8 DEF ToldTruth, r, q
<1> QED BY <1>1, PasswordInvariant, PTL

-----------------------------------------------------------------------------
(* Who is signed in *)

Choice == [from : Nat, option : MenuOptions]

\* The type invariant with a name for what waits in `choices'.
SessionTyped ==
    /\ exists \subseteq Account /\ used \subseteq Account
    /\ current \in exists \cup {Nobody} /\ bound \in exists \cup {Unbound, Nobody}
    /\ requests \in Seq(Request) /\ blanks \in Seq(Nat) /\ main \in Seq(Answer)
    /\ stack \in Seq(Screen) /\ made \in Nat
    /\ expanded \in BOOLEAN /\ modal \in BOOLEAN
    /\ hasty \in BOOLEAN /\ crashed \in BOOLEAN
    /\ choices \in Seq(Choice)

HasContainer == \E k \in 1 .. Len(stack) : stack[k].kind = "container"

\* Whatever is tapped when: the global `user' is bound to an account before
\* anything can sign that account out, and only records of accounts are used.
BoundKnown ==
    /\ bound # Nobody /\ used \subseteq exists
    /\ HasContainer \/ choices # <<>> \/ modal => bound # Unbound
    /\ bound = Unbound /\ (blanks # <<>> \/ \E k \in 1 .. Len(main) : main[k].ok)
           => current # Nobody

\* The screen that asked is still on top.
Asked(op, from) ==
    IF op = "signIn" THEN stack = <<>> ELSE stack = <<[kind |-> "signUp", id |-> from]>>

\* While users wait, one thing at most is under way.
RequestAlone ==
    requests # <<>> => \E r \in Request :
        /\ requests = <<r>> /\ blanks = <<>> /\ main = <<>> /\ choices = <<>>
        /\ Asked(r.op, r.from)

BlankAlone ==
    blanks # <<>> => \E i \in Nat :
        /\ blanks = <<i>> /\ requests = <<>> /\ main = <<>> /\ choices = <<>>
        /\ Asked("create", i) /\ current # Nobody

AnswerAlone ==
    main # <<>> => \E a \in Answer :
        /\ main = <<a>> /\ requests = <<>> /\ blanks = <<>> /\ choices = <<>>
        /\ Asked(a.op, a.from)
        /\ a.ok \/ a.op = "added" => current # Nobody

ChoiceAlone ==
    choices # <<>> => \E c \in Choice :
        /\ choices = <<c>> /\ requests = <<>> /\ blanks = <<>> /\ main = <<>>
        /\ OnTop("container") /\ Last(stack).id = c.from

ContainerOnTop ==
    \A k \in 1 .. Len(stack) : stack[k].kind = "container" => k = Len(stack) /\ current # Nobody

Calm == RequestAlone /\ BlankAlone /\ AnswerAlone /\ ChoiceAlone /\ ContainerOnTop

\* The login screen pushes a sign-up screen, and nothing else does.
SignUpFirst == \A k \in 1 .. Len(stack) : stack[k].kind = "signUp" => k = 1

\* Whatever is tapped when: while the answer of a creation waits and meets no other
\* success, the account it made is the current one or was signed out, and no screen
\* works on it yet.
CreationFresh ==
    /\ crossed \in BOOLEAN
    /\ Crossing(main) => crossed
    /\ Creating(main) /\ ~crossed => current \notin used /\ (current = Nobody \/ current # bound)

SessionInv == SessionTyped /\ BoundKnown /\ SignUpFirst /\ (~hasty => Calm) /\ CreationFresh

LEMMA SessionTyping == SessionTyped /\ CreationFresh => SessionTypeOK
BY DEF SessionTypeOK, SessionTyped, CreationFresh, Choice

LEMMA EmptyDomain == DOMAIN <<>> = {}
<1>1. Len(<<>>) = 0 /\ <<>> \in Seq({})
  BY EmptySeq
<1> QED BY <1>1, LenProperties

\* The library's operators on sequences that Session uses.
LEMMA RemoveAtType ==
    ASSUME NEW S, NEW s \in Seq(S), NEW i \in DOMAIN s
    PROVE  RemoveAt(s, i) \in Seq(S) /\ (Len(s) = 1 => RemoveAt(s, i) = <<>>)
<1> DEFINE n == Len(s)
<1>1. n \in Nat /\ DOMAIN s = 1 .. n /\ i \in 1 .. n
  BY LenProperties
<1>2. \A k \in 1 .. n : s[k] \in S
  BY ElementOfSeq
<1>3. SubSeq(s, 1, i - 1) \in Seq(S) /\ SubSeq(s, i + 1, n) \in Seq(S)
  <2>1. \A k \in 1 .. (i - 1) : s[k] \in S
    BY <1>1, <1>2
  <2>2. \A k \in (i + 1) .. n : s[k] \in S
    BY <1>1, <1>2
  <2> HIDE DEF n
  <2> QED BY <1>1, <2>1, <2>2, SubSeqProperties
<1>4. RemoveAt(s, i) = SubSeq(s, 1, i - 1) \o SubSeq(s, i + 1, n)
  BY DEF RemoveAt
<1>5. RemoveAt(s, i) \in Seq(S)
  BY <1>3, <1>4, ConcatProperties
<1>6. ASSUME n = 1 PROVE RemoveAt(s, i) = <<>>
  <2>1. i = 1
    BY <1>1, <1>6
  <2>2. SubSeq(s, 1, i - 1) = <<>> /\ SubSeq(s, i + 1, n) = <<>>
    <3> HIDE DEF n
    <3> QED BY <1>6, <2>1, SubSeqEmpty
  <2>3. <<>> \o <<>> = <<>>
    BY ConcatEmptySeq, EmptySeq
  <2> QED BY <1>4, <2>2, <2>3
<1> QED BY <1>5, <1>6

LEMMA FrontType ==
    ASSUME NEW S, NEW s \in Seq(S), s # <<>>
    PROVE  /\ Front(s) \in Seq(S) /\ Len(Front(s)) = Len(s) - 1 /\ Len(s) \in Nat \ {0}
           /\ \A k \in 1 .. Len(Front(s)) : k \in 1 .. Len(s) /\ Front(s)[k] = s[k]
           /\ Last(s) = s[Len(s)] /\ Last(s) \in S
<1> DEFINE n == Len(s)
<1>1. n \in Nat \ {0} /\ \A k \in 1 .. n : s[k] \in S
  BY EmptySeq, ElementOfSeq
<1>2. Front(s) = SubSeq(s, 1, n - 1) /\ Last(s) = s[n]
  BY DEF Front, Last
<1> HIDE DEF n
<1>3. /\ SubSeq(s, 1, n - 1) \in Seq(S)
      /\ Len(SubSeq(s, 1, n - 1)) = IF 1 <= n - 1 THEN n - 1 - 1 + 1 ELSE 0
      /\ \A k \in 1 .. (n - 1 - 1 + 1) : SubSeq(s, 1, n - 1)[k] = s[1 + k - 1]
  <2>1. \A k \in 1 .. (n - 1) : s[k] \in S
    BY <1>1
  <2> QED BY <1>1, <2>1, SubSeqProperties
<1>4. Len(Front(s)) = n - 1
  BY <1>1, <1>2, <1>3
<1>5. ASSUME NEW k \in 1 .. Len(Front(s)) PROVE k \in 1 .. n /\ Front(s)[k] = s[k]
  <2>1. k \in 1 .. n /\ k \in 1 .. (n - 1 - 1 + 1) /\ 1 + k - 1 = k
    BY <1>1, <1>4
  <2> QED BY <1>2, <1>3, <2>1
<1>6. s[n] \in S
  BY <1>1
<1> QED BY <1>1, <1>2, <1>3, <1>4, <1>5, <1>6 DEF n

\* A sequence of one.
LEMMA OneInLine ==
    ASSUME NEW S, NEW x \in S
    PROVE  /\ <<x>> \in Seq(S) /\ Len(<<x>>) = 1 /\ <<x>>[1] = x /\ <<x>> # <<>>
           /\ Head(<<x>>) = x /\ Tail(<<x>>) = <<>> /\ Append(<<>>, x) = <<x>>
OBVIOUS

\* With nothing or a sign-up screen only there is no container.
LEMMA AskedNoContainer ==
    ASSUME NEW op, NEW from, Asked(op, from)
    PROVE  ~HasContainer
<1>1. CASE stack = <<>>
  <2>1. Len(stack) = 0
    BY <1>1
  <2> QED BY <2>1 DEF HasContainer
<1>2. CASE stack = <<[kind |-> "signUp", id |-> from]>>
  <2>1. Len(stack) = 1 /\ stack[1].kind = "signUp"
    BY <1>2
  <2> QED BY <2>1 DEF HasContainer
<1> QED BY <1>1, <1>2 DEF Asked

LEMMA ChoiceHead ==
    ASSUME SessionTyped, choices # <<>>
    PROVE  /\ Head(choices) \in Choice /\ Tail(choices) \in Seq(Choice)
           /\ \A c : choices = <<c>> => Head(choices) = c /\ Tail(choices) = <<>>
<1>1. choices \in Seq(Choice)
  BY DEF SessionTyped
<1>2. Head(choices) \in Choice /\ Tail(choices) \in Seq(Choice)
  BY <1>1, HeadTailProperties
<1>3. ASSUME NEW c, choices = <<c>> PROVE Head(choices) = c /\ Tail(choices) = <<>>
  BY <1>3
<1> QED BY <1>2, <1>3

\* The oldest answer is one of the queued ones, and the rest is queued still.
LEMMA AnswerHead ==
    ASSUME SessionTyped, main # <<>>
    PROVE  /\ Head(main) \in Answer /\ Tail(main) \in Seq(Answer)
           /\ 1 \in 1 .. Len(main) /\ Head(main) = main[1]
           /\ \A k \in 1 .. Len(Tail(main)) : k + 1 \in 1 .. Len(main) /\ Tail(main)[k] = main[k + 1]
<1>1. main \in Seq(Answer) /\ Len(main) \in Nat \ {0}
  BY EmptySeq DEF SessionTyped
<1>2. /\ Head(main) \in Answer /\ Tail(main) \in Seq(Answer) /\ Len(Tail(main)) = Len(main) - 1
      /\ \A k \in 1 .. Len(Tail(main)) : Tail(main)[k] = main[k + 1]
  BY <1>1, HeadTailProperties
<1> QED BY <1>1, <1>2

\* A screen on top is on the stack.
LEMMA TopShown ==
    ASSUME SessionTyped, NEW kind, OnTop(kind)
    PROVE  /\ stack # <<>> /\ Last(stack) \in Screen /\ Last(stack).kind = kind /\ Last(stack).id \in Nat
           /\ Len(stack) \in 1 .. Len(stack) /\ stack[Len(stack)] = Last(stack)
           /\ kind = "container" => HasContainer
<1>1. stack \in Seq(Screen) /\ stack # <<>> /\ Last(stack).kind = kind
  BY DEF SessionTyped, OnTop
<1>2. Len(stack) \in Nat \ {0} /\ Last(stack) = stack[Len(stack)] /\ Last(stack) \in Screen
  BY <1>1, FrontType
<1>3. Last(stack).id \in Nat
  BY <1>2 DEF Screen
<1> QED BY <1>1, <1>2, <1>3 DEF HasContainer

-----------------------------------------------------------------------------
(* Types *)

\* A push of a container, whatever is on top.
LEMMA PushTyped ==
    ASSUME SessionTyped, Push
    PROVE  /\ bound' \in exists \cup {Unbound, Nobody} /\ stack' \in Seq(Screen) /\ made' \in Nat
           /\ expanded' \in BOOLEAN /\ modal' = modal /\ crashed' \in BOOLEAN /\ choices' = choices
           /\ bound # Nobody /\ (bound = Unbound => current # Nobody) => bound' # Nobody
           /\ bound' # Unbound
           /\ bound' = IF bound = Unbound THEN current ELSE bound
           /\ stack' = Append(stack, [kind |-> "container", id |-> made + 1])
           /\ [kind |-> "container", id |-> made + 1] \in Screen
<1> DEFINE user == IF bound = Unbound THEN current ELSE bound
           new  == [kind |-> "container", id |-> made + 1]
<1>1. /\ bound' = user /\ crashed' = (user = Nobody) /\ stack' = Append(stack, new)
      /\ made' = made + 1 /\ expanded' = FALSE /\ modal' = modal /\ choices' = choices
  BY DEF Push
<1>2. user \in exists \cup {Unbound, Nobody}
  BY DEF SessionTyped
<1>3. new \in Screen /\ made + 1 \in Nat
  BY DEF SessionTyped, Screen
<1>4. stack' \in Seq(Screen)
  BY <1>1, <1>3, AppendProperties DEF SessionTyped
<1>5. crashed' \in BOOLEAN
  <2>1. (user = Nobody) \in BOOLEAN
    OBVIOUS
  <2> HIDE DEF user
  <2> QED BY <1>1, <2>1
<1>6. user # Unbound
  BY SessionAssumption DEF SessionTyped
<1> QED BY <1>1, <1>2, <1>3, <1>4, <1>5, <1>6

LEMMA AnswersTyped ==
    ASSUME NEW op \in {"signIn", "create", "added"}, NEW from \in Nat, NEW ok \in BOOLEAN
    PROVE  [op |-> op, from |-> from, ok |-> ok] \in Answer
BY DEF Answer

LEMMA UserTyped == ASSUME SessionTyped, BoundKnown, User, Tapped PROVE SessionTyped'
<1> DEFINE busy == <<requests, blanks, main, choices>> # << <<>>, <<>>, <<>>, <<>> >>
<1>0. hasty' \in BOOLEAN
  <2>1. hasty' = (hasty \/ busy)
    BY DEF Tapped
  <2>2. busy \in BOOLEAN
    OBVIOUS
  <2> HIDE DEF busy
  <2> QED BY <2>1, <2>2 DEF SessionTyped
<1> HIDE DEF busy
<1>1. ASSUME NEW op \in {"signIn", "create"}, NEW a \in Account, NEW from \in Nat, Ask(op, a, from),
             UNCHANGED <<serverVars, current, bound, blanks, main, stack, made, menuVars, crashed>>
      PROVE  SessionTyped'
  <2>1. [op |-> op, of |-> a, from |-> from] \in Request
    BY DEF Request
  <2>2. requests' \in Seq(Request)
    BY <1>1, <2>1, AppendProperties DEF Ask, SessionTyped
  <2> QED BY <1>0, <1>1, <2>2 DEF SessionTyped, serverVars, menuVars
<1>2. ASSUME NEW a \in Account, SignInButton(a) PROVE SessionTyped'
  <2>1. Login \in Nat
    BY DEF Login
  <2> QED BY <1>1, <1>2, <2>1 DEF SignInButton
<1>3. ASSUME NEW a \in Account, NextButton(a) PROVE SessionTyped'
  <2>1. Last(stack).id \in Nat
    BY <1>3, TopShown DEF NextButton
  <2> QED BY <1>1, <1>3, <2>1 DEF NextButton
<1>4. CASE SignUpButton
  <2>1. made + 1 \in Nat /\ [kind |-> "signUp", id |-> made + 1] \in Screen
    BY DEF SessionTyped, Screen
  <2>2. stack' \in Seq(Screen) /\ made' \in Nat
    BY <1>4, <2>1, OneInLine DEF SignUpButton
  <2> QED BY <1>0, <1>4, <2>2 DEF SignUpButton, SessionTyped, serverVars, menuVars
<1>5. CASE Back
  <2>1. stack \in Seq(Screen) /\ stack # <<>> /\ stack' = Front(stack)
    BY <1>5 DEF Back, OnTop, SessionTyped
  <2>2. stack' \in Seq(Screen)
    BY <2>1, FrontType
  <2> QED BY <1>0, <1>5, <2>2 DEF Back, SessionTyped, serverVars, menuVars
<1>6. CASE HandleMenuToggle
  <2>1. (~expanded) \in BOOLEAN
    OBVIOUS
  <2>2. expanded' \in BOOLEAN
    BY <1>6, <2>1 DEF HandleMenuToggle
  <2> QED BY <1>0, <1>6, <2>2 DEF HandleMenuToggle, SessionTyped, serverVars
<1>7. ASSUME NEW option \in MenuOptions, SelectRow(option) PROVE SessionTyped'
  <2>1. [from |-> Last(stack).id, option |-> option] \in Choice
    BY <1>7, TopShown DEF SelectRow, Choice
  <2>2. choices' \in Seq(Choice)
    BY <1>7, <2>1, AppendProperties DEF SelectRow, SessionTyped
  <2> QED BY <1>0, <1>7, <2>2 DEF SelectRow, SessionTyped, serverVars
<1>8. CASE LeaveScreen
  <2>1. bound \in exists
    BY <1>8 DEF LeaveScreen, BoundKnown, SessionTyped
  <2>2. used' \subseteq Account
    BY <1>8, <2>1 DEF LeaveScreen, SessionTyped
  <2>3. modal' \in BOOLEAN
    BY <1>8 DEF LeaveScreen
  <2> QED BY <1>0, <1>8, <2>2, <2>3 DEF LeaveScreen, SessionTyped
<1> QED BY <1>2, <1>3, <1>4, <1>5, <1>6, <1>7, <1>8 DEF User

\* An answer joins the queue of the main thread.
LEMMA QueuedTyped ==
    ASSUME SessionTyped, NEW a \in Answer, main' = Append(main, a)
    PROVE  /\ main' \in Seq(Answer) /\ main' # <<>>
           /\ \A k \in 1 .. Len(main') :
                 (k \in 1 .. Len(main) /\ main'[k] = main[k]) \/ main'[k] = a
           /\ main = <<>> => main' = <<a>>
<1>1. main \in Seq(Answer) /\ Len(main) \in Nat
  BY LenProperties DEF SessionTyped
<1>2. /\ main' \in Seq(Answer) /\ main' # <<>> /\ Len(main') = Len(main) + 1
      /\ \A k \in 1 .. Len(main) : main'[k] = main[k]
      /\ main'[Len(main) + 1] = a
  BY <1>1, AppendProperties
<1>3. \A k \in 1 .. Len(main) + 1 : k \in 1 .. Len(main) \/ k = Len(main) + 1
  BY <1>1
<1>4. main = <<>> => main' = <<a>>
  BY OneInLine
<1> QED BY <1>2, <1>3, <1>4

\* The request that is answered.
LEMMA RequestTyped ==
    ASSUME SessionTyped, NEW k \in DOMAIN requests, NEW ok \in BOOLEAN
    PROVE  /\ requests[k] \in Request /\ requests[k].of \in Account /\ RemoveAt(requests, k) \in Seq(Request)
           /\ [op |-> requests[k].op, from |-> requests[k].from, ok |-> ok] \in Answer
<1>1. requests \in Seq(Request)
  BY DEF SessionTyped
<1>2. requests[k] \in Request
  BY <1>1, ElementOfSeq, LenProperties
<1>3. RemoveAt(requests, k) \in Seq(Request)
  BY <1>1, RemoveAtType
<1>4. /\ requests[k].op \in {"signIn", "create", "added"} /\ requests[k].from \in Nat
      /\ requests[k].of \in Account
  BY <1>2 DEF Request
<1> QED BY <1>2, <1>3, <1>4, AnswersTyped

LEMMA ProcessTyped ==
    ASSUME SessionTyped, Process, UNCHANGED hasty
    PROVE  SessionTyped'
<1>1. ASSUME NEW k \in DOMAIN requests, Succeeds(k) PROVE SessionTyped'
  <2> DEFINE a == [op |-> requests[k].op, from |-> requests[k].from, ok |-> TRUE]
  <2>1. /\ requests' = RemoveAt(requests, k) /\ current' = requests[k].of
        /\ exists' = exists \cup {requests[k].of} /\ main' = Append(main, a)
    BY <1>1 DEF Succeeds
  <2>2. a \in Answer /\ requests' \in Seq(Request) /\ requests[k].of \in Account
    BY <2>1, RequestTyped
  <2>3. main' \in Seq(Answer)
    BY <2>1, <2>2, QueuedTyped
  <2> HIDE DEF a
  <2> QED BY <1>1, <2>1, <2>2, <2>3 DEF Succeeds, SessionTyped, menuVars
<1>2. ASSUME NEW k \in DOMAIN requests, Fails(k) PROVE SessionTyped'
  <2> DEFINE a == [op |-> requests[k].op, from |-> requests[k].from, ok |-> FALSE]
  <2>1. /\ requests' = RemoveAt(requests, k) /\ main' = Append(main, a)
        /\ exists' = exists \/ exists' = exists \cup {requests[k].of}
    BY <1>2 DEF Fails
  <2>2. a \in Answer /\ requests' \in Seq(Request) /\ requests[k].of \in Account
    BY <2>1, RequestTyped
  <2>3. main' \in Seq(Answer)
    BY <2>1, <2>2, QueuedTyped
  <2>4. /\ exists' \subseteq Account /\ current' \in exists' \cup {Nobody}
        /\ bound' \in exists' \cup {Unbound, Nobody}
    BY <1>2, <2>1, <2>2 DEF Fails, SessionTyped
  <2> HIDE DEF a
  <2> QED BY <1>2, <2>2, <2>3, <2>4 DEF Fails, SessionTyped, menuVars
<1>3. CASE BlankAnswered
  <2>1. Head(blanks) \in Nat /\ blanks' \in Seq(Nat)
    BY <1>3, HeadTailProperties DEF BlankAnswered, SessionTyped
  <2>2. PICK ok \in BOOLEAN : main' = Append(main, [op |-> "added", from |-> Head(blanks), ok |-> ok])
    BY <1>3 DEF BlankAnswered
  <2>3. [op |-> "added", from |-> Head(blanks), ok |-> ok] \in Answer
    BY <2>1, AnswersTyped
  <2>4. main' \in Seq(Answer)
    BY <2>2, <2>3, QueuedTyped
  <2> QED BY <1>3, <2>1, <2>4 DEF BlankAnswered, SessionTyped, serverVars, menuVars
<1>4. ASSUME NEW op, IsNext(op) PROVE main' \in Seq(Answer) /\ Head(main) \in Answer
  BY <1>4, AnswerHead DEF IsNext
<1>5. ASSUME main' \in Seq(Answer), UNCHANGED <<serverVars, current, requests, blanks>>,
             Push \/ UNCHANGED <<bound, stack, made, menuVars, crashed>>
      PROVE  SessionTyped'
  <2>1. CASE Push
    BY <1>5, <2>1, PushTyped DEF SessionTyped, serverVars
  <2>2. CASE UNCHANGED <<bound, stack, made, menuVars, crashed>>
    BY <1>5, <2>2 DEF SessionTyped, serverVars, menuVars
  <2> QED BY <1>5, <2>1, <2>2
<1>6. CASE SignedIn \/ Added
  BY <1>4, <1>5, <1>6 DEF SignedIn, Added
<1>7. CASE Created
  <2>1. main' \in Seq(Answer) /\ Head(main).from \in Nat
    BY <1>4, <1>7 DEF Created, Answer
  <2>2. used' \subseteq Account /\ blanks' \in Seq(Nat) /\ crashed' \in BOOLEAN
    <3>1. CASE UNCHANGED <<used, blanks, crashed>>
      BY <3>1 DEF SessionTyped
    <3>2. CASE AddUserItems(current)
      <4>1. blanks' = blanks \/ blanks' = Append(blanks, Head(main).from)
        BY <3>2 DEF AddUserItems
      <4>2. blanks' \in Seq(Nat)
        <5>1. blanks \in Seq(Nat)
          BY DEF SessionTyped
        <5>2. Append(blanks, Head(main).from) \in Seq(Nat)
          BY <2>1, <5>1, AppendProperties
        <5> QED BY <4>1, <5>1, <5>2
      <4>3. crashed' \in BOOLEAN
        BY <3>2 DEF AddUserItems, SessionTyped
      <4>4. used' \subseteq Account
        BY <3>2 DEF AddUserItems, SessionTyped
      <4> QED BY <4>2, <4>3, <4>4
    <3> QED BY <1>7, <3>1, <3>2 DEF Created
  <2> QED BY <1>7, <2>1, <2>2 DEF Created, SessionTyped, menuVars
<1>8. ASSUME NEW options, Collapsed(options) PROVE choices' \in Seq(Choice)
  BY <1>8, ChoiceHead DEF Collapsed
<1>9. CASE OpenScreen
  <2>1. (modal \/ (OnTop("container") /\ Last(stack).id = Head(choices).from)) \in BOOLEAN
    OBVIOUS
  <2>2. modal' \in BOOLEAN
    BY <1>9, <2>1 DEF OpenScreen
  <2>3. choices' \in Seq(Choice)
    BY <1>8, <1>9 DEF OpenScreen
  <2> QED BY <1>9, <2>2, <2>3 DEF OpenScreen, Collapsed, SessionTyped, serverVars
<1>10. CASE Exit \/ ExitFails
  <2>1. stack' \in Seq(Screen) /\ current' \in {current, Nobody} /\ modal' = modal
    BY <1>10, EmptySeq DEF Exit, ExitFails, SessionTyped
  <2>2. choices' \in Seq(Choice)
    BY <1>8, <1>10 DEF Exit, ExitFails
  <2>3. Collapsed({"Exit"})
    BY <1>10 DEF Exit, ExitFails
  <2> QED BY <2>1, <2>2, <2>3 DEF Collapsed, SessionTyped, serverVars
<1>11. CASE GatePresents
  BY <1>11 DEF GatePresents, SessionTyped, serverVars
<1> QED BY <1>1, <1>2, <1>3, <1>6, <1>7, <1>9, <1>10, <1>11 DEF Process

LEMMA RestartTyped == ASSUME SessionTyped, Restart PROVE SessionTyped'
<1>1. PICK ks \in SUBSET {k \in DOMAIN requests : requests[k].op = "create"} :
          exists' = exists \cup {requests[k].of : k \in ks}
  BY DEF Restart
<1>2. \A k \in DOMAIN requests : requests[k].of \in Account
  BY RequestTyped
<1>3. exists' \subseteq Account /\ exists \subseteq exists'
  BY <1>1, <1>2 DEF SessionTyped
<1> QED BY <1>3, EmptySeq DEF Restart, SessionTyped

-----------------------------------------------------------------------------
(* Whatever is tapped when *)

LEMMA InitSession == ASSUME SessionInit PROVE SessionInv
<1>1. SessionTyped
  BY EmptySeq DEF SessionInit, SessionTyped
<1>2. Len(stack) = 0 /\ Len(main) = 0 /\ ~HasContainer
  BY DEF SessionInit, HasContainer
<1>3. bound # Nobody
  BY SessionAssumption DEF SessionInit
<1>4. CreationFresh
  BY EmptyDomain DEF SessionInit, CreationFresh, Creating, Crossing
<1> QED BY <1>1, <1>2, <1>3, <1>4
        DEF SessionInit, SessionInv, BoundKnown, SignUpFirst, Calm, RequestAlone, BlankAlone, AnswerAlone,
            ChoiceAlone, ContainerOnTop

LEMMA UserBound == ASSUME SessionTyped, BoundKnown, User PROVE BoundKnown'
<1>1. ASSUME NEW a \in Account, SignInButton(a) \/ NextButton(a) PROVE BoundKnown'
  BY <1>1 DEF SignInButton, NextButton, BoundKnown, HasContainer, serverVars, menuVars
<1>2. CASE SignUpButton
  <2>1. stack' = <<[kind |-> "signUp", id |-> made + 1]>>
    BY <1>2 DEF SignUpButton
  <2>2. Len(stack') = 1 /\ stack'[1].kind = "signUp"
    BY <2>1
  <2>3. ~HasContainer'
    BY <2>2 DEF HasContainer
  <2> QED BY <1>2, <2>3 DEF SignUpButton, BoundKnown, serverVars, menuVars
<1>3. CASE Back
  <2>1. stack \in Seq(Screen) /\ stack # <<>> /\ stack' = Front(stack)
    BY <1>3 DEF Back, OnTop, SessionTyped
  <2>2. \A k \in 1 .. Len(stack') : k \in 1 .. Len(stack) /\ stack'[k] = stack[k]
    BY <2>1, FrontType
  <2>3. HasContainer' => HasContainer
    BY <2>2 DEF HasContainer
  <2> QED BY <1>3, <2>3 DEF Back, BoundKnown, serverVars, menuVars
<1>4. CASE HandleMenuToggle
  BY <1>4 DEF HandleMenuToggle, BoundKnown, HasContainer, serverVars
<1>5. ASSUME NEW option \in MenuOptions, SelectRow(option) PROVE BoundKnown'
  <2>1. HasContainer
    BY <1>5, TopShown DEF SelectRow
  <2> QED BY <1>5, <2>1 DEF SelectRow, BoundKnown, HasContainer, serverVars
<1>6. CASE LeaveScreen
  <2>1. bound \in exists /\ bound # Unbound
    BY <1>6 DEF LeaveScreen, BoundKnown, SessionTyped
  <2> QED BY <1>6, <2>1 DEF LeaveScreen, BoundKnown, HasContainer
<1> QED BY <1>1, <1>2, <1>3, <1>4, <1>5, <1>6 DEF User

LEMMA ProcessBound == ASSUME SessionTyped, BoundKnown, Process PROVE BoundKnown'
<1>1. ASSUME NEW k \in DOMAIN requests, Succeeds(k) PROVE BoundKnown'
  <2>1. current' = requests[k].of /\ requests[k].of \in Account /\ current' # Nobody
    BY <1>1, RequestTyped, SessionAssumption DEF Succeeds
  <2> QED BY <1>1, <2>1 DEF Succeeds, BoundKnown, HasContainer, menuVars
<1>2. ASSUME NEW k \in DOMAIN requests, Fails(k) PROVE BoundKnown'
  <2> DEFINE a == [op |-> requests[k].op, from |-> requests[k].from, ok |-> FALSE]
  <2>1. a \in Answer /\ main' = Append(main, a) /\ ~a.ok
    BY <1>2, RequestTyped DEF Fails
  <2>2. \A i \in 1 .. Len(main') :
           (i \in 1 .. Len(main) /\ main'[i] = main[i]) \/ main'[i] = a
    BY <2>1, QueuedTyped
  <2>3. (\E i \in 1 .. Len(main') : main'[i].ok) => \E i \in 1 .. Len(main) : main[i].ok
    BY <2>1, <2>2
  <2>4. exists \subseteq exists'
    BY <1>2 DEF Fails
  <2> HIDE DEF a
  <2> QED BY <1>2, <2>3, <2>4 DEF Fails, BoundKnown, HasContainer, menuVars
<1>3. CASE BlankAnswered
  BY <1>3 DEF BlankAnswered, BoundKnown, HasContainer, serverVars, menuVars
<1>4. ASSUME NEW op, IsNext(op)
      PROVE  /\ (\E k \in 1 .. Len(main') : main'[k].ok) => \E k \in 1 .. Len(main) : main[k].ok
             /\ Head(main).ok => \E k \in 1 .. Len(main) : main[k].ok
  <2>1. main # <<>> /\ main' = Tail(main)
    BY <1>4 DEF IsNext
  <2> QED BY <2>1, AnswerHead
<1>5. ASSUME (\E k \in 1 .. Len(main') : main'[k].ok) => \E k \in 1 .. Len(main) : main[k].ok,
             UNCHANGED <<serverVars, current, requests, blanks>>,
             \/ Push /\ \E k \in 1 .. Len(main) : main[k].ok
             \/ UNCHANGED <<bound, stack, made, menuVars, crashed>>
      PROVE  BoundKnown'
  <2>1. CASE Push /\ \E k \in 1 .. Len(main) : main[k].ok
    <3>1. bound' # Unbound /\ bound' # Nobody
      BY <2>1, PushTyped DEF BoundKnown
    <3> QED BY <1>5, <3>1 DEF BoundKnown, serverVars
  <2>2. CASE UNCHANGED <<bound, stack, made, menuVars, crashed>>
    BY <1>5, <2>2 DEF BoundKnown, HasContainer, serverVars, menuVars
  <2> QED BY <1>5, <2>1, <2>2
<1>6. CASE SignedIn \/ Added
  <2>1. \/ Push /\ \E k \in 1 .. Len(main) : main[k].ok
        \/ UNCHANGED <<bound, stack, made, menuVars, crashed>>
    BY <1>4, <1>6 DEF SignedIn, Added
  <2>2. (\E k \in 1 .. Len(main') : main'[k].ok) => \E k \in 1 .. Len(main) : main[k].ok
    BY <1>4, <1>6 DEF SignedIn, Added
  <2>3. UNCHANGED <<serverVars, current, requests, blanks>>
    BY <1>6 DEF SignedIn, Added
  <2> QED BY <1>5, <2>1, <2>2, <2>3
<1>7. CASE Created
  <2>1. /\ (\E k \in 1 .. Len(main') : main'[k].ok) => \E k \in 1 .. Len(main) : main[k].ok
        /\ Head(main).ok => \E k \in 1 .. Len(main) : main[k].ok
    BY <1>4, <1>7 DEF Created
  <2>2. UNCHANGED <<exists, current, bound, stack, choices, modal>>
    BY <1>7 DEF Created, menuVars
  <2>3. CASE UNCHANGED <<used, blanks, crashed>>
    BY <2>1, <2>2, <2>3 DEF BoundKnown, HasContainer
  <2>4. CASE Head(main).ok /\ AddUserItems(current)
    <3>1. used' \subseteq used
      BY <2>4 DEF AddUserItems
    <3> QED BY <2>1, <2>2, <2>4, <3>1 DEF BoundKnown, HasContainer
  <2> QED BY <1>7, <2>3, <2>4 DEF Created
<1>8. CASE OpenScreen
  <2>1. modal' => modal \/ HasContainer
    BY <1>8, TopShown DEF OpenScreen
  <2>2. /\ UNCHANGED <<exists, used, bound, blanks, main, current, stack>> /\ choices # <<>>
    BY <1>8 DEF OpenScreen, Collapsed, serverVars
  <2> QED BY <2>1, <2>2 DEF BoundKnown, HasContainer
<1>9. CASE Exit \/ ExitFails
  <2>1. UNCHANGED <<exists, used, bound, modal>> /\ choices # <<>>
    BY <1>9 DEF Exit, ExitFails, Collapsed, serverVars
  <2> QED BY <2>1 DEF BoundKnown
<1>10. CASE GatePresents
  <2>1. HasContainer
    BY <1>10, TopShown DEF GatePresents
  <2> QED BY <1>10, <2>1 DEF GatePresents, BoundKnown, HasContainer, serverVars
<1> QED BY <1>1, <1>2, <1>3, <1>6, <1>7, <1>8, <1>9, <1>10 DEF Process

LEMMA RestartBound == ASSUME SessionTyped, BoundKnown, Restart PROVE BoundKnown'
<1>1. exists \subseteq exists'
  BY DEF Restart
<1>2. Len(stack') = 0 /\ Len(main') = 0 /\ bound' # Nobody
  BY SessionAssumption DEF Restart
<1>3. ~HasContainer'
  BY <1>2 DEF HasContainer
<1> QED BY <1>1, <1>2, <1>3 DEF Restart, BoundKnown

-----------------------------------------------------------------------------
(* While users wait *)

\* There is one sign-up screen at most, the first.
LEMMA SignUpFirstStep ==
    ASSUME SessionTyped, SignUpFirst, SessionNext
    PROVE  SignUpFirst'
<1>1. \/ UNCHANGED stack \/ stack' = <<>>
      \/ stack' = <<[kind |-> "signUp", id |-> made + 1]>>
      \/ stack' = Front(stack) /\ stack # <<>>
      \/ Push
  BY DEF SessionNext, User, Process, SignInButton, NextButton, SignUpButton, Back, OnTop,
         HandleMenuToggle, SelectRow, LeaveScreen, Succeeds, Fails, BlankAnswered, SignedIn,
         Created, Added, OpenScreen, Exit, ExitFails, GatePresents, Restart
<1>2. CASE UNCHANGED stack
  BY <1>2 DEF SignUpFirst
<1>3. CASE stack' = <<>>
  <2>1. Len(stack') = 0
    BY <1>3
  <2> QED BY <2>1 DEF SignUpFirst
<1>4. CASE stack' = <<[kind |-> "signUp", id |-> made + 1]>>
  <2>1. Len(stack') = 1
    BY <1>4
  <2> QED BY <2>1 DEF SignUpFirst
<1>5. CASE stack' = Front(stack) /\ stack # <<>>
  <2>1. \A k \in 1 .. Len(stack') : k \in 1 .. Len(stack) /\ stack'[k] = stack[k]
    BY <1>5, FrontType DEF SessionTyped
  <2> QED BY <2>1 DEF SignUpFirst
<1>6. CASE Push
  <2> DEFINE new == [kind |-> "container", id |-> made + 1]
  <2>1. stack \in Seq(Screen) /\ Len(stack) \in Nat /\ new \in Screen /\ stack' = Append(stack, new)
    BY <1>6, PushTyped, LenProperties DEF SessionTyped
  <2>2. /\ Len(stack') = Len(stack) + 1 /\ stack'[Len(stack) + 1].kind = "container"
        /\ \A k \in 1 .. Len(stack) : stack'[k] = stack[k]
    BY <2>1, AppendProperties
  <2>3. \A k \in 1 .. Len(stack) + 1 : k \in 1 .. Len(stack) \/ k = Len(stack) + 1
    BY <2>1
  <2> QED BY <2>2, <2>3 DEF SignUpFirst
<1> QED BY <1>1, <1>2, <1>3, <1>4, <1>5, <1>6

LEMMA NothingUnderWay ==
    ASSUME requests = <<>>, blanks = <<>>, main = <<>>, choices = <<>>
    PROVE  RequestAlone /\ BlankAlone /\ AnswerAlone /\ ChoiceAlone
BY DEF RequestAlone, BlankAlone, AnswerAlone, ChoiceAlone

\* A tap when nothing is under way.
LEMMA UserCalm ==
    ASSUME SessionTyped, Calm, SignUpFirst, User,
           requests = <<>>, blanks = <<>>, main = <<>>, choices = <<>>
    PROVE  Calm'
<1>1. ASSUME NEW op \in {"signIn", "create"}, NEW a \in Account, NEW from \in Nat, Ask(op, a, from),
             UNCHANGED <<serverVars, current, bound, blanks, main, stack, made, menuVars, crashed>>,
             Asked(op, from)
      PROVE  Calm'
  <2> DEFINE r == [op |-> op, of |-> a, from |-> from]
  <2>1. r \in Request /\ r.op = op /\ r.from = from
    BY DEF Request
  <2>2. requests' = <<r>> /\ blanks' = <<>> /\ main' = <<>> /\ choices' = <<>>
    <3>1. Append(<<>>, r) = <<r>>
      BY <2>1, OneInLine
    <3> QED BY <1>1, <3>1 DEF Ask, menuVars
  <2>3. Asked(op, from)'
    BY <1>1 DEF Asked
  <2>4. RequestAlone'
    BY <2>1, <2>2, <2>3 DEF RequestAlone
  <2>5. ContainerOnTop'
    BY <1>1 DEF Calm, ContainerOnTop
  <2> QED BY <2>2, <2>4, <2>5 DEF Calm, BlankAlone, AnswerAlone, ChoiceAlone
<1>2. ASSUME NEW a \in Account, SignInButton(a) PROVE Calm'
  <2>1. Login \in Nat /\ Asked("signIn", Login)
    BY <1>2 DEF SignInButton, Asked, Login
  <2> QED BY <1>1, <1>2, <2>1 DEF SignInButton
<1>3. ASSUME NEW a \in Account, NextButton(a) PROVE Calm'
  <2>1. /\ Last(stack) \in Screen /\ Last(stack).kind = "signUp" /\ Last(stack).id \in Nat
        /\ Len(stack) \in 1 .. Len(stack) /\ stack[Len(stack)] = Last(stack)
    BY <1>3, TopShown DEF NextButton
  <2>2. Len(stack) = 1
    BY <2>1 DEF SignUpFirst
  <2>3. stack = <<Last(stack)>>
    <3>1. stack \in Seq(Screen)
      BY DEF SessionTyped
    <3>2. stack[1] = Last(stack)
      BY <2>1, <2>2
    <3>3. <<Last(stack)>> \in Seq(Screen) /\ Len(<<Last(stack)>>) = 1
          /\ <<Last(stack)>>[1] = Last(stack)
      BY <2>1, OneInLine
    <3> QED BY <2>2, <3>1, <3>2, <3>3, SeqEqual
  <2>4. Last(stack) = [kind |-> "signUp", id |-> Last(stack).id]
    BY <2>1 DEF Screen
  <2>5. Asked("create", Last(stack).id)
    BY <2>3, <2>4 DEF Asked
  <2> QED BY <1>1, <1>3, <2>1, <2>5 DEF NextButton
<1>4. CASE SignUpButton
  <2>1. stack' = <<[kind |-> "signUp", id |-> made + 1]>>
    BY <1>4 DEF SignUpButton
  <2>2. Len(stack') = 1 /\ stack'[1].kind = "signUp"
    BY <2>1
  <2>3. ContainerOnTop'
    BY <2>2 DEF ContainerOnTop
  <2> QED BY <1>4, <2>3, NothingUnderWay
          DEF SignUpButton, Calm, RequestAlone, BlankAlone, AnswerAlone, ChoiceAlone, menuVars
<1>5. CASE Back
  <2>1. stack \in Seq(Screen) /\ stack # <<>> /\ stack' = Front(stack) /\ current' = current
    BY <1>5 DEF Back, OnTop, SessionTyped
  <2>2. /\ Len(stack') = Len(stack) - 1 /\ Len(stack) \in Nat \ {0}
        /\ \A k \in 1 .. Len(stack') : k \in 1 .. Len(stack) /\ stack'[k] = stack[k]
    BY <2>1, FrontType
  <2>3. ASSUME NEW k \in 1 .. Len(stack') PROVE stack'[k].kind # "container"
    <3>1. k # Len(stack)
      BY <2>2
    <3> QED BY <2>2, <3>1 DEF Calm, ContainerOnTop
  <2>4. ContainerOnTop'
    BY <2>3 DEF ContainerOnTop
  <2> QED BY <1>5, <2>4
          DEF Back, Calm, RequestAlone, BlankAlone, AnswerAlone, ChoiceAlone, menuVars
<1>6. CASE HandleMenuToggle \/ LeaveScreen
  <2>1. UNCHANGED <<requests, blanks, main, choices, stack, current>>
    BY <1>6 DEF HandleMenuToggle, LeaveScreen
  <2>2. ContainerOnTop'
    BY <2>1 DEF Calm, ContainerOnTop
  <2> QED BY <2>1, <2>2 DEF Calm, RequestAlone, BlankAlone, AnswerAlone, ChoiceAlone
<1>7. ASSUME NEW option \in MenuOptions, SelectRow(option) PROVE Calm'
  <2> DEFINE c == [from |-> Last(stack).id, option |-> option]
  <2>1. c \in Choice /\ c.from = Last(stack).id
    BY <1>7, TopShown DEF SelectRow, Choice
  <2>2. choices' = <<c>> /\ UNCHANGED <<requests, blanks, main, stack, current>>
    <3>1. Append(<<>>, c) = <<c>>
      BY <2>1, OneInLine
    <3> QED BY <1>7, <3>1 DEF SelectRow
  <2>3. OnTop("container")' /\ Last(stack)' = Last(stack)
    BY <1>7, <2>2 DEF SelectRow, OnTop
  <2>4. ChoiceAlone'
    BY <2>1, <2>2, <2>3 DEF ChoiceAlone
  <2>5. ContainerOnTop'
    BY <2>2 DEF Calm, ContainerOnTop
  <2> QED BY <2>2, <2>4, <2>5 DEF Calm, RequestAlone, BlankAlone, AnswerAlone
<1> QED BY <1>2, <1>3, <1>4, <1>5, <1>6, <1>7 DEF User

\* The first container over a login or a sign-up screen is on top.
LEMMA PushOnTop ==
    ASSUME SessionTyped, Push, ~HasContainer, current' # Nobody
    PROVE  ContainerOnTop'
<1> DEFINE new == [kind |-> "container", id |-> made + 1]
<1>1. stack \in Seq(Screen) /\ Len(stack) \in Nat /\ new \in Screen /\ stack' = Append(stack, new)
  BY PushTyped, LenProperties DEF SessionTyped
<1>2. Len(stack') = Len(stack) + 1 /\ \A k \in 1 .. Len(stack) : stack'[k] = stack[k]
  BY <1>1, AppendProperties
<1>3. \A k \in 1 .. Len(stack) + 1 : k \in 1 .. Len(stack) \/ k = Len(stack) + 1
  BY <1>1
<1> QED BY <1>2, <1>3 DEF ContainerOnTop, HasContainer

LEMMA AnswerCalm ==
    ASSUME SessionTyped, BoundKnown, Calm, NEW k \in DOMAIN requests, NEW ok \in BOOLEAN,
           requests' = RemoveAt(requests, k),
           main' = Append(main, [op |-> requests[k].op, from |-> requests[k].from, ok |-> ok]),
           ok => current' # Nobody,
           UNCHANGED <<blanks, stack, menuVars>>
    PROVE  Calm'
<1> DEFINE a == [op |-> requests[k].op, from |-> requests[k].from, ok |-> ok]
<1>1. requests \in Seq(Request) /\ requests # <<>>
  BY DEF SessionTyped
<1>2. PICK r \in Request : /\ requests = <<r>> /\ blanks = <<>> /\ main = <<>> /\ choices = <<>>
                           /\ Asked(r.op, r.from)
  BY <1>1 DEF Calm, RequestAlone
<1>3. Len(requests) = 1 /\ k = 1 /\ requests[k] = r
  BY <1>2
<1>4. requests' = <<>>
  BY <1>1, <1>3, RemoveAtType
<1>5. a \in Answer /\ main' = <<a>> /\ a.op = r.op /\ a.from = r.from /\ a.ok = ok
  <2>1. a \in Answer
    BY RequestTyped
  <2>2. main' = <<a>>
    BY <1>2, <2>1, QueuedTyped
  <2> QED BY <1>3, <2>1, <2>2
<1>6. Asked(r.op, r.from)' /\ ~HasContainer /\ r.op # "added"
  BY <1>2, AskedNoContainer DEF Asked, Request
<1> HIDE DEF a
<1>7. AnswerAlone'
  BY <1>2, <1>3, <1>4, <1>5, <1>6 DEF AnswerAlone, menuVars
<1>8. ContainerOnTop'
  BY <1>6 DEF ContainerOnTop, HasContainer
<1> QED BY <1>2, <1>4, <1>5, <1>7, <1>8 DEF Calm, RequestAlone, BlankAlone, ChoiceAlone, menuVars

LEMMA ProcessCalm ==
    ASSUME SessionTyped, BoundKnown, Calm, Process
    PROVE  Calm'
<1>1. ASSUME NEW k \in DOMAIN requests, Succeeds(k) PROVE Calm'
  <2>1. current' = requests[k].of /\ requests[k].of \in Account /\ current' # Nobody
    BY <1>1, RequestTyped, SessionAssumption DEF Succeeds
  <2> QED BY <1>1, <2>1, AnswerCalm DEF Succeeds
<1>2. ASSUME NEW k \in DOMAIN requests, Fails(k) PROVE Calm'
  BY <1>2, AnswerCalm DEF Fails
<1>3. CASE BlankAnswered
  <2>1. PICK i \in Nat : /\ blanks = <<i>> /\ requests = <<>> /\ main = <<>> /\ choices = <<>>
                         /\ Asked("create", i) /\ current # Nobody
    BY <1>3 DEF BlankAnswered, Calm, BlankAlone
  <2>2. Head(blanks) = i /\ blanks' = <<>>
    BY <1>3, <2>1 DEF BlankAnswered
  <2>3. PICK ok \in BOOLEAN : main' = Append(main, [op |-> "added", from |-> Head(blanks), ok |-> ok])
    BY <1>3 DEF BlankAnswered
  <2> DEFINE a == [op |-> "added", from |-> i, ok |-> ok]
  <2>4. a \in Answer /\ main' = <<a>> /\ a.op = "added" /\ a.from = i
    <3>1. a \in Answer
      BY AnswersTyped
    <3> QED BY <2>1, <2>2, <2>3, <3>1, QueuedTyped
  <2>5. UNCHANGED <<stack, requests, choices, current>>
    BY <1>3 DEF BlankAnswered, menuVars
  <2>6. Asked("added", i)'
    BY <2>1, <2>5 DEF Asked
  <2> HIDE DEF a
  <2>7. AnswerAlone'
    BY <2>1, <2>2, <2>4, <2>5, <2>6 DEF AnswerAlone
  <2>8. ContainerOnTop'
    BY <2>5 DEF Calm, ContainerOnTop
  <2> QED BY <2>1, <2>2, <2>4, <2>5, <2>7, <2>8
          DEF Calm, RequestAlone, BlankAlone, ChoiceAlone
<1>4. ASSUME NEW op, IsNext(op)
      PROVE  /\ requests = <<>> /\ blanks = <<>> /\ choices = <<>> /\ main' = <<>>
             /\ Head(main) \in Answer /\ Head(main).op = op
             /\ Asked(op, Head(main).from) /\ ~HasContainer
             /\ Head(main).ok \/ op = "added" => current # Nobody
  <2>1. main # <<>> /\ Head(main).op = op /\ main' = Tail(main)
    BY <1>4 DEF IsNext
  <2>2. PICK a \in Answer :
            /\ main = <<a>> /\ requests = <<>> /\ blanks = <<>> /\ choices = <<>>
            /\ Asked(a.op, a.from)
            /\ a.ok \/ a.op = "added" => current # Nobody
    BY <2>1 DEF Calm, AnswerAlone
  <2>3. Head(main) = a /\ main' = <<>>
    BY <2>1, <2>2
  <2> QED BY <2>1, <2>2, <2>3, AskedNoContainer
<1>5. CASE SignedIn \/ Added
  <2>1. requests = <<>> /\ blanks = <<>> /\ choices = <<>> /\ main' = <<>> /\ ~HasContainer
    BY <1>4, <1>5 DEF SignedIn, Added
  <2>2. UNCHANGED <<current, requests, blanks>>
    BY <1>5 DEF SignedIn, Added
  <2>3. \/ Push /\ current # Nobody
        \/ UNCHANGED <<bound, stack, made, menuVars, crashed>>
    BY <1>4, <1>5 DEF SignedIn, Added
  <2>4. choices' = <<>>
    BY <2>1, <2>3 DEF Push, menuVars
  <2>5. ContainerOnTop'
    <3>1. CASE Push /\ current # Nobody
      BY <2>1, <2>2, <3>1, PushOnTop
    <3>2. CASE UNCHANGED <<bound, stack, made, menuVars, crashed>>
      BY <2>1, <3>2 DEF ContainerOnTop, HasContainer
    <3> QED BY <2>3, <3>1, <3>2
  <2> QED BY <2>1, <2>2, <2>4, <2>5 DEF Calm, RequestAlone, BlankAlone, AnswerAlone, ChoiceAlone
<1>6. CASE Created
  <2>0. IsNext("create")
    BY <1>6 DEF Created
  <2>1. /\ requests = <<>> /\ blanks = <<>> /\ choices = <<>> /\ main' = <<>> /\ ~HasContainer
        /\ Head(main) \in Answer /\ Asked("create", Head(main).from)
        /\ Head(main).ok => current # Nobody
    BY <1>4, <2>0
  <2>2. UNCHANGED <<requests, choices, stack, current>>
    BY <1>6 DEF Created, menuVars
  <2>3. ContainerOnTop'
    BY <2>1, <2>2 DEF ContainerOnTop, HasContainer
  <2>4. CASE blanks' = <<>>
    BY <2>1, <2>2, <2>3, <2>4 DEF Calm, RequestAlone, BlankAlone, AnswerAlone, ChoiceAlone
  <2>5. CASE Head(main).ok /\ blanks' = Append(blanks, Head(main).from)
    <3>1. Head(main).from \in Nat
      BY <2>1 DEF Answer
    <3>2. blanks' = <<Head(main).from>>
      BY <2>1, <2>5, <3>1, OneInLine
    <3>3. PICK i \in Nat : blanks' = <<i>> /\ Asked("create", i) /\ current' # Nobody
      BY <2>1, <2>2, <2>5, <3>1, <3>2
    <3>5. Asked("create", i)'
      BY <2>2, <3>3 DEF Asked
    <3>4. BlankAlone'
      BY <2>1, <2>2, <3>3, <3>5 DEF BlankAlone
    <3> QED BY <2>1, <2>2, <2>3, <3>4 DEF Calm, RequestAlone, AnswerAlone, ChoiceAlone
  <2>6. blanks' = blanks \/ (Head(main).ok /\ blanks' = Append(blanks, Head(main).from))
    BY <1>6 DEF Created, AddUserItems
  <2> QED BY <2>1, <2>4, <2>5, <2>6
<1>7. CASE OpenScreen \/ Exit \/ ExitFails
  <2>1. choices # <<>> /\ choices' = Tail(choices) /\ UNCHANGED <<requests, blanks, main>>
    BY <1>7 DEF OpenScreen, Exit, ExitFails, Collapsed
  <2>2. PICK c \in Choice :
            /\ choices = <<c>> /\ requests = <<>> /\ blanks = <<>> /\ main = <<>>
            /\ OnTop("container") /\ Last(stack).id = c.from
    BY <2>1 DEF Calm, ChoiceAlone
  <2>3. choices' = <<>> /\ Head(choices) = c
    BY <2>1, <2>2
  <2>4. ContainerOnTop'
    <3>1. CASE Exit
      <4>1. Shown(c.from)
        <5>1. Len(stack) \in 1 .. Len(stack) /\ stack[Len(stack)] = Last(stack)
          BY <2>2, TopShown
        <5>2. DOMAIN stack = 1 .. Len(stack)
          BY LenProperties DEF SessionTyped
        <5> QED BY <2>2, <5>1, <5>2 DEF Shown
      <4>2. stack' = <<>>
        BY <2>3, <3>1, <4>1 DEF Exit
      <4>3. Len(stack') = 0
        BY <4>2
      <4> QED BY <4>3 DEF ContainerOnTop
    <3>2. CASE OpenScreen \/ ExitFails
      <4>1. UNCHANGED <<stack, current>>
        BY <3>2 DEF OpenScreen, ExitFails
      <4> QED BY <4>1 DEF Calm, ContainerOnTop
    <3> QED BY <1>7, <3>1, <3>2
  <2> QED BY <2>1, <2>2, <2>3, <2>4 DEF Calm, RequestAlone, BlankAlone, AnswerAlone, ChoiceAlone
<1>8. CASE GatePresents
  <2>1. UNCHANGED <<requests, blanks, main, choices, stack, current>>
    BY <1>8 DEF GatePresents, serverVars
  <2> QED BY <2>1
      DEF Calm, RequestAlone, BlankAlone, AnswerAlone, ChoiceAlone, ContainerOnTop, Asked, OnTop
<1> QED BY <1>1, <1>2, <1>3, <1>5, <1>6, <1>7, <1>8 DEF Process

LEMMA RestartCalm == ASSUME Restart PROVE Calm'
<1>1. Len(stack') = 0
  BY DEF Restart
<1> QED BY <1>1
    DEF Restart, Calm, RequestAlone, BlankAlone, AnswerAlone, ChoiceAlone, ContainerOnTop

-----------------------------------------------------------------------------
(* What a creation may blank *)

\* While no success crosses an answer of a creation, one that waits now has just
\* joined the queue, or waited before.
LEMMA QueuedCreation ==
    ASSUME SessionTyped, NEW a \in Answer, main' = Append(main, a), Creating(main'), ~Crossing(main')
    PROVE  \/ a.op = "create" /\ a.ok
           \/ Creating(main) /\ (a.op = "added" \/ ~a.ok)
<1>1. main \in Seq(Answer) /\ Len(main) \in Nat
  BY LenProperties DEF SessionTyped
<1> DEFINE n == Len(main) + 1
<1>2. /\ main' \in Seq(Answer) /\ Len(main') = n /\ main'[n] = a
      /\ \A i \in 1 .. Len(main) : main'[i] = main[i]
  BY <1>1, AppendProperties
<1>3. DOMAIN main = 1 .. Len(main) /\ DOMAIN main' = 1 .. n
  BY <1>1, <1>2, LenProperties
<1>4. n \in DOMAIN main' /\ \A i \in DOMAIN main : i \in DOMAIN main'
  BY <1>1, <1>3
<1>5. \A i \in DOMAIN main' : i \in DOMAIN main \/ i = n
  BY <1>1, <1>3
<1>6. \A i \in DOMAIN main : main'[i] = main[i]
  BY <1>2, <1>3
<1> HIDE DEF n
<1>7. Creating(main) \/ (a.op = "create" /\ a.ok)
  BY <1>2, <1>5, <1>6 DEF Creating
<1>8. ASSUME Creating(main), a.op = "signIn", a.ok PROVE FALSE
  <2>1. PICK i \in DOMAIN main : main[i].op = "create" /\ main[i].ok
    BY <1>8 DEF Creating
  <2> QED BY <1>2, <1>4, <1>6, <1>8, <2>1 DEF Crossing
<1>9. a.op \in {"signIn", "create", "added"}
  BY DEF Answer
<1> QED BY <1>7, <1>8, <1>9

\* And the answer handled in front of it was a refusal, or of a creation too.
LEMMA HandledBefore ==
    ASSUME SessionTyped, main # <<>>, main' = Tail(main), Creating(main')
    PROVE  Creating(main) /\ (Head(main).ok => Crossing(main) \/ Head(main).op = "create")
<1>1. /\ main' \in Seq(Answer) /\ Head(main) = main[1] /\ 1 \in 1 .. Len(main)
      /\ \A k \in 1 .. Len(main') : k + 1 \in 1 .. Len(main) /\ main'[k] = main[k + 1]
  BY AnswerHead
<1>2. DOMAIN main = 1 .. Len(main) /\ DOMAIN main' = 1 .. Len(main')
  BY <1>1, LenProperties DEF SessionTyped
<1>3. PICK k \in DOMAIN main' : main'[k].op = "create" /\ main'[k].ok
  BY DEF Creating
<1>4. k \in Nat /\ k >= 1
  BY <1>1, <1>2, LenProperties
<1> DEFINE i == k + 1
<1>5. i \in DOMAIN main /\ main[i].op = "create" /\ main[i].ok /\ 1 < i /\ 1 \in DOMAIN main
  BY <1>1, <1>2, <1>3, <1>4
<1>6. Head(main).op \in {"signIn", "create", "added"}
  BY AnswerHead DEF Answer
<1> HIDE DEF i
<1> QED BY <1>1, <1>5, <1>6 DEF Creating, Crossing

\* What no step but those on a queue of answers changes.
LEMMA FreshKept ==
    ASSUME SessionTyped, BoundKnown, CreationFresh, UNCHANGED main, used' = used, bound' = bound,
           current' \in {current, Nobody}, Crosses
    PROVE  CreationFresh'
<1>1. crossed' = (Creating(main) /\ (crossed \/ Crossing(main)))
  BY DEF Crosses
<1>2. Nobody \notin used
  BY SessionAssumption DEF SessionTyped
<1> QED BY <1>1, <1>2 DEF CreationFresh, Creating, Crossing

LEMMA CrossesFresh ==
    ASSUME CreationFresh, Crosses,
           ASSUME Creating(main'), ~Crossing(main'), ~crossed
           PROVE  current' \notin used' /\ (current' = Nobody \/ current' # bound')
    PROVE  CreationFresh'
<1>1. crossed' = (Creating(main') /\ (crossed \/ Crossing(main')))
  BY DEF Crosses
<1>2. crossed' \in BOOLEAN
  <2> DEFINE c == Creating(main') /\ (crossed \/ Crossing(main'))
  <2>1. c \in BOOLEAN
    OBVIOUS
  <2> HIDE DEF c
  <2> QED BY <1>1, <2>1 DEF c
<1>3. Crossing(main') => Creating(main')
  BY DEF Crossing, Creating
<1> QED BY <1>1, <1>2, <1>3 DEF CreationFresh

LEMMA ProcessFresh ==
    ASSUME SessionTyped, BoundKnown, CreationFresh, Process, Crosses
    PROVE  CreationFresh'
<1> DEFINE Fresh == current \notin used /\ (current = Nobody \/ current # bound)
<1>1. ASSUME NEW k \in DOMAIN requests, Succeeds(k) PROVE CreationFresh'
  <2> DEFINE a == [op |-> requests[k].op, from |-> requests[k].from, ok |-> TRUE]
  <2>1. a \in Answer /\ main' = Append(main, a) /\ a.ok /\ a.op = requests[k].op
    BY <1>1, RequestTyped DEF Succeeds
  <2>2. requests[k].op # "added" /\ requests[k].of \in Account
    BY RequestTyped DEF Request
  <2> HIDE DEF a
  <2>3. ASSUME Creating(main'), ~Crossing(main'), ~crossed PROVE Fresh'
    <3>1. requests[k].op = "create"
      BY <2>1, <2>2, <2>3, QueuedCreation
    <3>2. current' = requests[k].of /\ requests[k].of \notin exists /\ used' = used /\ bound' = bound
      BY <1>1, <3>1 DEF Succeeds
    <3> QED BY <2>2, <3>2, SessionAssumption DEF SessionTyped, BoundKnown
  <2> QED BY <2>3, CrossesFresh
<1>2. ASSUME NEW k \in DOMAIN requests, Fails(k) PROVE CreationFresh'
  <2> DEFINE a == [op |-> requests[k].op, from |-> requests[k].from, ok |-> FALSE]
  <2>1. a \in Answer /\ main' = Append(main, a) /\ ~a.ok
    BY <1>2, RequestTyped DEF Fails
  <2> HIDE DEF a
  <2>2. UNCHANGED <<used, bound, current>>
    BY <1>2 DEF Fails
  <2>3. ASSUME Creating(main'), ~Crossing(main'), ~crossed PROVE Fresh'
    BY <2>1, <2>2, <2>3, QueuedCreation DEF CreationFresh
  <2> QED BY <2>3, CrossesFresh
<1>3. CASE BlankAnswered
  <2>1. PICK ok \in BOOLEAN : main' = Append(main, [op |-> "added", from |-> Head(blanks), ok |-> ok])
    BY <1>3 DEF BlankAnswered
  <2> DEFINE a == [op |-> "added", from |-> Head(blanks), ok |-> ok]
  <2>2. a \in Answer /\ main' = Append(main, a) /\ a.op = "added"
    <3>1. Head(blanks) \in Nat
      BY <1>3, HeadTailProperties DEF BlankAnswered, SessionTyped
    <3> QED BY <2>1, <3>1, AnswersTyped
  <2> HIDE DEF a
  <2>3. UNCHANGED <<used, bound, current>>
    BY <1>3 DEF BlankAnswered, serverVars
  <2>4. ASSUME Creating(main'), ~Crossing(main'), ~crossed PROVE Fresh'
    BY <2>2, <2>3, <2>4, QueuedCreation DEF CreationFresh
  <2> QED BY <2>4, CrossesFresh
<1>4. ASSUME NEW op, IsNext(op),
             \/ op # "create" /\ Head(main).ok
             \/ used' \subseteq used /\ UNCHANGED <<bound, current>>
      PROVE  CreationFresh'
  <2>1. main # <<>> /\ main' = Tail(main) /\ Head(main).op = op
    BY <1>4 DEF IsNext
  <2>2. ASSUME Creating(main'), ~Crossing(main'), ~crossed PROVE Fresh'
    <3>1. Creating(main) /\ (Head(main).ok => Crossing(main) \/ op = "create")
      BY <2>1, <2>2, HandledBefore
    <3>2. ~Crossing(main) /\ Fresh
      BY <2>2, <3>1 DEF CreationFresh
    <3> QED BY <1>4, <3>1, <3>2
  <2> QED BY <2>2, CrossesFresh
<1>5. CASE SignedIn \/ Added \/ Created
  <2>1. CASE SignedIn \/ Added
    <3>1. PICK op \in {"signIn", "added"} : IsNext(op)
      BY <2>1 DEF SignedIn, Added
    <3>2. \/ op # "create" /\ Head(main).ok
          \/ used' \subseteq used /\ UNCHANGED <<bound, current>>
      BY <2>1 DEF SignedIn, Added, serverVars
    <3> QED BY <1>4, <3>1, <3>2
  <2>2. CASE Created
    <3>1. used' \subseteq used /\ UNCHANGED <<bound, current>> /\ IsNext("create")
      BY <2>2 DEF Created, AddUserItems
    <3> QED BY <1>4, <3>1
  <2> QED BY <1>5, <2>1, <2>2
<1>6. CASE OpenScreen \/ Exit \/ ExitFails \/ GatePresents
  <2>1. UNCHANGED <<main, used, bound>> /\ current' \in {current, Nobody}
    BY <1>6 DEF OpenScreen, Exit, ExitFails, GatePresents, Collapsed, serverVars
  <2> QED BY <2>1, FreshKept
<1> QED BY <1>1, <1>2, <1>3, <1>5, <1>6 DEF Process

LEMMA UserFresh ==
    ASSUME SessionTyped, BoundKnown, CreationFresh, User, Crosses
    PROVE  CreationFresh'
<1>1. CASE LeaveScreen
  <2>1. UNCHANGED <<main, current, bound>> /\ bound # Nobody /\ used' \in {used, used \cup {bound}}
    BY <1>1 DEF LeaveScreen, BoundKnown
  <2>2. Nobody \notin used
    BY SessionAssumption DEF SessionTyped
  <2>3. ASSUME Creating(main'), ~Crossing(main'), ~crossed
        PROVE  current' \notin used' /\ (current' = Nobody \/ current' # bound')
    <3>1. current \notin used /\ (current = Nobody \/ current # bound)
      BY <2>1, <2>3 DEF CreationFresh
    <3> QED BY <2>1, <2>2, <3>1
  <2> QED BY <2>3, CrossesFresh
<1>2. CASE ~LeaveScreen
  <2>1. UNCHANGED <<main, used, bound, current>>
    BY <1>2 DEF User, SignInButton, NextButton, SignUpButton, Back, HandleMenuToggle, SelectRow, serverVars
  <2> QED BY <2>1, FreshKept
<1> QED BY <1>1, <1>2

LEMMA RestartFresh == ASSUME CreationFresh, Restart, Crosses PROVE CreationFresh'
<1>1. ~Creating(main')
  BY EmptyDomain DEF Restart, Creating
<1> QED BY <1>1, CrossesFresh

LEMMA SessionStep == ASSUME SessionInv, [SessionNext]_sessionVars PROVE SessionInv'
<1>1. SessionTyped /\ BoundKnown /\ SignUpFirst /\ CreationFresh
  BY DEF SessionInv
<1>0. SessionNext => CreationFresh'
  BY <1>1, ProcessFresh, UserFresh, RestartFresh DEF SessionNext
<1>2. CASE SessionNext /\ User /\ Tapped
  <2>1. SessionTyped' /\ BoundKnown' /\ SignUpFirst' /\ CreationFresh'
    BY <1>0, <1>1, <1>2, UserTyped, UserBound, SignUpFirstStep DEF SessionNext
  <2>2. ~hasty' => Calm'
    <3>1. SUFFICES ASSUME ~hasty' PROVE Calm'
      OBVIOUS
    <3>2. /\ requests = <<>> /\ blanks = <<>> /\ main = <<>> /\ choices = <<>> /\ ~hasty
      BY <1>2, <3>1 DEF Tapped
    <3>3. Calm
      BY <3>2 DEF SessionInv
    <3> QED BY <1>1, <1>2, <3>2, <3>3, UserCalm
  <2> QED BY <2>1, <2>2 DEF SessionInv
<1>3. CASE SessionNext /\ Process /\ UNCHANGED hasty
  <2>1. SessionTyped' /\ BoundKnown' /\ SignUpFirst' /\ CreationFresh'
    BY <1>0, <1>1, <1>3, ProcessTyped, ProcessBound, SignUpFirstStep DEF SessionNext
  <2>2. ~hasty' => Calm'
    BY <1>1, <1>3, ProcessCalm DEF SessionInv
  <2> QED BY <2>1, <2>2 DEF SessionInv
<1>4. CASE SessionNext /\ Restart
  <2>1. SessionTyped' /\ BoundKnown' /\ SignUpFirst' /\ CreationFresh'
    BY <1>0, <1>1, <1>4, RestartTyped, RestartBound, SignUpFirstStep DEF SessionNext
  <2>2. Calm'
    BY <1>4, RestartCalm
  <2> QED BY <2>1, <2>2 DEF SessionInv
<1>5. CASE UNCHANGED sessionVars
  BY <1>5 DEF sessionVars, serverVars, menuVars, SessionInv, SessionTyped, BoundKnown, HasContainer,
              SignUpFirst, Calm, RequestAlone, BlankAlone, AnswerAlone, ChoiceAlone,
              ContainerOnTop, Asked, OnTop, CreationFresh, Creating, Crossing
<1> QED BY <1>2, <1>3, <1>4, <1>5 DEF SessionNext

LEMMA SessionInvariant == SessionSpec => []SessionInv
BY InitSession, SessionStep, PTL DEF SessionSpec

\* The variables of the screens of an account have their types, so that nobody
\* is signed in to an account that was never created.
THEOREM SessionTypeCorrect == SessionSpec => []SessionTypeOK
<1>1. SessionInv => SessionTypeOK
  BY SessionTyping DEF SessionInv
<1> QED BY <1>1, SessionInvariant, PTL

\* While users wait for what they started, there is one container at most, on
\* top, and somebody is signed in; `user' is never first used without a user.
THEOREM SignedInCorrect == SessionSpec => []SignedInWhileOpen
<1>1. SessionInv => SignedInWhileOpen
  <2> SUFFICES ASSUME SessionInv PROVE SignedInWhileOpen
    OBVIOUS
  <2>1. DOMAIN stack = 1 .. Len(stack)
    BY LenProperties DEF SessionInv, SessionTyped
  <2>2. ASSUME ~hasty
        PROVE  (Containers # {} => current # Nobody) /\ Containers \subseteq {Len(stack)}
    <3>1. ASSUME NEW k \in Containers PROVE k = Len(stack) /\ current # Nobody
      BY <2>1, <2>2 DEF SessionInv, Calm, ContainerOnTop, Containers
    <3> QED BY <3>1
  <2> QED BY <2>2 DEF SessionInv, BoundKnown, SignedInWhileOpen
<1> QED BY <1>1, SessionInvariant, PTL

\* Taps, answers, refusals, exits and ends of the process in any order: a sign-up
\* blanks a record with data only if the answer of a creation has met a sign-in that
\* succeeded, or waited behind an answer that opens a container.
THEOREM NeverWipedCorrect == SessionSpec => NeverWiped
<1>1. ASSUME SessionInv, [SessionNext]_sessionVars
      PROVE  [~crossed => used \subseteq used']_sessionVars
  <2>1. SUFFICES ASSUME ~crossed, SessionNext PROVE used \subseteq used'
    BY <1>1
  <2>2. CASE Created
    <3>1. CASE AddUserItems(current) /\ Head(main).ok
      <4>1. main # <<>> /\ Head(main).op = "create"
        BY <2>2 DEF Created, IsNext
      <4>2. Head(main) = main[1] /\ 1 \in DOMAIN main
        BY <1>1, <4>1, AnswerHead, LenProperties DEF SessionInv, SessionTyped
      <4>3. Creating(main)
        BY <3>1, <4>1, <4>2 DEF Creating
      <4>4. current \notin used
        BY <1>1, <2>1, <4>3 DEF SessionInv, CreationFresh
      <4> QED BY <3>1, <4>4 DEF AddUserItems
    <3> QED BY <2>2, <3>1 DEF Created
  <2>3. CASE ~Created
    BY <2>1, <2>3 DEF SessionNext, User, Process, SignInButton, NextButton, SignUpButton, Back,
         HandleMenuToggle, SelectRow, LeaveScreen, Succeeds, Fails, BlankAnswered, SignedIn,
         Added, OpenScreen, Exit, ExitFails, Collapsed, GatePresents, Restart, serverVars
  <2> QED BY <2>2, <2>3
<1>2. SessionInv /\ [SessionNext]_sessionVars => [~crossed => used \subseteq used']_sessionVars
  BY <1>1
<1> QED BY <1>2, SessionInvariant, PTL DEF SessionSpec, NeverWiped

-----------------------------------------------------------------------------
(* The three parts side by side, as they are model-checked *)

\* A step of one part leaves the variables of the other two as they are.
LEMMA StepOfOne ==
    ASSUME [MCNext]_screensvars
    PROVE  [SessionNext]_sessionVars /\ [PasswordNext]_passwordVars /\ [ReaderNext]_readerVars
<1>1. CASE SessionSteps
  BY <1>1 DEF SessionSteps, SessionNext
<1>2. CASE PasswordSteps
  BY <1>2 DEF PasswordSteps, PasswordNext
<1>3. CASE ReaderSteps
  BY <1>3 DEF ReaderSteps, ReaderNext
<1>4. CASE UNCHANGED screensvars
  BY <1>4 DEF screensvars
<1> QED BY <1>1, <1>2, <1>3, <1>4 DEF MCNext

\* The variables of the three parts have their types, and the reader stays in its
\* list, without the bounds of the run and whichever part takes the steps.
THEOREM ScreensTypeCorrect == MCSpec => []ScreensTypeOK
<1>1. MCInit => SessionInit /\ PasswordInit /\ ReaderInit
  BY DEF MCInit
<1>2. [MCNext]_screensvars =>
          [SessionNext]_sessionVars /\ [PasswordNext]_passwordVars /\ [ReaderNext]_readerVars
  BY StepOfOne
<1>3. MCSpec => SessionSpec /\ PasswordSpec /\ ReaderSpec
  BY <1>1, <1>2, PTL DEF MCSpec, SessionSpec, PasswordSpec, ReaderSpec
<1>4. SessionTypeOK /\ PasswordTypeOK /\ InList => ScreensTypeOK
  BY DEF ScreensTypeOK
<1> QED BY <1>3, <1>4, SessionTypeCorrect, PasswordTypeCorrect, ReaderInList, PTL
=============================================================================
