------------------------------ MODULE NewsReader -------------------------------
(****************************************************************************)
(* The reader (NewsViewController): opened on an article of the list that   *)
(* Home shows, Next until the end.  The picture of an article is downloaded *)
(* on the main thread, but shown by a block queued behind what waits there, *)
(* so that Next may be tapped before it runs.  An article is known by its   *)
(* place in the list.                                                       *)
(****************************************************************************)
EXTENDS Integers, SequencesExt

CONSTANTS
    Lists,  \* the lists Home may show: sequences of "url", "none", what urlToImage holds
    Closed  \* no reader is open

ASSUME ListsAssumption == Lists \subseteq Seq({"url", "none"}) /\ Closed \notin Lists

VARIABLES
    data,    \* the list given to the reader, or Closed
    index,   \* the article asked for
    shown,   \* the article whose texts are shown
    link,    \* the article whose address is shown, and opened by a tap
    picture, \* the article whose picture is shown, 0 if none
    fetched, \* the last one whose picture was downloaded, 0 if none
    blocks,  \* queued pictures of this reader
    fatal    \* URL(string: url)! met nil

readerVars == <<data, index, shown, link, picture, fetched, blocks, fatal>>

\* configurateView: texts, then the picture.  The download may fail.
ConfigurateView(list, i) ==
    /\ shown' = i
    /\ IF list[i] = "none"
       THEN fatal' = TRUE /\ UNCHANGED <<fetched, blocks>>
       ELSE /\ \/ fetched' = i /\ blocks' = Append(blocks, i)
               \/ UNCHANGED <<fetched, blocks>>
            /\ UNCHANGED fatal

\* prepare(for:sender:), then viewDidLoad.
Open(list, i) ==
    /\ data = Closed /\ ~fatal
    /\ i \in DOMAIN list
    /\ data' = list /\ index' = i
    /\ ConfigurateView(list, i)
    /\ link' = i
    /\ UNCHANGED picture

\* Mutant: the end is looked for before the index moves.
NextNewsLate ==
    /\ data # Closed /\ ~fatal
    /\ index' = index + 1
    /\ IF index > Len(data)
       THEN UNCHANGED <<shown, fetched, blocks, fatal>>
       ELSE IF index' \in DOMAIN data THEN ConfigurateView(data, index')
            ELSE shown' = index' /\ fatal' = TRUE /\ UNCHANGED <<fetched, blocks>>
    /\ UNCHANGED <<data, link, picture>>

\* nextNews: the index moves on past the end too.
NextNews ==
    /\ data # Closed /\ ~fatal
    /\ index' = index + 1
    /\ IF index' > Len(data)
       THEN UNCHANGED <<shown, fetched, blocks, fatal>>
       ELSE ConfigurateView(data, index')
    /\ UNCHANGED <<data, link, picture>>

\* Mutant: pictures are shown as they are downloaded, in any order.
ShowAnyPicture ==
    /\ ~fatal /\ blocks # <<>>
    /\ \E k \in DOMAIN blocks : picture' = blocks[k] /\ blocks' = RemoveAt(blocks, k)
    /\ UNCHANGED <<data, index, shown, link, fetched, fatal>>

\* The queued block.
ShowPicture ==
    /\ ~fatal /\ blocks # <<>>
    /\ picture' = Head(blocks) /\ blocks' = Tail(blocks)
    /\ UNCHANGED <<data, index, shown, link, fetched, fatal>>

NoReader ==
    /\ data' = Closed /\ index' = 0 /\ shown' = 0 /\ link' = 0
    /\ picture' = 0 /\ fetched' = 0 /\ blocks' = <<>>

\* Done; the blocks still queued change a reader that is gone.
Dismiss ==
    /\ data # Closed /\ ~fatal
    /\ NoReader
    /\ UNCHANGED fatal

Relaunch == fatal /\ fatal' = FALSE /\ NoReader

ReaderInit ==
    /\ data = Closed /\ index = 0 /\ shown = 0 /\ link = 0
    /\ picture = 0 /\ fetched = 0 /\ blocks = <<>> /\ fatal = FALSE

ReaderNext ==
    \/ \E list \in Lists : \E i \in DOMAIN list : Open(list, i)
    \/ NextNews \/ ShowPicture \/ Dismiss \/ Relaunch

ReaderSpec == ReaderInit /\ [][ReaderNext]_readerVars

-----------------------------------------------------------------------------
(* Properties *)

\* The texts are those of the article asked for, or of the last one, and the
\* reader never leaves the list however often Next is tapped; the link stays that
\* of the article it was opened on.
InList ==
    data # Closed =>
        /\ shown = (IF index > Len(data) THEN Len(data) ELSE index)
        /\ shown \in DOMAIN data
        /\ link \in 1 .. shown

\* The picture is one of this reader's, of an article not after the one shown;
\* with none queued, it is the last that could be downloaded.
PictureOfLatest ==
    /\ picture <= fetched /\ fetched <= shown
    /\ picture # 0 => picture >= link
    /\ blocks = <<>> => picture = fetched

\* URL(string: url)! is given an address.  Not so for an article without picture.
ReaderNeverCrashes == ~fatal
=============================================================================
