------------------------------- MODULE Iterators -------------------------------
(*****************************************************************************)
(* The iterator that the leveldb pod gives to its callers (db/db_iter.cc)    *)
(* over the merging one (table/merger.cc), moved to and fro while the        *)
(* memtable it reads grows.                                                  *)
(*                                                                           *)
(* An entry is its internal key, packed into a number: by user key, under    *)
(* one key the newest first.  A child - the memtable or a table - is the set *)
(* of its entries, and its iterator an entry of it, or 0 when not valid.     *)
(*****************************************************************************)
EXTENDS Integers, FiniteSetsExt

CONSTANTS UserKeys,  \* how many user keys: 1 .. UserKeys
          MaxPuts,   \* entries
          Children,  \* children; the first one is the memtable
          MaxBehind  \* entries written since an iterator's snapshot, at first

ASSUME IteratorAssumption ==
    {UserKeys, MaxPuts, Children} \subseteq Nat \ {0} /\ MaxBehind \in Nat

VARIABLES child,    \* the entries of each child
          removed,  \* those of type kTypeDeletion
          at,       \* where the child iterators stand
          current,  \* current_ of the merging iterator, 0 if not valid
          heading,  \* its direction_
          it,       \* the DBIter
          want      \* the user key it has to end at, 0 if there is none

mergerVars == <<at, current, heading>>
iterVars == <<child, removed, mergerVars, it, want>>

Packed(k, s)  == k * (MaxPuts + 1) - s
UserKey(e)    == (e + MaxPuts) \div (MaxPuts + 1)
SequenceOf(e) == UserKey(e) * (MaxPuts + 1) - e
Entries       == UNION {child[i] : i \in 1 .. Children}
LastSequence  == Cardinality(Entries)

Lowest(S)   == IF S = {} THEN 0 ELSE Min(S)
Topmost(S)  == IF S = {} THEN 0 ELSE Max(S)
From(i, e)  == Lowest({d \in child[i] : d >= e})
After(i, e) == Lowest({d \in child[i] : d > e})
Under(i, e) == Topmost({d \in child[i] : d < e})

-----------------------------------------------------------------------------
(* The merging iterator *)

FindSmallest(pos) ==
    LET valid == {i \in DOMAIN pos : pos[i] # 0}
    IN  IF valid = {} THEN 0 ELSE CHOOSE i \in valid : \A j \in valid : pos[i] <= pos[j]

FindLargest(pos) ==
    LET valid == {i \in DOMAIN pos : pos[i] # 0}
    IN  IF valid = {} THEN 0 ELSE CHOOSE i \in valid : \A j \in valid : pos[j] <= pos[i]

Forwards(pos)  == at' = pos /\ current' = FindSmallest(pos) /\ heading' = "forward"
Backwards(pos) == at' = pos /\ current' = FindLargest(pos) /\ heading' = "reverse"

MergerSeekToFirst == Forwards([i \in 1 .. Children |-> Lowest(child[i])])
MergerSeekToLast  == Backwards([i \in 1 .. Children |-> Topmost(child[i])])
MergerSeek(e)     == Forwards([i \in 1 .. Children |-> From(i, e)])

Here == at[current]

\* Mutant: the other children are not turned round.
MergerNextUnturned == Forwards([at EXCEPT ![current] = After(current, @)])

\* When the direction turns, the other children are put behind the key; those at
\* the key itself once more.
MergerNext ==
    Forwards([i \in 1 .. Children |->
                IF i = current \/ heading = "reverse" THEN After(i, Here) ELSE at[i]])

\* When it turns, they are put before the key, at their end where they have none
\* behind it.
MergerPrev ==
    LET Turned(i) == LET first == From(i, Here)
                     IN  IF first = 0 THEN Topmost(child[i]) ELSE Under(i, first)
    IN  Backwards([i \in 1 .. Children |->
                    IF i = current THEN Under(i, Here)
                    ELSE IF heading = "forward" THEN Turned(i) ELSE at[i]])

-----------------------------------------------------------------------------
(* What is to be shown: the live keys in the snapshot of the iterator. *)

VersionsOf(k) == {e \in Entries : UserKey(e) = k /\ SequenceOf(e) <= it.sequence}
Live == {k \in 1 .. UserKeys : VersionsOf(k) # {} /\ Min(VersionsOf(k)) \notin removed}

-----------------------------------------------------------------------------
(* The DBIter: a call, then its loop, one turn at a time.  `saved' is        *)
(* saved_key_, `value' the entry of saved_value_.                            *)

MayCall == it.loop = "none" /\ it.open
Return(valid, saved) == [it EXCEPT !.loop = "none", !.valid = valid, !.saved = saved]
ClearSavedValue(i) == [i EXCEPT !.value = 0]

FindNextUserEntry(skipping, saved) ==
    [it EXCEPT !.loop = "next", !.direction = "forward", !.skipping = skipping,
               !.saved = saved]

FindPrevUserEntry(saved) ==
    [it EXCEPT !.loop = "prev", !.direction = "reverse", !.type = "deletion",
               !.saved = saved]

SeekTo(k) ==
    /\ MayCall
    /\ MergerSeek(Packed(k, it.sequence))
    /\ it' = ClearSavedValue(IF current' # 0 THEN FindNextUserEntry(FALSE, k)
                              ELSE [Return(FALSE, k) EXCEPT !.direction = "forward"])
    /\ want' = Lowest({l \in Live : l >= k})
    /\ UNCHANGED <<child, removed>>

ToFirst ==
    /\ MayCall
    /\ MergerSeekToFirst
    /\ it' = ClearSavedValue(IF current' # 0 THEN FindNextUserEntry(FALSE, it.saved)
                              ELSE [Return(FALSE, it.saved) EXCEPT !.direction = "forward"])
    /\ want' = Lowest(Live)
    /\ UNCHANGED <<child, removed>>

ToLast ==
    /\ MayCall
    /\ MergerSeekToLast
    /\ it' = ClearSavedValue(FindPrevUserEntry(it.saved))
    /\ want' = Topmost(Live)
    /\ UNCHANGED <<child, removed>>

EntryShown == IF it.direction = "forward" THEN Here ELSE it.value
KeyShown == IF it.direction = "forward" THEN UserKey(Here) ELSE it.saved

NextEntry ==
    /\ MayCall /\ it.valid
    /\ IF it.direction = "reverse"
       THEN /\ IF current = 0 THEN MergerSeekToFirst ELSE MergerNext
            /\ it' = IF current' # 0 THEN FindNextUserEntry(TRUE, it.saved)
                     ELSE [Return(FALSE, 0) EXCEPT !.direction = "forward"]
       ELSE /\ it' = FindNextUserEntry(TRUE, UserKey(Here))
            /\ UNCHANGED mergerVars
    /\ want' = Lowest({l \in Live : l > KeyShown})
    /\ UNCHANGED <<child, removed>>

\* Going back from a forward move, the entries of the key shown are left first.
PrevEntry ==
    /\ MayCall /\ it.valid
    /\ it' = IF it.direction = "forward"
             THEN [it EXCEPT !.loop = "leave", !.saved = UserKey(Here)]
             ELSE FindPrevUserEntry(it.saved)
    /\ want' = Topmost({l \in Live : l < KeyShown})
    /\ UNCHANGED <<child, removed, mergerVars>>

LeaveTurn ==
    /\ it.loop = "leave"
    /\ MergerPrev
    /\ it' = IF current' = 0 THEN ClearSavedValue(Return(FALSE, 0))
             ELSE IF UserKey(at'[current']) < it.saved THEN FindPrevUserEntry(it.saved)
             ELSE it
    /\ UNCHANGED <<child, removed, want>>

\* FindNextUserEntry: a deletion hides what follows under its key.
NextTurn ==
    /\ it.loop = "next"
    /\ LET seen   == SequenceOf(Here) <= it.sequence
           hidden == it.skipping /\ UserKey(Here) <= it.saved
       IN  IF seen /\ Here \notin removed /\ ~hidden
           THEN it' = Return(TRUE, 0) /\ UNCHANGED mergerVars
           ELSE /\ MergerNext
                /\ it' = IF current' = 0 THEN Return(FALSE, 0)
                         ELSE IF seen /\ Here \in removed
                         THEN [it EXCEPT !.skipping = TRUE, !.saved = UserKey(Here)]
                         ELSE it
    /\ UNCHANGED <<child, removed, want>>

\* FindPrevUserEntry: the last entry met under a key is its newest; it is shown
\* once an older key has been met, with the merging iterator before it.
PrevTurn ==
    /\ it.loop = "prev"
    /\ LET seen == SequenceOf(Here) <= it.sequence
       IN  IF current = 0 \/ (seen /\ it.type = "value" /\ UserKey(Here) < it.saved)
           THEN /\ it' = IF it.type = "value" THEN Return(TRUE, it.saved)
                         ELSE ClearSavedValue([Return(FALSE, 0) EXCEPT !.direction = "forward"])
                /\ UNCHANGED mergerVars
           ELSE /\ MergerPrev
                /\ it' = IF ~seen THEN it
                         ELSE IF Here \in removed
                         THEN [it EXCEPT !.type = "deletion", !.saved = 0, !.value = 0]
                         ELSE [it EXCEPT !.type = "value", !.saved = UserKey(Here), !.value = Here]
    /\ UNCHANGED <<child, removed, want>>

-----------------------------------------------------------------------------

\* Entries come to be in any child; those of the memtable are newer than all
\* others, and while an iterator is open the memtable alone grows.
Put(i, k, del) ==
    /\ LastSequence < MaxPuts /\ (it.open \/ child[1] # {} => i = 1)
    /\ LET e == Packed(k, LastSequence + 1)
       IN  /\ child' = [child EXCEPT ![i] = @ \cup {e}]
           /\ removed' = IF del THEN removed \cup {e} ELSE removed
    /\ UNCHANGED <<mergerVars, it, want>>

\* NewIterator, at a snapshot or at the last sequence number.
NewIterator(s) ==
    /\ ~it.open
    /\ it' = [it EXCEPT !.open = TRUE, !.sequence = s]
    /\ UNCHANGED <<child, removed, mergerVars, want>>

IteratorInit ==
    /\ child = [i \in 1 .. Children |-> {}] /\ removed = {}
    /\ at = [i \in 1 .. Children |-> 0] /\ current = 0 /\ heading = "forward"
    /\ it = [open |-> FALSE, sequence |-> 0, loop |-> "none", direction |-> "forward",
             valid |-> FALSE, saved |-> 0, value |-> 0, skipping |-> FALSE, type |-> "deletion"]
    /\ want = 0

IteratorCalls ==
    \/ \E k \in 1 .. UserKeys : SeekTo(k)
    \/ ToFirst \/ ToLast \/ NextEntry \/ PrevEntry

IteratorNext ==
    \/ \E i \in 1 .. Children, k \in 1 .. UserKeys, del \in BOOLEAN : Put(i, k, del)
    \/ \E s \in Max({0, LastSequence - MaxBehind}) .. LastSequence : NewIterator(s)
    \/ IteratorCalls
    \/ LeaveTurn \/ NextTurn \/ PrevTurn

IteratorSpec == IteratorInit /\ [][IteratorNext]_iterVars

-----------------------------------------------------------------------------
(* Properties *)

\* A call ends at the live key that is next in its direction, with the newest
\* entry of it in the snapshot, after any calls in either direction and whatever
\* is written meanwhile; and it is valid exactly if there is such a key.
ShowsWanted ==
    it.open /\ it.loop = "none" =>
        /\ it.valid <=> want # 0
        /\ it.valid => KeyShown = want /\ EntryShown = Min(VersionsOf(want))
=============================================================================
