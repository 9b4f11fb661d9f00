------------------------------ MODULE SortedTable ------------------------------
(*****************************************************************************)
(* A table file of the leveldb pod, as it is built and read (table/): blocks *)
(* of entries whose keys share a prefix with the one before, except at       *)
(* restart points; an index with a key between each two blocks, shortened    *)
(* where that can be done; filters by the place of a block in the file; and  *)
(* the iterator over index and blocks, with reads that fail.                 *)
(*                                                                           *)
(* A user key is a string of bytes 1 .. MaxByte (MaxByte is 0xff); an        *)
(* internal key ends with one more item, the sequence number above MaxByte,  *)
(* which stands for the eight bytes of number and type.  Blocks are full     *)
(* when their values say so, and take up as much of the file.  InternalKeys  *)
(* are the keys a table may hold and is asked for.                           *)
(*****************************************************************************)
EXTENDS Integers, SequencesExt, FiniteSetsExt

CONSTANTS MaxByte,
          InternalKeys,
          TableSeqs,       \* sequence numbers are MaxByte + 1 .. MaxByte + TableSeqs
          MaxAdded,        \* entries of the table
          Spans,           \* sizes of a block in the file
          kFilterBase,
          RestartInterval  \* block_restart_interval

ASSUME TableAssumption ==
    /\ {MaxByte, TableSeqs, RestartInterval, kFilterBase} \subseteq Nat \ {0}
    /\ Spans \subseteq Nat \ {0} /\ MaxAdded \in Nat
    /\ \A k \in InternalKeys :
          /\ k \in Seq(Nat) /\ k # <<>> /\ Last(k) - MaxByte \in 1 .. TableSeqs
          /\ \A i \in 1 .. Len(k) - 1 : k[i] \in 1 .. MaxByte

VARIABLES added,    \* the entries, in order
          data,     \* the blocks written, and their offsets
          building, \* the data block
          index,    \* the index block
          pending,  \* pending_index_entry
          filters,  \* the filters, and the keys of the next one
          finished,
          tableIter, \* the two-level iterator
          expected  \* the entry it has to stand at, <<>> if none

tableVars == <<added, data, building, index, pending, filters, finished, tableIter, expected>>

MaxSequence == MaxByte + TableSeqs + 1   \* kMaxSequenceNumber

-----------------------------------------------------------------------------
(* Comparators *)

Shared(u, v) ==
    Max({n \in 0 .. Min({Len(u), Len(v)}) : \A i \in 1 .. n : u[i] = v[i]})

BytesBefore(u, v) ==
    LET n == Shared(u, v)
    IN  n < Len(v) /\ (n = Len(u) \/ u[n + 1] < v[n + 1])

\* InternalKeyComparator: by user key, then the newest first.
KeyBefore(a, b) ==
    BytesBefore(Front(a), Front(b)) \/ (Front(a) = Front(b) /\ Last(a) > Last(b))

\* Mutant: the byte is raised although the limit's is the next one and ends there.
SeparatorPast(a, limit) ==
    LET u == Front(a)
        n == Shared(u, Front(limit)) + 1
    IN  IF n < Len(u) /\ n <= Len(Front(limit))
        THEN Append(Append(SubSeq(u, 1, n - 1), u[n] + 2), MaxSequence) ELSE a

\* FindShortestSeparator of both comparators: where the keys differ first, a byte
\* is raised and what follows it dropped, if that stays below the limit and makes
\* the key shorter.
Separator(a, limit) ==
    LET u == Front(a)
        v == Front(limit)
        n == Shared(u, v) + 1
    IN  IF n <= Len(u) /\ n <= Len(v) /\ u[n] < MaxByte /\ u[n] + 1 < v[n] /\ n < Len(u)
        THEN Append(Append(SubSeq(u, 1, n - 1), u[n] + 1), MaxSequence)
        ELSE a

\* FindShortSuccessor
Successor(a) ==
    LET u == Front(a)
        low == {i \in DOMAIN u : u[i] < MaxByte}
    IN  IF low # {} /\ Min(low) < Len(u)
        THEN Append(Append(SubSeq(u, 1, Min(low) - 1), u[Min(low)] + 1), MaxSequence)
        ELSE a

-----------------------------------------------------------------------------
(* Blocks *)

EmptyBlock == [entries |-> <<>>, restarts |-> <<1>>, counter |-> 0, last |-> <<>>]

\* BlockBuilder::Add
BlockAdd(b, interval, key, value) ==
    LET restart == b.counter >= interval
        n == IF restart THEN 0 ELSE Shared(b.last, key)
    IN  [entries  |-> Append(b.entries, [shared |-> n, rest |-> SubSeq(key, n + 1, Len(key)),
                                         value |-> value]),
         restarts |-> IF restart THEN Append(b.restarts, Len(b.entries) + 1) ELSE b.restarts,
         counter  |-> IF restart THEN 1 ELSE b.counter + 1,
         last     |-> key]

\* Block::Iter: at current_, past the end when not valid; `next' is
\* NextEntryOffset.
Invalid(b) == [at |-> Len(b.entries) + 1, restart |-> Len(b.restarts) + 1, key |-> <<>>,
               next |-> Len(b.entries) + 1]
Valid(b, i) == i.at <= Len(b.entries)

SeekToRestartPoint(b, r) ==
    [at |-> Len(b.entries) + 1, restart |-> r, key |-> <<>>, next |-> b.restarts[r]]

ParseNextKey(b, i) ==
    IF i.next > Len(b.entries) THEN Invalid(b)
    ELSE [at   |-> i.next,
          key  |-> SubSeq(i.key, 1, b.entries[i.next].shared) \o b.entries[i.next].rest,
          next |-> i.next + 1,
          restart |-> Max({i.restart} \cup {r \in i.restart + 1 .. Len(b.restarts) :
                                               b.restarts[r] < i.next})]

\* The iterator after each ParseNextKey, from a restart point on.
Parsed(b, r) ==
    LET after[n \in 0 .. Len(b.entries) + 1] ==
            IF n = 0 THEN SeekToRestartPoint(b, r) ELSE ParseNextKey(b, after[n - 1])
    IN  after

BlockFirst(b) == ParseNextKey(b, SeekToRestartPoint(b, 1))

BlockLast(b) ==
    LET after == Parsed(b, Len(b.restarts))
    IN  after[Min({n \in 1 .. Len(b.entries) + 1 : after[n].next > Len(b.entries)})]

BlockPrev(b, i) ==
    LET before == {r \in 1 .. Min({i.restart, Len(b.restarts)}) : b.restarts[r] < i.at}
        after  == Parsed(b, Max(before))
    IN  IF before = {} THEN Invalid(b)
        ELSE after[Min({n \in 1 .. Len(b.entries) + 1 : after[n].next >= i.at})]

\* Binary search for the last restart point with a key before the target.
Halve(b, target, s) ==
    LET mid == (s.left + s.right + 1) \div 2
    IN  IF s.left >= s.right THEN s
        ELSE IF KeyBefore(b.entries[b.restarts[mid]].rest, target) THEN [s EXCEPT !.left = mid]
        ELSE [s EXCEPT !.right = mid - 1]

RestartBefore(b, target) ==
    LET search[n \in 0 .. Len(b.restarts)] ==
            IF n = 0 THEN [left |-> 1, right |-> Len(b.restarts)]
            ELSE Halve(b, target, search[n - 1])
    IN  search[Len(b.restarts)].left

BlockSeek(b, target) ==
    LET after == Parsed(b, RestartBefore(b, target))
    IN  after[Min({n \in 1 .. Len(b.entries) + 1 :
                      Valid(b, after[n]) => ~KeyBefore(after[n].key, target)})]

-----------------------------------------------------------------------------
(* TableBuilder *)

Offset == IF data = <<>> THEN 0 ELSE Last(data).offset + Last(data).span

\* FilterBlockBuilder::StartBlock: filters are made until there is one for every
\* stretch of the file before this one.
StartBlock(f, offset) ==
    LET missing == (offset \div kFilterBase) - Len(f.made)
    IN  IF missing <= 0 THEN f
        ELSE [made |-> f.made \o [i \in 1 .. missing |-> IF i = 1 THEN f.keys ELSE {}],
              keys |-> {}]

\* Keys are added in order.
Addable == {key \in InternalKeys : \A i \in DOMAIN added : KeyBefore(added[i], key)}

\* The index block restarts at every entry; its values are the blocks' handles.
IndexAdd(key, handle) == BlockAdd(index, 1, key, handle)

\* Add, and Flush where the block has become full.
Add(key, full, span) ==
    /\ ~finished /\ Len(added) < MaxAdded
    /\ LET b == BlockAdd(building, RestartInterval, key, Len(added) + 1)
           f == [filters EXCEPT !.keys = @ \cup {Front(key)}]
       IN  IF full
           THEN /\ data' = Append(data, [block |-> b, offset |-> Offset, span |-> span])
                /\ building' = EmptyBlock
                /\ filters' = StartBlock(f, Offset + span)
           ELSE building' = b /\ filters' = f /\ UNCHANGED data
    /\ index' = IF pending THEN IndexAdd(Separator(Last(added), key), Len(data)) ELSE index
    /\ pending' = full
    /\ added' = Append(added, key)
    /\ UNCHANGED <<finished, tableIter, expected>>

\* Finish: the last block, its filter and its index entry.
Finish(span) ==
    /\ ~finished /\ added # <<>>
    /\ LET last == building.entries # <<>>
           f == IF last THEN StartBlock(filters, Offset + span) ELSE filters
       IN  /\ data' = IF last
                      THEN Append(data, [block |-> building, offset |-> Offset, span |-> span])
                      ELSE data
           /\ filters' = [f EXCEPT !.made = IF f.keys = {} THEN @ ELSE Append(@, f.keys)]
    /\ index' = IndexAdd(Successor(Last(added)), Len(data'))
    /\ finished' = TRUE /\ pending' = FALSE /\ building' = EmptyBlock
    /\ UNCHANGED <<added, tableIter, expected>>

-----------------------------------------------------------------------------
(* TwoLevelIterator.  `block' is the handle of data_iter_, 0 if it is NULL;    *)
(* `error' says that data_iter_ is the iterator of a block that could not be   *)
(* read; `status' is status_.                                                  *)

NewTwoLevelIterator ==
    [index |-> Invalid(EmptyBlock), data |-> Invalid(EmptyBlock), block |-> 0,
     error |-> FALSE, status |-> TRUE]

Handle(t) == IF Valid(index, t.index) THEN index.entries[t.index.at].value ELSE 0
DataValid(t) == t.block # 0 /\ ~t.error /\ Valid(data[t.block].block, t.data)

\* Mutant: the error goes with the iterator of the block.
SetDataIteratorQuietly(t, block, unread) ==
    [t EXCEPT !.block = block, !.error = block \in unread]

SetDataIterator(t, block, unread) ==
    [t EXCEPT !.status = @ /\ ~t.error, !.block = block, !.error = block \in unread]

\* A block is read unless it is the one at hand; `unread' are those whose read
\* fails.
InitDataBlock(t, unread) ==
    IF Handle(t) # 0 /\ Handle(t) = t.block THEN t ELSE SetDataIterator(t, Handle(t), unread)

\* Its iterator, where there is one, is put where Place says.
Placed(t, Place(_)) ==
    IF t.block = 0 \/ t.error THEN t ELSE [t EXCEPT !.data = Place(data[t.block].block)]

\* SkipEmptyDataBlocks in the direction of Move, which finds an entry from the
\* end of each block where Place puts it.
Skip(t, unread, Move(_, _), Place(_)) ==
    LET Onwards(u) == Placed(InitDataBlock([u EXCEPT !.index = Move(index, @)], unread), Place)
        from[n \in 0 .. Len(data) + 1] ==
            IF n = 0 THEN t
            ELSE LET u == from[n - 1]
                 IN  IF DataValid(u) THEN u
                     ELSE IF Handle(u) = 0 THEN SetDataIterator(u, 0, unread) ELSE Onwards(u)
    IN  from[Len(data) + 1]

SkipForward(t, unread)  == Skip(t, unread, ParseNextKey, BlockFirst)
SkipBackward(t, unread) == Skip(t, unread, BlockPrev, BlockLast)

Call(new, want) ==
    /\ finished
    /\ tableIter' = new /\ expected' = want
    /\ UNCHANGED <<added, data, building, index, pending, filters, finished>>

FirstOf(S) == IF S = {} THEN <<>> ELSE added[Min(S)]
LastOf(S)  == IF S = {} THEN <<>> ELSE added[Max(S)]
KeyHere    == IF DataValid(tableIter) THEN tableIter.data.key ELSE <<>>
Behind(k)  == {i \in DOMAIN added : KeyBefore(k, added[i])}
Ahead(k)   == {i \in DOMAIN added : KeyBefore(added[i], k)}

TableSeek(k, unread) ==
    LET t == InitDataBlock([tableIter EXCEPT !.index = BlockSeek(index, k)], unread)
    IN  Call(SkipForward(Placed(t, LAMBDA b : BlockSeek(b, k)), unread),
             FirstOf(DOMAIN added \ Ahead(k)))

TableSeekToFirst(unread) ==
    LET t == InitDataBlock([tableIter EXCEPT !.index = BlockFirst(index)], unread)
    IN  Call(SkipForward(Placed(t, BlockFirst), unread), FirstOf(DOMAIN added))

TableSeekToLast(unread) ==
    LET t == InitDataBlock([tableIter EXCEPT !.index = BlockLast(index)], unread)
    IN  Call(SkipBackward(Placed(t, BlockLast), unread), LastOf(DOMAIN added))

TableMove(unread) ==
    /\ DataValid(tableIter)
    /\ LET b == data[tableIter.block].block
       IN  \/ Call(SkipForward([tableIter EXCEPT !.data = ParseNextKey(b, @)], unread),
                   FirstOf(Behind(KeyHere)))
           \/ Call(SkipBackward([tableIter EXCEPT !.data = BlockPrev(b, @)], unread),
                   LastOf(Ahead(KeyHere)))

-----------------------------------------------------------------------------
(* Table::InternalGet *)

KeyMayMatch(offset, user) ==
    LET i == (offset \div kFilterBase) + 1
    IN  i <= Len(filters.made) => user \in filters.made[i]

InternalGet(k) ==
    LET i == BlockSeek(index, k)
    IN  IF ~Valid(index, i) THEN <<>>
        ELSE LET d == data[index.entries[i.at].value]
                 j == BlockSeek(d.block, k)
             IN  IF KeyMayMatch(d.offset, Front(k)) /\ Valid(d.block, j) THEN j.key ELSE <<>>

-----------------------------------------------------------------------------

TableInit ==
    /\ added = <<>> /\ data = <<>> /\ building = EmptyBlock /\ index = EmptyBlock /\ pending = FALSE
    /\ filters = [made |-> <<>>, keys |-> {}] /\ finished = FALSE
    /\ tableIter = NewTwoLevelIterator /\ expected = <<>>

TableNext ==
    \/ \E key \in Addable, full \in BOOLEAN, span \in Spans : Add(key, full, span)
    \/ \E span \in Spans : Finish(span)
    \/ \E unread \in {{}} \cup {{n} : n \in DOMAIN data} :
          \/ \E k \in InternalKeys : TableSeek(k, unread)
          \/ TableSeekToFirst(unread) \/ TableSeekToLast(unread) \/ TableMove(unread)

TableSpec == TableInit /\ [][TableNext]_tableVars

-----------------------------------------------------------------------------
(* Properties *)

\* Each call ends at the entry that is next in its direction, decoded byte by
\* byte, however entries share prefixes, blocks are cut and separators shortened;
\* if one was passed over because its block could not be read, the status says
\* so, also when later blocks are read.
IteratorHonest ==
    LET ok == tableIter.status /\ ~tableIter.error
    IN  finished /\ ok => KeyHere = expected

\* A lookup finds the first entry of its user key that its sequence number may
\* see, in spite of filters and of index keys that no entry has.
LookupFinds ==
    finished /\ tableIter = NewTwoLevelIterator =>
        \A k \in InternalKeys :
            LET own == {i \in DOMAIN added \ Ahead(k) : Front(added[i]) = Front(k)}
                got == InternalGet(k)
            IN  IF own # {} THEN got = FirstOf(own)
                ELSE got # <<>> => Front(got) # Front(k)

\* Both: a table gives back what was added to it, or owns up that it could not.
TableHonest == IteratorHonest /\ LookupFinds
=============================================================================
