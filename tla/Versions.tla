------------------------------ MODULE Versions ------------------------------
(***************************************************************************)
(* The levels of the leveldb pod: where a flush puts its table, which      *)
(* tables a compaction takes and what it writes, and what Get finds in     *)
(* them at each snapshot.                                                  *)
(*                                                                         *)
(* An entry is its internal key, packed into a number as dbformat.h packs  *)
(* it: by user key, and under one key the newest first.  A table is the    *)
(* set of its entries, and its size their number.  The memtable's switch   *)
(* and its flush are one step (what lies between them is in LevelDB); a    *)
(* compaction starts, other things happen while it works without the       *)
(* mutex, and it is installed.                                             *)
(***************************************************************************)
EXTENDS Integers, FiniteSetsExt

CONSTANTS MaxKey,       \* keys are 1 .. MaxKey
          MaxWrites,    \* entries written in a behaviour
          Deletable,    \* keys that are deleted too
          Ranges,       \* ranges that are compacted by hand
          MaxExtras,    \* snapshots, manual compactions, tables out of seeks,
                        \* and reopenings
          MaxCalls,     \* writes and extras together
          NumLevels,    \* config::kNumLevels
          MaxMemCompactLevel, \* config::kMaxMemCompactLevel
          L0Trigger,    \* config::kL0_CompactionTrigger
          LevelLimit, Growth, \* MaxBytesForLevel of level 1, in entries, and its factor
          TargetSize,   \* TargetFileSize, in entries
          MaxGrandparents, \* MaxGrandParentOverlapBytes, in entries
          ExpandedLimit \* ExpandedCompactionByteSizeLimit, in entries

ASSUME VersionsAssumption ==
    /\ {MaxKey, MaxWrites, MaxExtras, MaxCalls, MaxGrandparents,
        ExpandedLimit} \subseteq Nat
    /\ {L0Trigger, LevelLimit, Growth, TargetSize} \subseteq Nat \ {0}
    /\ NumLevels \in Nat \ {0, 1}
    /\ MaxMemCompactLevel \in 0 .. NumLevels - 1
    /\ Deletable \subseteq 1 .. MaxKey
    /\ Ranges \subseteq (1 .. MaxKey) \X (1 .. MaxKey)

VARIABLES written,   \* every entry written so far
          deleted,   \* those of them that are of type kTypeDeletion
          mem,       \* the entries of the memtable
          levels,    \* current_->files_
          pointer,   \* compact_pointer_, 0 where it is empty
          seekFile,  \* current_->file_to_compact_ and its level
          snapshots, \* snapshots_
          comp,      \* the Compaction that DoCompactionWork is at
          manual,    \* the ManualCompaction of the thread in TEST_CompactRange
          extras,    \* manual compactions, and so on, so far
          cut,       \* keys whose entries one compaction wrote to two tables
          aborted    \* an assert of Builder has failed

vars == <<written, deleted, mem, levels, pointer, seekFile, snapshots, comp, manual,
          extras, cut, aborted>>

Key     == 1 .. MaxKey
Level   == 0 .. NumLevels - 1
None    == [none |-> TRUE]
LastSeq == Cardinality(written)

---------------------------------------------------------------------------
(* Internal keys and tables *)

Entry(k, s) == k * (MaxWrites + 1) - s
KeyOf(e)    == (e + MaxWrites) \div (MaxWrites + 1)
Sequence(e) == KeyOf(e) * (MaxWrites + 1) - e

Smallest(f) == Min(f)
Largest(f)  == Max(f)
Number(f)   == Max({Sequence(e) : e \in f})

SizeOf(files) == Cardinality(UNION files)

\* The first and the last of a level's tables, in their order.
FirstFile(files) == CHOOSE f \in files : \A g \in files : Smallest(f) <= Smallest(g)
LastFile(files)  == CHOOSE f \in files : \A g \in files : Smallest(g) <= Smallest(f)

Covers(f, k) == KeyOf(Smallest(f)) <= k /\ k <= KeyOf(Largest(f))

\* What the asserts of Builder::MaybeAddFile and SaveTo ask of a level.
Disjoint(files) ==
    \A f, g \in files : f = g \/ Largest(f) < Smallest(g) \/ Largest(g) < Smallest(f)

---------------------------------------------------------------------------
(* Reading *)

\* The entries of f for key k that a reader at sequence number s may see,
\* and what a Saver makes of the first of them: 0 when there is none or the
\* key is deleted.
Visible(f, k, s) == {e \in f : Entry(k, s) <= e /\ e < Entry(k, 0)}
Saved(seen)      == IF seen = {} \/ Min(seen) \in deleted THEN 0 ELSE Min(seen)

\* FindFile: the first table that does not end before (k, s).
FindFile(files, k, s) ==
    LET after == {f \in files : Largest(f) >= Entry(k, s)}
    IN  {f \in after : \A g \in after : Smallest(f) <= Smallest(g)}

\* Version::Get: the tables it would read, level by level, and those of level 0 by
\* their numbers, which follow the order they were flushed in.
FilesRead(k, s) ==
    {f \in levels[0] : Covers(f, k)}
    \cup UNION {{f \in FindFile(levels[l], k, s) : KeyOf(Smallest(f)) <= k} : l \in Level \ {0}}

ReadBefore(f, g) ==
    \/ f \in levels[0] /\ g \in levels[0] /\ Number(f) > Number(g)
    \/ \E l, m \in Level : l < m /\ f \in levels[l] /\ g \in levels[m]

FirstOfFiles(files) == {f \in files : \A g \in files : ~ReadBefore(g, f)}

Hits(k, s) == {f \in FilesRead(k, s) : Visible(f, k, s) # {}}

Get(k, s) == Saved(IF Visible(mem, k, s) # {} THEN Visible(mem, k, s)
                   ELSE UNION {Visible(f, k, s) : f \in FirstOfFiles(Hits(k, s))})

\* What an iterator over the memtable and every table shows for k.
Scan(k, s) == Saved(Visible(mem \cup UNION UNION {levels[l] : l \in Level}, k, s))

---------------------------------------------------------------------------
(* Choosing tables *)

Overlaps(f, lo, hi) == KeyOf(Smallest(f)) <= hi /\ lo <= KeyOf(Largest(f))

OverlapInLevel(l, lo, hi) == \E f \in levels[l] : Overlaps(f, lo, hi)

LowKey(files)  == Min({KeyOf(Smallest(f)) : f \in files})
HighKey(files) == Max({KeyOf(Largest(f)) : f \in files})

Overlapping(l, lo, hi) == {f \in levels[l] : Overlaps(f, lo, hi)}

\* The range has grown with every table of files and finds no other table.
FromKey(lo, files) == Min({lo} \cup {KeyOf(Smallest(f)) : f \in files})
UpToKey(hi, files) == Max({hi} \cup {KeyOf(Largest(f)) : f \in files})

Grown(l, lo, hi, files) == Overlapping(l, FromKey(lo, files), UpToKey(hi, files)) \subseteq files

\* At level 0 the range grows with each table found, until it grows no more.
GetOverlappingInputs(l, lo, hi) ==
    IF l > 0 THEN Overlapping(l, lo, hi)
    ELSE {f \in levels[l] : \A files \in SUBSET levels[l] :
                               Grown(l, lo, hi, files) => f \in files}

Inputs(l, files) == GetOverlappingInputs(l, LowKey(files), HighKey(files))

Deeper(l, files) == IF l < NumLevels THEN Inputs(l, files) ELSE {}

\* Mutant: the levels between are not looked at.
PickLevelFarthest(f) ==
    IF OverlapInLevel(0, KeyOf(Smallest(f)), KeyOf(Largest(f))) THEN 0
    ELSE Max({l \in 0 .. MaxMemCompactLevel :
                l = 0 \/ ~OverlapInLevel(l, KeyOf(Smallest(f)), KeyOf(Largest(f)))})

PickLevelForMemTableOutput(f) ==
    LET lo == KeyOf(Smallest(f))
        hi == KeyOf(Largest(f))
        Free(l) == ~OverlapInLevel(l, lo, hi)
        Push(l) == Free(l) /\ SizeOf(Deeper(l + 1, {f})) <= MaxGrandparents
    IN  IF ~Free(0) THEN 0
        ELSE Max({l \in 0 .. MaxMemCompactLevel : \A i \in 1 .. l : Push(i)})

MaxBytesForLevel(l) ==
    LET bytes[m \in 1 .. l] == IF m = 1 THEN LevelLimit ELSE Growth * bytes[m - 1]
    IN  bytes[l]

\* Finalize: the score of a level, as a fraction; the first best level counts.
Score(l) == IF l = 0 THEN <<Cardinality(levels[0]), L0Trigger>>
            ELSE <<SizeOf(levels[l]), MaxBytesForLevel(l)>>

Higher(l, m) == Score(l)[1] * Score(m)[2] > Score(m)[1] * Score(l)[2]

Best(l) == \A m \in 0 .. NumLevels - 2 : IF m < l THEN Higher(l, m) ELSE ~Higher(m, l)

SizeCompaction == \E l \in 0 .. NumLevels - 2 : Score(l)[1] >= Score(l)[2]

\* PickCompaction: the first table behind compact_pointer_, or the first one.
NextAt(l) ==
    LET later == {f \in levels[l] : Largest(f) > pointer[l]}
    IN  FirstFile(IF later = {} THEN levels[l] ELSE later)

\* CompactRange: no more than one table's worth of a level above 0.
SomeOf(l, files) ==
    IF l = 0 THEN files
    ELSE {f \in files : SizeOf({g \in files : Smallest(g) < Smallest(f)}) < TargetSize}

\* Mutant: tables are taken at the upper level only.
SetupAlone(l, in0) ==
    [level |-> l, in0 |-> in0, in1 |-> {}, grandparents |-> Deeper(l + 2, in0),
     limit |-> Max(UNION in0)]

\* SetupOtherInputs: the tables of both levels, grown where that takes no
\* more tables of the next level, and those of the level behind it.
Setup(l, in0) ==
    LET in1  == Inputs(l + 1, in0)
        all  == in0 \cup in1
        more == Inputs(l, all)
        grow == /\ in1 # {}
                /\ Cardinality(more) > Cardinality(in0)
                /\ SizeOf(in1) + SizeOf(more) < ExpandedLimit
                /\ Cardinality(Inputs(l + 1, more)) = Cardinality(in1)
        top  == IF grow THEN more ELSE in0
        next == IF grow THEN Inputs(l + 1, more) ELSE in1
    IN  [level |-> l, in0 |-> top, in1 |-> next,
         grandparents |-> Deeper(l + 2, top \cup next),
         limit |-> Max(UNION top)]

---------------------------------------------------------------------------
(* What a compaction writes *)

SmallestSnapshot == IF snapshots = {} THEN LastSeq ELSE Min(snapshots)

\* Mutant: looks only one level behind the outputs.
IsNextLevelForKey(level, k) ==
    level + 2 < NumLevels => \A f \in levels[level + 2] : ~Covers(f, k)

IsBaseLevelForKey(level, k) ==
    \A l \in level + 2 .. NumLevels - 1 : \A f \in levels[l] : ~Covers(f, k)

\* The entry is dropped: a newer one of its key is old enough for every snapshot, or
\* it is a deletion with nothing behind it.
Dropped(level, e, last) ==
    \/ last <= SmallestSnapshot
    \/ /\ e \in deleted /\ Sequence(e) <= SmallestSnapshot
       /\ IsBaseLevelForKey(level, KeyOf(e))

\* DoCompactionWork at entry e.  `last' is last_sequence_for_key, `tables' the
\* outputs that are finished and `open' the one that is added to, {} for none.
WorkOn(c, acc, e) ==
    LET last == IF KeyOf(e) = acc.key THEN acc.last ELSE MaxWrites + 1
        drop == Dropped(c.level, e, last)
        passed == {g \in c.grandparents : Largest(g) < e}
        size == acc.size + IF acc.seen THEN SizeOf(passed \ acc.passed) ELSE 0
        stop == size > MaxGrandparents
        done == IF stop THEN acc.tables \cup {acc.open} ELSE acc.tables
        rest == IF stop THEN {} ELSE acc.open
        full == ~drop /\ Cardinality(rest \cup {e}) >= TargetSize
    IN  [key |-> KeyOf(e), last |-> Sequence(e), seen |-> TRUE, passed |-> passed,
         size |-> IF stop THEN 0 ELSE size,
         tables |-> IF full THEN done \cup {rest \cup {e}} ELSE done,
         open |-> IF drop THEN rest ELSE IF full THEN {} ELSE rest \cup {e}]

\* Its entries in order, with the snapshots of its start.
Compacted(c) ==
    LET start == [key |-> 0, last |-> 0, seen |-> FALSE, passed |-> {}, size |-> 0,
                  tables |-> {}, open |-> {}]
        after[e \in 0 .. Entry(MaxKey, 0)] ==
            IF e = 0 THEN start
            ELSE IF e \in UNION (c.in0 \cup c.in1) THEN WorkOn(c, after[e - 1], e) ELSE after[e - 1]
        end == after[Entry(MaxKey, 0)]
    IN  (end.tables \cup {end.open}) \ {{}}

IsTrivialMove(c) == /\ Cardinality(c.in0) = 1
                    /\ c.in1 = {}
                    /\ SizeOf(c.grandparents) <= MaxGrandparents

\* Keys whose entries ended up in two of the tables.
CutBy(tables) == {k \in Key : \E f, g \in tables :
                    f # g /\ Visible(f, k, LastSeq) # {} /\ Visible(g, k, LastSeq) # {}}

---------------------------------------------------------------------------
(* Steps *)

Extra == ~aborted /\ extras < MaxExtras /\ LastSeq + extras < MaxCalls /\ extras' = extras + 1

Init == /\ written = {} /\ deleted = {} /\ mem = {}
        /\ levels = [l \in Level |-> {}]
        /\ pointer = [l \in Level |-> 0]
        /\ seekFile = None /\ snapshots = {}
        /\ comp = None /\ manual = None
        /\ extras = 0 /\ cut = {} /\ aborted = FALSE

\* Put and Delete.
Write(k, del) ==
    /\ ~aborted /\ LastSeq < MaxWrites /\ LastSeq + extras < MaxCalls
    /\ LET e == Entry(k, LastSeq + 1)
       IN  /\ written' = written \cup {e}
           /\ deleted' = IF del THEN deleted \cup {e} ELSE deleted
           /\ mem' = mem \cup {e}
    /\ UNCHANGED <<levels, pointer, seekFile, snapshots, comp, manual, extras, cut,
                   aborted>>

GetSnapshot ==
    /\ Extra /\ LastSeq \notin snapshots
    /\ snapshots' = snapshots \cup {LastSeq}
    /\ UNCHANGED <<written, deleted, mem, levels, pointer, seekFile, comp, manual,
                   cut, aborted>>

ReleaseSnapshot(s) ==
    /\ ~aborted
    /\ snapshots' = snapshots \ {s}
    /\ UNCHANGED <<written, deleted, mem, levels, pointer, seekFile, comp, manual,
                   extras, cut, aborted>>

\* Builder and AppendVersion: a new version, unless an assert stops it.
NewVersion(new) ==
    IF \A l \in Level \ {0} : Disjoint(new[l])
    THEN levels' = new /\ seekFile' = None /\ aborted' = aborted
    ELSE aborted' = TRUE /\ UNCHANGED <<levels, seekFile>>

\* CompactMemTable, by itself or while a compaction is running.
Flush ==
    /\ ~aborted /\ mem # {}
    /\ mem' = {}
    /\ NewVersion([levels EXCEPT ![PickLevelForMemTableOutput(mem)] = @ \cup {mem}])
    /\ UNCHANGED <<written, deleted, pointer, snapshots, comp, manual, extras, cut>>

\* UpdateStats: the first of several tables that were read has used up its
\* allowed seeks.
UpdateStats(files) ==
    /\ Cardinality(files) > 1 /\ seekFile = None
    /\ \E l \in Level : \E f \in FirstOfFiles(files) :
          f \in levels[l] /\ seekFile' = [level |-> l, file |-> f]
    /\ Extra
    /\ UNCHANGED <<written, deleted, mem, levels, pointer, snapshots, comp, manual,
                   cut, aborted>>

\* A Get reads until it finds the key.
GetCharges(k, s) ==
    /\ Visible(mem, k, s) = {}
    /\ UpdateStats({f \in FilesRead(k, s) : \A g \in Hits(k, s) : ~ReadBefore(g, f)})

\* An iterator that stands at entry e samples every table that covers it.
RecordReadSample(e) ==
    /\ \E l \in Level : \E f \in levels[l] : e \in f
    /\ UpdateStats(FilesRead(KeyOf(e), Sequence(e)))

\* Start working on c, or just move its table.
Begin(c, isManual, end) ==
    /\ pointer' = [pointer EXCEPT ![c.level] = c.limit]
    /\ IF ~isManual /\ IsTrivialMove(c)
       THEN /\ NewVersion([levels EXCEPT ![c.level] = @ \ c.in0, ![c.level + 1] = @ \cup c.in0])
            /\ UNCHANGED comp
       ELSE /\ comp' = [level |-> c.level, inputs |-> c.in0 \cup c.in1,
                        outputs |-> Compacted(c), manual |-> isManual,
                        end |-> end, was |-> pointer[c.level]]
            /\ UNCHANGED <<levels, seekFile, aborted>>
    /\ UNCHANGED <<written, deleted, mem, snapshots, manual, extras, cut>>

\* PickCompaction: by size before by seeks.
Compact ==
    /\ ~aborted /\ comp = None /\ (SizeCompaction \/ seekFile # None)
    /\ manual # None => ~manual.posted
    /\ \E l \in 0 .. NumLevels - 2 :
          /\ IF SizeCompaction THEN Best(l) ELSE l = seekFile.level
          /\ LET f == IF SizeCompaction THEN NextAt(l) ELSE seekFile.file
             IN  Begin(Setup(l, IF l = 0 THEN Inputs(0, {f}) ELSE {f}), FALSE, 0)

\* TEST_CompactRange: asked for, and put up again after each part.
AskManual(l, lo, hi) ==
    /\ manual = None /\ Extra
    /\ manual' = [level |-> l, lo |-> lo, hi |-> hi, posted |-> TRUE]
    /\ UNCHANGED <<written, deleted, mem, levels, pointer, seekFile, snapshots,
                   comp, cut, aborted>>

PostManual ==
    /\ ~aborted /\ manual # None /\ ~manual.posted
    /\ manual' = [manual EXCEPT !.posted = TRUE]
    /\ UNCHANGED <<written, deleted, mem, levels, pointer, seekFile, snapshots,
                   comp, extras, cut, aborted>>

CompactManual ==
    /\ ~aborted /\ comp = None /\ manual # None /\ manual.posted
    /\ LET found == GetOverlappingInputs(manual.level, manual.lo, manual.hi)
           c     == Setup(manual.level, SomeOf(manual.level, found))
       IN  IF found = {}
           THEN /\ manual' = None
                /\ UNCHANGED <<written, deleted, mem, levels, pointer, seekFile,
                               snapshots,
                               comp, extras, cut, aborted>>
           ELSE Begin(c, TRUE, KeyOf(Largest(LastFile(c.in0))))

\* InstallCompactionResults, and the end of BackgroundCompaction.
Install ==
    /\ ~aborted /\ comp # None
    /\ NewVersion([levels EXCEPT ![comp.level] = @ \ comp.inputs,
                                 ![comp.level + 1] = (@ \ comp.inputs) \cup comp.outputs])
    /\ cut' = cut \cup CutBy(comp.outputs)
    /\ comp' = None
    /\ manual' = IF comp.manual THEN [manual EXCEPT !.lo = comp.end, !.posted = FALSE]
                 ELSE manual
    /\ UNCHANGED <<written, deleted, mem, pointer, snapshots, extras>>

\* The store is closed or the process dies, and it is opened again: what the
\* memtable held is replayed from the log into a table of level 0.
Reopen ==
    /\ Extra
    /\ levels' = [levels EXCEPT ![0] = IF mem = {} THEN @ ELSE @ \cup {mem}]
    /\ mem' = {} /\ snapshots' = {} /\ seekFile' = None /\ comp' = None /\ manual' = None
    /\ pointer' = IF comp = None THEN pointer ELSE [pointer EXCEPT ![comp.level] = comp.was]
    /\ UNCHANGED <<written, deleted, cut, aborted>>

Background == Flush \/ Compact \/ CompactManual \/ Install \/ PostManual

User == \/ \E k \in Key : Write(k, FALSE)
        \/ \E k \in Deletable : Write(k, TRUE)
        \/ GetSnapshot
        \/ \E s \in snapshots : ReleaseSnapshot(s)
        \/ \E k \in Key, s \in snapshots \cup {LastSeq} : GetCharges(k, s)
        \/ \E e \in written : RecordReadSample(e)
        \/ \E l \in 0 .. NumLevels - 2, r \in Ranges : AskManual(l, r[1], r[2])
        \/ Reopen

Next == Background \/ User

Spec == Init /\ [][Next]_vars

---------------------------------------------------------------------------
(* Properties *)

\* What Get owes a reader at sequence number s.
Newest(k, s) == Saved(Visible(written, k, s))

Readers == snapshots \cup {LastSeq}

\* Get finds the newest entry at every snapshot, as the comment in
\* Version::Get promises of every key.
ReadsNewest == \A k \in Key, s \in Readers : Get(k, s) = Newest(k, s)

\* Get, and an iterator over all of it, find the newest entry of every key written
\* that no compaction has written to two tables, at every snapshot: flushes into deep
\* levels, moved tables, grown inputs and seek compactions never put an older
\* entry in front, no entry a snapshot needs is dropped, and no deleted key comes
\* back when its deletion is.
UncutReadsNewest ==
    \A k \in {KeyOf(e) : e \in written} \ cut, s \in Readers :
        Get(k, s) = Newest(k, s) /\ Scan(k, s) = Newest(k, s)

\* The asserts of Builder hold.
AssertsHold == ~aborted

\* They hold whatever is flushed while an automatic compaction runs.
OnlyManualAborts == [][aborted' => comp # None /\ comp.manual]_vars
=============================================================================
