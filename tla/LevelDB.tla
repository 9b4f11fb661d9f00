------------------------------ MODULE LevelDB ------------------------------
(***************************************************************************)
(* DBImpl of the leveldb pod: the queue of writers and their group commit, *)
(* the memtable and its log, the background thread that flushes the        *)
(* memtable and compacts tables, the MANIFEST, readers that pin a version, *)
(* and recovery after a crash.                                             *)
(*                                                                         *)
(* A step is a critical section of mutex_, or the work done between        *)
(* Unlock() and Lock().  Keys and values are left out: a batch is its      *)
(* number, an entry is a batch with its sequence number, a table is a set  *)
(* of entries.  Levels are level 0 and "deep" (what they hold is in        *)
(* Versions).  A log is one 32 KB block: behind a torn record the reader   *)
(* of the log finds nothing more.                                          *)
(***************************************************************************)
EXTENDS Naturals, FiniteSets, SequencesExt

CONSTANTS Thread,      \* threads that write
          Reader,      \* threads that read
          MaxBatch,    \* batches (and forced flushes) issued in a behaviour
          MaxTrouble,  \* crashes, closes and I/O errors in a behaviour
          WriteBuffer, \* write_buffer_size, in entries
          MaxGroup,    \* the batches a group may hold
          L0Trigger, L0Slowdown, L0Stop,   \* config::kL0_...
          ReuseLogs    \* options_.reuse_logs

ASSUME LevelDBAssumption ==
    /\ {MaxBatch, MaxTrouble, WriteBuffer} \subseteq Nat
    /\ {MaxGroup, L0Trigger, L0Slowdown, L0Stop} \subseteq Nat \ {0}
    /\ L0Trigger <= L0Slowdown /\ L0Slowdown <= L0Stop
    /\ ReuseLogs \in BOOLEAN

VARIABLES
    logs,      \* log number -> [recs, synced], on disk
    tables,    \* table number -> set of entries, on disk
    manifest,  \* what CURRENT's MANIFEST adds up to
    writers,   \* writers_: the threads waiting in Write, front first
    job,       \* what each of them asks, and how far it is
    group,     \* how many writers the front one answers for
    mem,       \* mem_: a set of entries
    imm,       \* imm_: empty, or one set of entries
    logfile,   \* logfile_number_
    version,   \* current_, with the log_number_ of the VersionSet
    nextFile,  \* next_file_number_
    lastSeq,   \* last_sequence_
    edit,      \* the VersionEdit that LogAndApply is writing
    scheduled, \* bg_compaction_scheduled_
    bgError,   \* ~bg_error_.ok()
    pending,   \* pending_outputs_
    flush,     \* CompactMemTable of the background thread
    comp,      \* BackgroundCompaction of the background thread
    mode,      \* how far Open, or the destructor, is
    read,      \* what each reader has pinned
    issued, troubles, \* batches, and crashes and errors, so far
    acked,     \* batches answered with OK
    sure,      \* of them, those that asked for sync
    committed, \* entries the open store holds
    shaken,    \* batches a machine crash cut out of an unsynced log
    behindTear \* batches appended to a log behind a torn record

disk   == <<logs, tables, manifest>>
queue  == <<writers, job, group>>
memory == <<mem, imm, logfile>>
vset   == <<version, nextFile, lastSeq, edit>>
back   == <<scheduled, bgError, pending, flush, comp>>
bounds == <<issued, troubles>>
ghosts == <<acked, sure, committed, shaken, behindTear>>
vars   == <<disk, queue, memory, vset, back, mode, read, bounds, ghosts>>

None == 0
Idle == [pc |-> "idle", batch |-> {}, sync |-> FALSE, slow |-> FALSE]
NoFlush == [pc |-> "idle", file |-> None]
NoComp  == [pc |-> "idle", inputs |-> {}, file |-> None]

-----------------------------------------------------------------------------
(* What the files say                                                      *)

Torn == {}          \* a record of which only a part reached the file

Ids(entries) == {e.batch : e \in entries}

\* The file x, new or not, holds v.
With(files, x, v) == [f \in DOMAIN files \cup {x} |-> IF f = x THEN v ELSE files[f]]

\* The files of both, or the new ones.
Over(new, files) ==
    [f \in DOMAIN new \cup DOMAIN files |-> IF f \in DOMAIN new THEN new[f] ELSE files[f]]

NoFiles == [f \in {} |-> {}]

NewLog == [recs |-> <<>>, synced |-> 0]

FilesOf(v) == v.l0 \cup v.deep

InTables(files) == UNION {tables[f] : f \in files \cap DOMAIN tables}

\* The entries a reader of a log finds: up to the first torn record.
Readable(recs) ==
    UNION {recs[i] : i \in {j \in DOMAIN recs :
                               \A k \in 1..j : recs[k] # Torn}}

\* Mutant: the log of the descriptor itself is taken for flushed.
LiveLogsNewer == {n \in DOMAIN logs : n > manifest.log}

LiveLogs == {n \in DOMAIN logs : n >= manifest.log}

\* What Open would find on the disk as it is.
Recoverable ==
    InTables(FilesOf(manifest)) \cup
    UNION {Readable(logs[n].recs) : n \in LiveLogs}

\* What Open would find if the machine stopped now and no unsynced byte of a
\* log had reached the disk.
RecoverableSynced ==
    InTables(FilesOf(manifest)) \cup
    UNION {Readable(SubSeq(logs[n].recs, 1, logs[n].synced)) : n \in LiveLogs}

NeedsCompaction(v) == Cardinality(v.l0) >= L0Trigger

\* Mutant: an immutable memtable is no reason to be scheduled.
WantedForLevels(v, i, err) == mode = "open" /\ ~err /\ NeedsCompaction(v)

\* MaybeScheduleCompaction when nothing is scheduled.
Wanted(v, i, err) == mode = "open" /\ ~err /\ (i # <<>> \/ NeedsCompaction(v))

\* Mutant: the versions that readers refer to are forgotten.
LiveTablesNow(v, keep) == keep \cup FilesOf(v)

\* The files DeleteObsoleteFiles keeps: those of the versions that are alive
\* (the current one, and what readers refer to), and keep: the outputs under
\* way, and the inputs of a compaction under way.
LiveTables(v, keep) ==
    keep \cup FilesOf(v) \cup UNION {read[r].files : r \in Reader}

\* Mutant: files are deleted after an error too.
DeleteObsoleteAlways(v, keep, err) ==
    /\ logs' = [n \in {m \in DOMAIN logs : m >= v.log} |-> logs[n]]
    /\ tables' = [f \in DOMAIN tables \cap LiveTables(v, keep) |-> tables[f]]

DeleteObsoleteFiles(v, keep, err) ==
    IF err
    THEN UNCHANGED <<logs, tables>>
    ELSE /\ logs' = [n \in {m \in DOMAIN logs : m >= v.log} |-> logs[n]]
         /\ tables' = [f \in DOMAIN tables \cap LiveTables(v, keep) |-> tables[f]]

-----------------------------------------------------------------------------
(* Write                                                                   *)

AtFront(t) == writers # <<>> /\ Head(writers) = t

\* Write called: Writer w is pushed on writers_.  A batch of {} is the NULL
\* batch of TEST_CompactMemTable.
Write(t, batch, sync) ==
    /\ mode = "open" /\ job[t].pc = "idle" /\ issued < MaxBatch
    /\ issued' = issued + 1
    /\ writers' = Append(writers, t)
    /\ job' = [job EXCEPT ![t] = [pc |-> "queued", batch |-> batch,
                                  sync |-> sync, slow |-> FALSE]]
    /\ UNCHANGED <<disk, group, memory, vset, back, mode, read, troubles, ghosts>>

\* The tail of Write: the first n writers leave the queue with the status ok.
Answer(n, ok) ==
    LET done == {writers[i] : i \in 1..n}
        ids(ts) == UNION {job[t].batch : t \in ts}
    IN /\ writers' = SubSeq(writers, n + 1, Len(writers))
       /\ job' = [t \in Thread |-> IF t \in done THEN Idle ELSE job[t]]
       /\ group' = 0
       /\ acked' = IF ok THEN acked \cup ids(done) ELSE acked
       /\ sure' = IF ok THEN sure \cup ids({t \in done : job[t].sync}) ELSE sure

\* Mutant: a sync write joins any batch.
BuildBatchGroupAny ==
    Max({n \in DOMAIN writers :
            Cardinality(UNION {job[writers[i]].batch : i \in 1..n}) <= MaxGroup})

\* BuildBatchGroup: how many writers the front one takes along.  A sync write
\* never joins the batch of a non-sync write, and the batch stays small.
BuildBatchGroup ==
    Max({n \in DOMAIN writers :
            /\ \A i \in 2..n : job[writers[i]].sync => job[Head(writers)].sync
            /\ Cardinality(UNION {job[writers[i]].batch : i \in 1..n}) <= MaxGroup})

\* The entries of the group, numbered from LastSequence() + 1 on.
GroupEntries ==
    LET Upto(i) == {j \in 1..i : job[writers[j]].batch # {}}
    IN UNION {{[batch |-> b, seq |-> lastSeq + Cardinality(Upto(i))]
                  : b \in job[writers[i]].batch} : i \in 1..group}

\* MakeRoomForWrite is at work for the front writer, which holds the mutex.
MakingRoom(t) == AtFront(t) /\ job[t].pc = "queued" /\ ~bgError

MustDelay(t) == /\ ~job[t].slow /\ job[t].batch # {}
                /\ Cardinality(version.l0) >= L0Slowdown

HasRoom(t) == job[t].batch # {} /\ Cardinality(mem) <= WriteBuffer

BadBackground(t) ==
    /\ AtFront(t) /\ job[t].pc = "queued" /\ bgError
    /\ Answer(1, FALSE)
    /\ UNCHANGED <<disk, memory, vset, back, mode, read, bounds, committed, shaken, behindTear>>

Delay(t) ==
    /\ MakingRoom(t) /\ MustDelay(t)
    /\ job' = [job EXCEPT ![t].slow = TRUE]
    /\ UNCHANGED <<disk, writers, group, memory, vset, back, mode, read, bounds, ghosts>>

StartGroup(t) ==
    /\ job' = [job EXCEPT ![t].pc = "append"]
    /\ group' = BuildBatchGroup
    /\ UNCHANGED <<writers, acked, sure>>

Proceed(t) ==
    /\ MakingRoom(t) /\ ~MustDelay(t) /\ HasRoom(t)
    /\ StartGroup(t)
    /\ UNCHANGED <<disk, memory, vset, back, mode, read, bounds, committed, shaken, behindTear>>

MaySwitch(t) ==
    /\ MakingRoom(t) /\ ~MustDelay(t) /\ ~HasRoom(t)
    /\ imm = <<>> /\ Cardinality(version.l0) < L0Stop

\* A new log and a new memtable; the old one becomes imm_.  The mutex is kept,
\* so the front writer goes on with its group, or, forced, is done.
SwitchMemTable(t) ==
    /\ MaySwitch(t)
    /\ logs' = With(logs, nextFile, NewLog)
    /\ logfile' = nextFile /\ nextFile' = nextFile + 1
    /\ imm' = <<mem>> /\ mem' = {}
    /\ scheduled' = (scheduled \/ Wanted(version, imm', bgError))
    /\ IF job[t].batch = {} THEN Answer(1, TRUE) ELSE StartGroup(t)
    /\ UNCHANGED <<tables, manifest, version, lastSeq, bgError, pending, flush, comp,
                   edit, mode, read, bounds, committed, shaken, behindTear>>

\* The new log cannot be created; its number is given back.
NewLogFails(t) ==
    /\ MaySwitch(t) /\ troubles < MaxTrouble
    /\ troubles' = troubles + 1
    /\ Answer(1, FALSE)
    /\ UNCHANGED <<disk, memory, vset, back, mode, read, issued,
                   committed, shaken, behindTear>>

\* log_->AddRecord, outside the mutex.
AppendTo(n, rec) == logs' = [logs EXCEPT ![n].recs = Append(@, rec)]

AddRecord(t) ==
    /\ job[t].pc = "append"
    /\ AppendTo(logfile, GroupEntries)
    /\ behindTear' = IF Torn \in ToSet(logs[logfile].recs)
                     THEN behindTear \cup Ids(GroupEntries) ELSE behindTear
    /\ job' = [job EXCEPT ![t].pc = IF job[t].sync THEN "sync" ELSE "insert"]
    /\ UNCHANGED <<tables, manifest, writers, group, memory, vset, back, mode, read, bounds,
                   acked, sure, committed, shaken>>

\* It fails, and leaves a part of the record behind or nothing.
AddRecordFails(t) ==
    /\ job[t].pc = "append" /\ troubles < MaxTrouble
    /\ troubles' = troubles + 1
    /\ AppendTo(logfile, Torn) \/ UNCHANGED logs
    /\ job' = [job EXCEPT ![t].pc = "failed"]
    /\ UNCHANGED <<tables, manifest, writers, group, memory, vset, back, mode, read,
                   issued, ghosts>>

SyncLog(t) ==
    /\ job[t].pc = "sync"
    /\ logs' = [logs EXCEPT ![logfile].synced = Len(logs[logfile].recs)]
    /\ job' = [job EXCEPT ![t].pc = "insert"]
    /\ UNCHANGED <<tables, manifest, writers, group, memory, vset, back, mode, read, bounds, ghosts>>

SyncLogFails(t) ==
    /\ job[t].pc = "sync" /\ troubles < MaxTrouble
    /\ troubles' = troubles + 1
    /\ job' = [job EXCEPT ![t].pc = "syncError"]
    /\ UNCHANGED <<disk, writers, group, memory, vset, back, mode, read, issued, ghosts>>

InsertInto(t) ==
    /\ job[t].pc = "insert"
    /\ mem' = mem \cup GroupEntries
    /\ job' = [job EXCEPT ![t].pc = "inserted"]
    /\ UNCHANGED <<disk, writers, group, imm, logfile, vset, back, mode, read, bounds, ghosts>>

\* Mutant: a batch whose sync failed is put in the memtable all the same.
FinishWriteInserts(t) ==
    /\ job[t].pc \in {"inserted", "failed", "syncError"}
    /\ bgError' = (bgError \/ job[t].pc = "syncError")
    /\ lastSeq' = lastSeq + Cardinality(GroupEntries)
    /\ LET in == IF job[t].pc = "failed" THEN {} ELSE GroupEntries
       IN mem' = mem \cup in /\ committed' = committed \cup in
    /\ Answer(group, job[t].pc = "inserted")
    /\ UNCHANGED <<disk, imm, logfile, version, nextFile, edit, scheduled, pending, flush, comp,
                   mode, read, bounds, shaken, behindTear>>

\* The mutex again: a sync error stops all later writes, the sequence moves on
\* whatever the status, and the whole group is answered.
FinishWrite(t) ==
    /\ job[t].pc \in {"inserted", "failed", "syncError"}
    /\ bgError' = (bgError \/ job[t].pc = "syncError")
    /\ lastSeq' = lastSeq + Cardinality(GroupEntries)
    /\ committed' = IF job[t].pc = "inserted" THEN committed \cup GroupEntries ELSE committed
    /\ Answer(group, job[t].pc = "inserted")
    /\ UNCHANGED <<disk, memory, version, nextFile, edit, scheduled, pending, flush, comp, mode,
                   read, bounds, shaken, behindTear>>

-----------------------------------------------------------------------------
(* The background thread                                                   *)

NoEdit == [del |-> {}, l0 |-> {}, deep |-> {}, log |-> 0]

\* Builder::Apply and SaveTo: what a version, or the sum of the edits in the
\* MANIFEST, becomes.
Applied(v, e) ==
    [v EXCEPT !.l0 = (@ \ e.del) \cup e.l0, !.deep = (@ \ e.del) \cup e.deep, !.log = e.log]

\* The record LogAndApply appends also carries the two counters.
Logged(e) == [Applied(manifest, e) EXCEPT !.next = nextFile, !.last = lastSeq]

\* The end of BackgroundCall.
CallEnds(v, i, err) == scheduled' = Wanted(v, i, err)

BackgroundIdle == scheduled /\ flush.pc = "idle" /\ comp.pc = "idle"

\* CompactMemTable: the first thing a background call does, and done between
\* two keys of a compaction too.  The table's number is taken and protected.
StartFlush ==
    /\ mode = "open" /\ imm # <<>> /\ flush.pc = "idle"
    /\ (BackgroundIdle /\ ~bgError) \/ comp.pc = "working"
    /\ flush' = [pc |-> "building", file |-> nextFile]
    /\ pending' = pending \cup {nextFile}
    /\ nextFile' = nextFile + 1
    /\ UNCHANGED <<disk, queue, memory, version, lastSeq, edit, scheduled, bgError, comp, mode,
                   read, bounds, ghosts>>

\* BuildTable, outside the mutex.  An empty memtable leaves no file.
BuildTable ==
    /\ flush.pc = "building"
    /\ tables' = IF imm[1] = {} THEN tables ELSE With(tables, flush.file, imm[1])
    /\ flush' = [flush EXCEPT !.pc = "built"]
    /\ UNCHANGED <<logs, manifest, queue, memory, vset, scheduled, bgError, pending, comp, mode,
                   read, bounds, ghosts>>

\* A flush ends without a new version: the memtable stays immutable.
FlushFails ==
    /\ bgError' = TRUE
    /\ flush' = NoFlush
    /\ pending' = pending \ {flush.file}
    /\ scheduled' = (comp.pc # "idle" /\ scheduled)

BuildTableFails ==
    /\ flush.pc = "building" /\ troubles < MaxTrouble
    /\ troubles' = troubles + 1
    /\ FlushFails
    /\ UNCHANGED <<disk, queue, memory, vset, comp, mode, read, issued, ghosts>>

\* The edit of a flush.  PickLevelForMemTableOutput chooses the level; earlier
\* logs are no longer needed.
FlushEdits ==
    LET e == [NoEdit EXCEPT !.log = logfile]
    IN IF imm[1] = {} THEN {e}
       ELSE {[e EXCEPT !.l0 = {flush.file}], [e EXCEPT !.deep = {flush.file}]}

\* Under the mutex again the table loses its protection, and LogAndApply
\* appends to the MANIFEST, outside the mutex, and syncs it.
LogFlush ==
    /\ flush.pc = "built" /\ mode = "open"
    /\ edit' \in FlushEdits
    /\ manifest' = Logged(edit')
    /\ flush' = [flush EXCEPT !.pc = "logged"]
    /\ pending' = pending \ {flush.file}
    /\ UNCHANGED <<logs, tables, queue, memory, version, nextFile, lastSeq, scheduled, bgError,
                   comp, mode, read, bounds, ghosts>>

\* The destructor was called meanwhile.
FlushStopped ==
    /\ flush.pc = "built" /\ mode = "closing"
    /\ FlushFails
    /\ UNCHANGED <<disk, queue, memory, vset, comp, mode, read, bounds, ghosts>>

\* The append or its sync fails: the record may be in the file all the same.
LogFlushFails ==
    /\ flush.pc = "built" /\ mode = "open" /\ troubles < MaxTrouble
    /\ troubles' = troubles + 1
    /\ (\E e \in FlushEdits : manifest' = Logged(e)) \/ UNCHANGED manifest
    /\ FlushFails
    /\ UNCHANGED <<logs, tables, queue, memory, vset, comp, mode, read, issued, ghosts>>

\* The new version, the memtable gone, and the files nobody needs deleted.
InstallFlush ==
    /\ flush.pc = "logged"
    /\ version' = Applied(version, edit)
    /\ edit' = NoEdit
    /\ imm' = <<>>
    /\ flush' = NoFlush
    /\ DeleteObsoleteFiles(version', pending \cup comp.inputs, bgError)
    /\ IF comp.pc = "idle" THEN CallEnds(version', <<>>, bgError) ELSE UNCHANGED scheduled
    /\ UNCHANGED <<manifest, queue, mem, logfile, nextFile, lastSeq, bgError, pending, comp, mode,
                   read, bounds, ghosts>>

\* BackgroundCompaction without an immutable memtable takes files of level 0
\* and what they overlap below (which ones is for Versions to say).
PickCompaction(inputs) ==
    /\ mode = "open" /\ BackgroundIdle
    /\ imm = <<>> /\ ~bgError /\ NeedsCompaction(version)
    /\ \/ comp' = [pc |-> "working", inputs |-> inputs, file |-> None]
       \/ \* IsTrivialMove: no table is written
          /\ Cardinality(inputs) = 1
          /\ comp' = [pc |-> "built", inputs |-> inputs, file |-> None]
    /\ UNCHANGED <<disk, queue, memory, vset, scheduled, bgError, pending, flush, mode, read,
                   bounds, ghosts>>

\* A call that finds nothing to do, an error, or the destructor at work.
NothingToDo ==
    /\ mode \in {"open", "closing"} /\ BackgroundIdle
    /\ mode = "closing" \/ bgError \/ (imm = <<>> /\ ~NeedsCompaction(version))
    /\ CallEnds(version, imm, bgError)
    /\ UNCHANGED <<disk, queue, memory, vset, bgError, pending, flush, comp, mode, read, bounds,
                   ghosts>>

\* A short critical section in DoCompactionWork.
OpenCompactionOutputFile ==
    /\ mode = "open" /\ flush.pc = "idle"
    /\ comp.pc = "working" /\ comp.file = None
    /\ comp' = [comp EXCEPT !.file = nextFile]
    /\ pending' = pending \cup {nextFile}
    /\ nextFile' = nextFile + 1
    /\ tables' = With(tables, nextFile, {})
    /\ UNCHANGED <<logs, manifest, queue, memory, version, lastSeq, edit, scheduled, bgError,
                   flush, mode, read, bounds, ghosts>>

\* The inputs, merged, are in the file, and the file is synced.
FinishCompactionOutputFile ==
    /\ mode = "open" /\ flush.pc = "idle"
    /\ comp.pc = "working" /\ comp.file \in DOMAIN tables
    /\ tables' = [tables EXCEPT ![comp.file] = InTables(comp.inputs)]
    /\ comp' = [comp EXCEPT !.pc = "built"]
    /\ UNCHANGED <<logs, manifest, queue, memory, vset, scheduled, bgError, pending, flush, mode,
                   read, bounds, ghosts>>

CompactionEdit ==
    [del |-> comp.inputs, l0 |-> {}, log |-> version.log,
     deep |-> IF comp.file = None THEN comp.inputs ELSE {comp.file}]

\* InstallCompactionResults, or the move: LogAndApply.
LogCompaction ==
    /\ comp.pc = "built"
    /\ edit' = CompactionEdit
    /\ manifest' = Logged(edit')
    /\ comp' = [comp EXCEPT !.pc = "logged"]
    /\ UNCHANGED <<logs, tables, queue, memory, version, nextFile, lastSeq, scheduled, bgError,
                   pending, flush, mode, read, bounds, ghosts>>

\* CleanupCompaction, ReleaseInputs, and only then DeleteObsoleteFiles (which
\* a move has no need of).
InstallCompaction ==
    /\ comp.pc = "logged"
    /\ version' = Applied(version, edit)
    /\ edit' = NoEdit
    /\ comp' = NoComp
    /\ pending' = pending \ {comp.file}
    /\ IF comp.file = None THEN UNCHANGED <<logs, tables>>
       ELSE DeleteObsoleteFiles(version', pending', bgError)
    /\ CallEnds(version', imm, bgError)
    /\ UNCHANGED <<manifest, queue, memory, nextFile, lastSeq, bgError, flush, mode, read, bounds,
                   ghosts>>

\* The error is recorded before DeleteObsoleteFiles is called.
CompactionEnds ==
    /\ bgError' = TRUE
    /\ comp' = NoComp
    /\ pending' = pending \ {comp.file}
    /\ DeleteObsoleteFiles(version, pending', bgError')
    /\ scheduled' = FALSE

\* The destructor was called: DoCompactionWork leaves its loop.
CompactionStopped ==
    /\ comp.pc = "working" /\ flush.pc = "idle" /\ mode = "closing"
    /\ CompactionEnds
    /\ UNCHANGED <<manifest, queue, memory, vset, flush, mode, read, bounds, ghosts>>

\* The output file, or the MANIFEST, cannot be written.
CompactionFails ==
    /\ comp.pc \in {"working", "built"} /\ flush.pc = "idle" /\ troubles < MaxTrouble
    /\ troubles' = troubles + 1
    /\ \/ comp.pc = "built" /\ manifest' = Logged(CompactionEdit)
       \/ UNCHANGED manifest
    /\ CompactionEnds
    /\ UNCHANGED <<queue, memory, vset, flush, mode, read, issued, ghosts>>

-----------------------------------------------------------------------------
(* Readers                                                                 *)

Nothing == [snap |-> None, seen |-> {}, files |-> {}, due |-> {}]

\* Get, or an iterator: the sequence, the memtables and the version are taken
\* under the mutex, and read outside it.  due is what it should find.
BeginGet(r) ==
    /\ mode = "open" /\ lastSeq # 0 /\ read[r] = Nothing
    /\ read' = [read EXCEPT ![r] = [snap |-> lastSeq,
                                    seen |-> mem \cup UNION ToSet(imm),
                                    files |-> FilesOf(version),
                                    due |-> committed]]
    /\ UNCHANGED <<disk, queue, memory, vset, back, mode, bounds, ghosts>>

EndGet(r) ==
    /\ read[r] # Nothing
    /\ read' = [read EXCEPT ![r] = Nothing]
    /\ UNCHANGED <<disk, queue, memory, vset, back, mode, bounds, ghosts>>

\* What the reader finds: entries beyond its sequence are skipped.
Found(r) == {e \in read[r].seen \cup InTables(read[r].files) : e.seq <= read[r].snap}

-----------------------------------------------------------------------------
(* Closing, crashing, and Open                                             *)

NoVersion == [l0 |-> {}, deep |-> {}, log |-> 0]

\* What lives in memory is gone.
Reset ==
    /\ mode' = "down"
    /\ writers' = <<>> /\ job' = [t \in Thread |-> Idle] /\ group' = 0
    /\ mem' = {} /\ imm' = <<>> /\ logfile' = 0
    /\ version' = NoVersion /\ nextFile' = 0 /\ lastSeq' = 0 /\ edit' = NoEdit
    /\ scheduled' = FALSE /\ bgError' = FALSE /\ pending' = {}
    /\ flush' = NoFlush /\ comp' = NoComp
    /\ read' = [r \in Reader |-> Nothing]
    /\ committed' = {}

\* The destructor.  Nobody may be using the store.
BeginClose ==
    /\ mode = "open" /\ troubles < MaxTrouble
    /\ writers = <<>> /\ \A r \in Reader : read[r] = Nothing
    /\ troubles' = troubles + 1
    /\ mode' = "closing"
    /\ UNCHANGED <<disk, queue, memory, vset, back, read, issued, ghosts>>

EndClose ==
    /\ mode = "closing" /\ ~scheduled
    /\ Reset
    /\ UNCHANGED <<disk, bounds, acked, sure, shaken, behindTear>>

\* The process is killed.  A record on its way to the log may leave a part.
Kill ==
    /\ mode # "down" /\ troubles < MaxTrouble
    /\ troubles' = troubles + 1
    /\ \/ UNCHANGED logs
       \/ (\E t \in Thread : job[t].pc = "append") /\ AppendTo(logfile, Torn)
    /\ Reset
    /\ UNCHANGED <<tables, manifest, issued, acked, sure, shaken, behindTear>>

\* The machine stops: of what was appended to a log since its last sync, any
\* prefix is left, and perhaps a part of the next record.
MachineCrash ==
    /\ mode # "down" /\ troubles < MaxTrouble
    /\ troubles' = troubles + 1
    /\ \E keep \in [DOMAIN logs -> 0..MaxBatch], tear \in SUBSET DOMAIN logs :
          /\ \A n \in DOMAIN logs :
                /\ logs[n].synced <= keep[n] /\ keep[n] <= Len(logs[n].recs)
                /\ n \in tear => keep[n] < Len(logs[n].recs)
          /\ \E n \in DOMAIN logs : keep[n] < Len(logs[n].recs)
          /\ logs' = [n \in DOMAIN logs |->
                         LET left == SubSeq(logs[n].recs, 1, keep[n])
                         IN [recs |-> IF n \in tear THEN Append(left, Torn) ELSE left,
                             synced |-> logs[n].synced]]
    /\ UNCHANGED <<tables, manifest, issued, acked, sure, behindTear>>
    /\ shaken' = shaken \cup (Ids(Recoverable) \ Ids(Recoverable'))
    /\ Reset

\* Is the last log kept as the log of the new incarnation?
ReusedLog ==
    {n \in LiveLogs : /\ ReuseLogs /\ \A k \in LiveLogs : k <= n
                      /\ Cardinality(Readable(logs[n].recs)) <= WriteBuffer}

\* Mutant: the number of a log that the descriptor does not know is not marked.
RecoverLogFileUnmarked(acc, n) ==
    LET found == Readable(logs[n].recs)
    IN IF n \in ReusedLog \/ found = {} THEN acc
       ELSE [next |-> acc.next + 1, made |-> With(acc.made, acc.next, found)]

\* RecoverLogFile for the logs in order: a table for each that is not reused
\* and not empty; MarkFileNumberUsed(log) after each.
RecoverLogFile(acc, n) ==
    LET found == Readable(logs[n].recs)
        Past(x) == IF x <= n THEN n + 1 ELSE x
    IN IF n \in ReusedLog \/ found = {}
       THEN [acc EXCEPT !.next = Past(@)]
       ELSE [next |-> Past(acc.next + 1), made |-> With(acc.made, acc.next, found)]

ReplayStart == [next |-> 1 + (IF manifest.next < manifest.log THEN manifest.log
                              ELSE manifest.next),
                made |-> NoFiles]

\* After the logs of the descriptor with numbers below n.
Replayed[n \in Nat] ==
    IF n = 0 THEN ReplayStart
    ELSE IF n - 1 \in LiveLogs THEN RecoverLogFile(Replayed[n - 1], n - 1)
    ELSE Replayed[n - 1]

Replay == Replayed[1 + Max({0} \cup LiveLogs)]

\* Mutant: the sequences in the logs are not looked at.
DescriptorSequence(found) == manifest.last

\* The last sequence: of the descriptor, or of a log, where found is.
RecoveredSequence(found) == Max({manifest.last} \cup {e.seq : e \in found})

\* Open: VersionSet::Recover, the logs of the descriptor and all newer ones,
\* and a new log unless the last one goes on.
Recover ==
    /\ mode = "down"
    /\ FilesOf(manifest) \subseteq DOMAIN tables
    /\ LET found == UNION {Readable(logs[n].recs) : n \in LiveLogs}
           made == Replay.made
           own == IF ReusedLog # {} THEN CHOOSE n \in ReusedLog : TRUE ELSE Replay.next
           save == ~ReuseLogs \/ made # NoFiles
       IN /\ tables' = Over(made, tables)
          /\ logs' = IF own \in DOMAIN logs THEN logs ELSE With(logs, own, NewLog)
          /\ logfile' = own
          /\ mem' = IF ReusedLog # {} THEN Readable(logs[own].recs) ELSE {}
          /\ nextFile' = IF ReusedLog # {} THEN Replay.next ELSE own + 1
          /\ lastSeq' = RecoveredSequence(found)
          /\ version' = [l0 |-> manifest.l0, deep |-> manifest.deep, log |-> manifest.log]
          /\ edit' = [NoEdit EXCEPT !.l0 = DOMAIN made, !.log = own]
          /\ mode' = IF save THEN "replayed" ELSE "saved"
    /\ UNCHANGED <<manifest, queue, imm, back, read, bounds, ghosts>>

\* save_manifest: LogAndApply, which here writes a MANIFEST of its own and
\* renames CURRENT to it.
SaveManifest ==
    /\ mode = "replayed"
    /\ manifest' = Logged(edit)
    /\ version' = Applied(version, edit)
    /\ edit' = NoEdit
    /\ mode' = "saved"
    /\ UNCHANGED <<logs, tables, queue, memory, nextFile, lastSeq, back, read, bounds, ghosts>>

OpenFails ==
    /\ mode = "replayed" /\ troubles < MaxTrouble
    /\ troubles' = troubles + 1
    /\ Reset
    /\ UNCHANGED <<disk, issued, acked, sure, shaken, behindTear>>

FinishOpen ==
    /\ mode = "saved"
    /\ mode' = "open"
    /\ DeleteObsoleteFiles(version, {}, FALSE)
    /\ edit' = NoEdit
    /\ committed' = mem \cup InTables(FilesOf(version))
    /\ scheduled' = NeedsCompaction(version)
    /\ UNCHANGED <<manifest, queue, memory, version, nextFile, lastSeq, bgError, pending, flush,
                   comp, read, bounds, acked, sure, shaken, behindTear>>

-----------------------------------------------------------------------------
Init ==
    /\ logs = NoFiles /\ tables = NoFiles
    /\ manifest = [l0 |-> {}, deep |-> {}, log |-> 0, next |-> 2, last |-> 0]   \* NewDB
    /\ writers = <<>> /\ job = [t \in Thread |-> Idle] /\ group = 0
    /\ mem = {} /\ imm = <<>> /\ logfile = 0
    /\ version = NoVersion /\ nextFile = 0 /\ lastSeq = 0 /\ edit = NoEdit
    /\ scheduled = FALSE /\ bgError = FALSE /\ pending = {}
    /\ flush = NoFlush /\ comp = NoComp
    /\ mode = "down" /\ read = [r \in Reader |-> Nothing]
    /\ issued = 0 /\ troubles = 0
    /\ acked = {} /\ sure = {} /\ committed = {} /\ shaken = {} /\ behindTear = {}

WriterStep(t) ==
    \/ BadBackground(t) \/ Delay(t) \/ Proceed(t) \/ SwitchMemTable(t)
    \/ AddRecord(t) \/ SyncLog(t) \/ InsertInto(t) \/ FinishWrite(t)

BackgroundStep ==
    \/ StartFlush \/ BuildTable \/ LogFlush \/ InstallFlush
    \/ \E some \in SUBSET version.l0 \ {{}}, below \in SUBSET version.deep :
          PickCompaction(some \cup below)
    \/ NothingToDo
    \/ OpenCompactionOutputFile \/ FinishCompactionOutputFile
    \/ LogCompaction \/ InstallCompaction
    \/ FlushStopped \/ CompactionStopped

OpenStep == Recover \/ SaveManifest \/ FinishOpen \/ EndClose

Fault ==
    \/ \E t \in Thread : NewLogFails(t) \/ AddRecordFails(t) \/ SyncLogFails(t)
    \/ BuildTableFails \/ LogFlushFails \/ CompactionFails \/ OpenFails
    \/ Kill \/ MachineCrash

Client ==
    \/ \E t \in Thread, sync \in BOOLEAN : Write(t, {issued + 1}, sync)
    \/ \E t \in Thread : Write(t, {}, FALSE)
    \/ \E r \in Reader : BeginGet(r) \/ EndGet(r)
    \/ BeginClose

Next ==
    \/ \E t \in Thread : WriterStep(t)
    \/ BackgroundStep \/ OpenStep \/ Fault \/ Client

\* Threads that can run do run, and Open is called after a crash.  Nothing is
\* assumed of clients and faults.
Fairness ==
    /\ \A t \in Thread : WF_vars(WriterStep(t))
    /\ WF_vars(BackgroundStep)
    /\ WF_vars(OpenStep)

Spec == Init /\ [][Next]_vars /\ Fairness

-----------------------------------------------------------------------------
(* Properties                                                              *)

\* The numbers stay below the counters, and the background thread is only at
\* work when it has been scheduled.
LevelDBTypeOK ==
    /\ mode \in {"down", "replayed", "saved", "open", "closing"}
    /\ DOMAIN tables \cup DOMAIN logs \subseteq Nat
    /\ mode \in {"open", "closing"} =>
          /\ \A f \in FilesOf(version) \cup pending \cup {logfile} : f < nextFile
          /\ flush.pc # "idle" \/ comp.pc # "idle" => scheduled
    /\ Len(imm) <= 1 /\ group <= Len(writers)
    /\ sure \subseteq acked /\ acked \subseteq 1..issued

\* Get and the iterators: what a reader pinned under the mutex gives it
\* exactly the entries that were committed then, whatever is written, flushed,
\* compacted or deleted before it has read them.
ReadersComplete ==
    \A r \in Reader : Found(r) = read[r].due

\* A store that is open holds, for a read that begins now, every batch that
\* was answered with OK and no batch twice.
StoreComplete ==
    mode \in {"open", "closing"} =>
        /\ acked \subseteq Ids(committed) \cup shaken \cup behindTear
        /\ committed = {e \in mem \cup (UNION ToSet(imm)) \cup InTables(FilesOf(version)) :
                            e.seq <= lastSeq}
        /\ \A d, e \in committed : d.seq = e.seq => d = e

\* DeleteObsoleteFiles never takes a table that the MANIFEST on the disk, the
\* current version, a reader or a compaction still refers to, nor the log the
\* store writes to: not even after an error that leaves open whether the last
\* record of the MANIFEST was written.
FilesKept ==
    /\ FilesOf(manifest) \cup FilesOf(version) \cup comp.inputs \subseteq DOMAIN tables
    /\ comp.file # None => comp.file \in DOMAIN tables
    /\ flush.pc = "built" /\ imm[1] # {} => flush.file \in DOMAIN tables
    /\ \A r \in Reader : read[r].files \subseteq DOMAIN tables
    /\ mode \notin {"down"} => logfile \in DOMAIN logs

\* WriteOptions::sync false: "if it is just the process that crashes (i.e.,
\* the machine does not reboot), no writes will be lost".  At every moment the
\* disk gives back what was answered with OK, but for what an earlier stop of
\* the machine took and what stands behind a torn record.
KilledLosesNothing ==
    acked \subseteq Ids(Recoverable) \cup shaken \cup behindTear

\* WriteOptions::sync true: even the bytes that were synced give it back, in
\* whatever group, log or table it went, as long as it does not stand behind
\* a torn record.
SyncedKeptUnlessTorn ==
    sure \subseteq Ids(RecoverableSynced) \cup behindTear

\* What options.h says of a write with sync==true, without the exception.  It
\* fails in two ways: after a log record that could not be written the store
\* goes on with the same log, and with reuse_logs Open goes on behind the torn
\* end of the last log.  The next Open does not find what was written there.
SyncedKept ==
    sure \subseteq Ids(RecoverableSynced)

\* The store as its user knows it: batches that are in it, batches whose fate
\* is open, batches that must outlive any crash.
Promise == INSTANCE DurableStore WITH
    Batch <- 1..MaxBatch,
    value <- IF mode \in {"open", "closing"} THEN Ids(committed) ELSE Ids(Recoverable),
    open  <- (1..issued) \ acked,
    sure  <- sure \ behindTear,
    up    <- mode \in {"open", "closing"}

\* LevelDB implements DurableStore.
KeepsPromise == Promise!Spec

\* Every writer is answered: no order of flushes, compactions, a full level 0,
\* errors and groups leaves one waiting for ever.
WritersAnswered ==
    \A t \in Thread : job[t].pc # "idle" ~> job[t].pc = "idle"
=============================================================================
