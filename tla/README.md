# MyNews: a verification project

MyNews is an iOS news reader written in Swift (`src/MyNews/MyNews`). A user signs
up or in with Firebase Auth, keeps a profile and a list of news sources in the
Firebase realtime database, and reads headlines fetched from newsapi.org. There
are no tests and no documentation beyond screenshots: the code is the reference.

This directory holds TLA+ models of the parts whose correctness depends on the
order of events, TLC configurations that check them, and TLAPS proofs, for every
value of the constants, of most of what the runs check: about the record and the
screens over it, and about the storage engine down to the refinement of what it
promises. Besides the app's own code and the database
client it covers the storage engine that is compiled into the app with that
client (`Pods/leveldb-library`): FirebaseDatabase keeps its disk persistence in
it, which the app leaves off, so that nothing in the screens' modules depends on it.

## 1. Inventory

| component | code | state | operations | interacts with |
|---|---|---|---|---|
| User record | `Pods/FirebaseDatabase` (`FRepo`, `FSyncTree`, `FWriteTree`, `FViewProcessor`, `FPersistentConnection`, `FEventRaiser`) | the server's record as known here, the tree of unanswered writes, outstanding puts, registered observers, the worker queue, the main queue | `setValue`, `observe(.value)`, answers, pushes, reconnections | every screen that reads or writes `users/<uid>` |
| Online repository | `BusinessLogic/OnlineRepository.swift` | the globals `ref` and `user` (`user` is computed once, at first use) | sign in, create user, `addUserItems`, `isUserProfileEmpty`, `getUserSources`, `getSources`, `getNews` | Firebase Auth, the database, Alamofire |
| Login and sign up | `Login & SignUp/` | texts, the pushed controllers | `SignInButton`, `nextButton`, their answers | repository, container |
| Container | `ContainerController/` | `isExpended`, the menu, what is presented | the profile gate, `handleMenuToggle`, `didSelectMenuOption`, sign-out | home, menu, all presented screens |
| Home / news feed | `HomeController/` | `news`, the refresh control, one more observer per appearance | `refresh`, snapshots, answers of news requests | repository, container |
| Menu | `MenuController/` | none | the choice of a row (four rows, three options) | container |
| News reader | `NewsController/` | `data`, `index`, the article shown | Next, Done, the link | opened by home |
| Profile | `ProfileController/` | texts, password fields | snapshots, save, `changePassword` and its answer | database, Auth |
| Sources | `SourcesControler/` | `allSources`, `userSources`, the table's selection | catalogue and list answers, taps, Done, its answer | repository, database |
| leveldb: database | `leveldb-library/db/db_impl.cc`, `builder.cc` | the queue of writers, `mem_`, `imm_`, the log, the current version, the background thread's work, `bg_error_` | `Write`, `Get`, iterators, flushes, compactions, `Open`, the destructor | the files of a directory |
| leveldb: versions | `version_set.cc` | the tables of each level, compaction pointers, the file out of seeks, a manual compaction | `Get`, `PickCompaction`, `CompactRange`, `LogAndApply` | the database, tables |
| leveldb: memtable | `skiplist.h`, `memtable.cc` | the links of the nodes, `max_height_` | `Insert`; iterators without a lock | database, iterators |
| leveldb: log | `log_writer.cc`, `log_reader.cc` | the file, `block_offset_` | `AddRecord`, `ReadRecord` | database, descriptor |
| leveldb: iterators | `db_iter.cc`, `merger.cc` | positions and directions of both, the saved key and value | `Seek`, `SeekToFirst`, `SeekToLast`, `Next`, `Prev` | memtable, tables |
| leveldb: table cache | `table_cache.cc`, `cache.cc` | the hash table, the LRU and in-use lists, reference counts | `Lookup`, `Insert`, `Release`, `Erase`, `Prune` | tables, the threads that read |
| leveldb: tables | `table/` | blocks with restart points, the index, filters; an iterator's two positions | `Add`, `Finish`; seeks and steps; `InternalGet` | versions, iterators |
| leveldb: environment | `env_posix.cc` | the kernel's lock and `locks_`, the queue of the background thread, the limits on mapped and open files | `LockFile`, `UnlockFile`, `Schedule`, `NewRandomAccessFile` | database, table cache |
| leveldb: utilities | `coding.cc`, `bloom.cc`, `write_batch.cc`, ... | - | encodings | not modelled |
| Cells, colours, start-up | `NewsCell`, `SourcesCell`, `MenuTableViewCell`, `Common`, `AppDelegate` | none | layout | not modelled |
| Outside the target | `Controller/MoreUserDetailsViewController.swift`, `SourcesTableViewCell.swift` | - | - | never compiled |

How they interact. All app code runs on the main thread. It calls the database
without waiting: a call is queued for the database's own serial queue, which
applies it to a local view and queues blocks for the main thread (one *value*
block per observer when the view changes, one *done* block when the server has
answered a write). Screens meet only through the record: the Sources screen
writes `userSources`, Home's observers react to it, the gate and the Profile
screen react to any change at all. No observer is ever removed.

leveldb is called by threads of its user and has one thread of its own. They
share one mutex, which is released for the log, for building tables and for
reading; what is read then is pinned (a version, a memtable) by reference counts.

What makes each part correct:

- **User record**: every observer gets every change and ends on the server's
  record, refused writes included; answers come once and in order; they come.
- **Sources**: what is ticked is what is saved; nothing is lost or doubled by
  taps, snapshots and saves; the stored string reads back as the same list;
  Done ends the screen or says why not.
- **Gate and Profile**: the gate acts on the latest record and only on records
  it can read; saves leave a record it can read.
- **Session**: everything acts on the account that is signed in.
- **News feed**: the list shown is for the latest sources; one change, one
  request; the refresh control stops.
- **Menu, reader, password**: one screen at a time; index, article and link
  agree; an answer concerns the password it was asked for.
- **leveldb**: what was answered is there for every later read, and again after
  a crash as far as the write asked for it; a read sees one moment; a file in use
  is not deleted; every writer is answered; the newest version of a key is found
  first on whatever level; a log and a table give back what was put in or say
  that they cannot; an iterator shows each live key once in either direction; a
  cached table lives as long as somebody holds it.

What is hard: two queues and a server that run at their own pace, refusals
under later writes, writes sent twice, a process killed between two writes of
one save, observers of closed screens, user actions between a snapshot and the
block that uses it; in leveldb, everything that goes on while the mutex is
released, failed writes whose bytes are there, and a crash at any of it. `PROJECT.json` lists each hazard at its line.

## 2. Plan

Order: what everything rests on first, then the screens by how much state of
the record they read and write, then the modules that stand alone.

1. `UserRecord` with proofs of its type invariant, delivery and convergence *(done)*
2. `SourcesEditor`, `ProfileGate`, `NewsFeed` over it *(done)*
3. `Session`, `PasswordChange`, `NewsReader` *(done)*
4. `LevelDB`, the abstract `DurableStore`, and the refinement between them *(done)*
5. what `LevelDB` takes for granted: `Versions`, `SkipList`, `LogFormat`,
   `Iterators`, `TableCache`, `SortedTable`, `PosixEnv` *(done)*
6. proofs of the screens: `AnswersInOrder` of the record, `UserRecord!Spec` as the
   abstract specification of the three screens' modules, so that `Delivery` and
   `Converged` carry over to them, and their own invariants; `Session`,
   `PasswordChange`, `NewsReader` *(done)*
7. proofs of the engine: type invariant, files and data of `LevelDB`, its
   refinement of `DurableStore`, `NoneMissed` of `SkipList`, `EnvironmentSound` of
   `PosixEnv`, `ShowsWanted` of `Iterators`, `CacheSound` of `TableCache`,
   `UncutReadsNewest` and `OnlyManualAborts` of `Versions`, `LogHonest` of
   `LogFormat`, `TableHonest` of `SortedTable` *(done)*

None of the modules of steps 4 and 5 declares a `RECURSIVE` operator.

## 3. Modules

### UserRecord

One record with the app's calls on it, from `setValue` to the completion block.

| TLA+ | code |
|---|---|
| `server`, `loaded` | the server cache of the view, complete once the listen is answered |
| `pending`, `writeId` | `FWriteTree.allWrites` and `outstandingPuts`, `FRepo.nextWriteId` |
| `applied` | how many of `pending` the server has applied |
| `regs`, `seen` | `FView.eventRegistrations`; the snapshot each was last given |
| `work`, `main` | `FIRDatabaseQuery.sharedQueue` and the main queue |
| `MainTurn`, `RunBlock` | a turn of the main thread caused by the user or by a queued block; both may issue calls |
| `WorkerSet`, `WorkerObserve` | `FRepo set:withNode:`, `FSyncTree addEventRegistration:` |
| `Load`, `ServerApply`, `RemoteChange` | data pushed for the listen, for an own write, for another client's |
| `Ack`, `Reject` | the put's callback: `ackWrite:`, then `callOnComplete:` |
| `Reconnect` | `restoreState` sends listens and puts again |
| `Restart` | the process dies; persistence is off, as by default |

Two abstractions. The server's copy and the push that tells this client so are
one step: the push travels on the connection that later carries the answer, and
what the client does not know yet cannot be told apart from what has not
happened yet. And an answer held back in `putsToAck` across a reconnection may
in the model change from yes to no, which allows more than the code does. A
refused listen is left out: the app reads only the record of its own account.

`AppBlock` is what a screen's module may put on the main queue besides: the
gate's extra hop is the only use.

### SourcesEditor

Extends `UserRecord` with the Sources screen, twice opened (`Screen`), since a
dismissed screen keeps its observer and its completion blocks. Strings are
sequences of characters, so `Join` and `Split` are what the code does and not
an identity; they and `AllBut`, the loop of `didDeselectRowAt`, are recursive
functions. The strings of the record are those that screens save, of any list
that can arise (`List`, `WrittenAssumption`). `ticked` is the table's selection as `cellForRowAt` and the taps
leave it: UIKit clears it on `reloadData` and the cells select themselves when
`userSources` contains their id. The catalogue is constant, its ids are
distinct, and at most one source has none.

### ProfileGate

Extends `UserRecord` with the sign-up write, the container's gate, one screen
presented at a time and the Profile screen. A screen that is being dismissed
still counts as presented: `performSegue` is ignored until it is gone. `judged`
records the gate's last snapshot; `crashed` is a forced cast that failed, after
which the process can only be restarted. The observers of the Home screen are
not part of this module; they take no part in what the gate sees, as the
delivery theorem says for any set of observers.

### NewsFeed

Extends `UserRecord` with the Home screen. Each `Appear` (`viewDidAppear`) and
each `Pull` (`refresh`) registers one more observer; each snapshot of each
observer (`Snapshot`) adds a request to `inflight`; `Answered` takes any of them
and replaces `news`; `Failed` calls nobody, as `getNewsList` returns on `nil`. A
list is known by the sources it was asked for. `failed` and `disturbed` only
remember, for the properties, that a request failed or was overtaken.

### Session

| TLA+ | code |
|---|---|
| `current` | `Auth.auth().currentUser`; set on Firebase's queue, before the answer is queued on the main one |
| `bound` | the global `user`, `Unbound` until the first container uses it |
| `requests`, `blanks`, `main` | sign-ins and sign-ups under way, unanswered `addUserItems`, answers queued for the main thread |
| `stack`, `modal` | the navigation controller above the login screen; a presented screen |
| `expanded`, `choices` | `isExpended`; the completions of collapse animations |
| `Succeeds`, `Fails` | `signInFlowAuthDataResultCallbackByDecoratingCallback` |
| `Created`, `AddUserItems`, `Added` | the sign-up chain of `SignUpViewController.setupViewModel` |
| `Exit` | `signOut`, then `popToViewController` of the root |
| `hasty` | a history variable: something was tapped while what was started before was not over |
| `crossed` | a history variable: while the answer of a creation was on its way to `addUserItems`, a sign-in succeeded too, or an older answer opened a container |

A segue of a screen that is no longer in the navigation controller pushes
nothing, and one under a presented screen presents nothing: UIKit's behaviour,
as `performSegue` is used here. Invalid tokens, which sign a user out by force,
are left to `PasswordChange`. Login always succeeds on an existing account or
fails for any reason; passwords are not modelled here.

### PasswordChange

The two fields of the Profile screen, `FIRUser`'s serial queue (`queue`, with
`phase` the state of the oldest request) and the answers on the main queue. A
password is the number of the tap that asked for it, so that `held` tells which
tap the account's password comes from. Assumed: a request the client has given
up, or lost with its process, is not applied by the server later.

### NewsReader

One reader at a time over a list from Home. `ConfigurateView` downloads on the
main thread and queues the picture (`blocks`); an article is its place in the
list, with a picture (`"url"`) or none.

### LevelDB

| TLA+ | code |
|---|---|
| `logs`, `tables`, `manifest` | the files: each log's records and how many are synced, the tables, what the descriptor adds up to |
| `writers`, `job`, `group` | `writers_`, what each `Writer` asks and how far it is, the writers the front one answers for |
| `mem`, `imm`, `logfile` | `mem_`, `imm_`, `logfile_number_` |
| `version`, `nextFile`, `lastSeq`, `edit` | `current_`, `next_file_number_`, `last_sequence_`, the edit `LogAndApply` is writing |
| `scheduled`, `flush`, `comp`, `pending`, `bgError` | `bg_compaction_scheduled_`, `CompactMemTable`, `BackgroundCompaction`, `pending_outputs_`, `bg_error_` |
| `mode`, `read` | how far `Open` or the destructor is; what a reader has pinned |
| `Write` ... `FinishWrite` | `Write`, `MakeRoomForWrite`, `BuildBatchGroup`; `StartGroup` to `InsertInto` run with the mutex released |
| `StartFlush` ... `InstallFlush` | `CompactMemTable`, `WriteLevel0Table`, `LogAndApply` |
| `PickCompaction` ... `CompactionFails` | `BackgroundCompaction`, `DoCompactionWork` |
| `Recover`, `SaveManifest`, `OpenFails`, `FinishOpen` | `DB::Open` |
| `BeginClose`, `EndClose` | the destructor |
| `Kill`, `MachineCrash` | the process or the machine stops |

A step is a critical section of `mutex_` or the work between `Unlock` and
`Lock`. A batch is its number; an entry is a batch with its sequence number.
There are two levels, 0 and the rest. Abstracted: a log is one block of 32 KB,
so that nothing is found behind a torn record (`LogFormat` has the blocks);
operations on the directory are durable and ordered; a record of the MANIFEST is
there whole or not at all, and may be there although its append or sync failed;
a machine crash keeps what was synced and of the rest any part, holes included.
`paranoid_checks` is false, as by default. `acked`, `sure`, `committed`,
`shaken` and `behindTear` are history variables for the properties.

### DurableStore

What leveldb promises about batches, on a page: a set of batches in the store, a
set whose fate is open, a set no crash may take. `KeepsPromise` is the refinement:
the value is what is committed while the store is open, and what opening it would
find while it is not. `sure` leaves out what stands behind a torn record: finding 3.

### Versions

The levels, by their entries. An entry is its internal key packed into a number,
by key and under one key the newest first, as `InternalKeyComparator` orders
them; a table is the set of its entries and its size is their number. `Flush` puts the
memtable's table where `PickLevelForMemTableOutput` says; `Compact` and
`CompactManual` choose inputs as `PickCompaction`, `CompactRange` and
`SetupOtherInputs` do, and `Install` puts the outputs in. At level 0 `GetOverlappingInputs`
starts over whenever a table widens its range, and so ends with the least set that
lets it grow no more (`Grown`), which is how it is written. `Compacted` is the loop of
`DoCompactionWork`, a recursive function along the entries with `WorkOn` as its body:
an entry is dropped or kept, and an output ended by size or by the overlap with
grandparents. `GetCharges` and `RecordReadSample` may use up any table's seeks. `cut` remembers keys whose versions a compaction wrote
to two tables, `aborted` a failed assert of `Builder`.

### SkipList, LogFormat, Iterators, TableCache, SortedTable, PosixEnv

`SkipList`: an insertion links one level at a time; a reader's search takes one link at
a time, starting at any height that was ever stored. Release and acquire make
a node's own links visible before it can be reached; links not yet written are `Junk`.

`LogFormat`: bytes known by the physical record they belong to. `AddRecord` cuts
records into blocks, one physical record in each turn of its loop (`Emit`),
`AddRecordFails` leaves any part of one and counts all of it, as
`EmitPhysicalRecord` does, `TakeUp` reopens a log at its length. `ReadOn` is what the
reader does at a byte and `ReadRecords` repeats it until the file ends.

`Iterators`: `at`, `current` and `heading` are the merging iterator, `it` the
user's. A call is one step, and each turn of its loop another, so that writes
come in between. `want` is the key the call has to end at, from the entries
and the snapshot alone.

`TableCache`: one shard; each of its operations is an operator from shard to
shard, run under its mutex. `CacheUser` are the Gets and iterators, each of which
holds one handle at a time (`held`) and opens the file, without the mutex, when
it misses (`opening`); an iterator over several tables is several of them. `usage`
is an integer; that it is a sum of charges, as `CacheSound` says, is why the code's
`size_t` never goes below 0.

`SortedTable`: keys are sequences of bytes, with the last item for sequence and
type. Building, prefix compression, separators, the two-level iterator and
filters work on them as the code does; a filter is the exact set of its keys. Blocks
in `unread` cannot be read, in each call others.

`PosixEnv`: three parts that do not meet. `owner` is the kernel's lock on LOCK, which
belongs to a process and goes when that process closes any descriptor of the file
(`CloseFd`); `names` is `locks_` of each process. `bgQueue` and `bgPc` are the background thread's
queue and where it is in `BGThread`. `allowed` is the two `Limiter`s, `opener` how far
each thread is in `NewRandomAccessFile`.

### Proof modules

| module | about |
|---|---|
| `UserRecord_proofs` | `UserRecord`; the other three modules about screens over the record rest on it |
| `SourcesEditor_proofs` | `SourcesEditor` |
| `GateAndFeed_proofs` | `ProfileGate` and `NewsFeed`, the two users of the record on the Home screen |
| `Screens_proofs` | `NewsReader`, `PasswordChange`, `Session`, and `MCScreens`, which puts them into one run |
| `LevelDB_proofs` | `LevelDB`: operators, types, files, data; `DurableStore` |
| `Versions_proofs` | `Versions` |
| `EngineParts_proofs` | `SkipList`, `PosixEnv`, `Iterators`, `TableCache`, `LogFormat` |
| `SortedTable_proofs` | `SortedTable` |

### MC modules

Each adds budgets: `MaxInputs` or `MaxTaps` for what users and other devices do,
`MaxRestarts` and `MaxReconnects`, or `MaxFaults` for both, and in `MCScreens`
`MaxPast` for taps past the end. Steps of queues and of servers are never
bounded. `hadRecord` in `MCProfileGate` is chosen at the start: whether the
account's record was written when it was made.

`MCScreens` and `MCEngine` put modules that share no state into one run: `part`
is chosen at the start and the other modules keep their initial states, so each
behaviour is one of a single module and the run has the sum of their states.
`ScreensTypeOK` in `MCScreens` is the type invariants of its three modules.

The operators named as mutants in a module's comments
are not part of its specification: each is a plausible mistake in the definition
that follows it, which the properties notice.

## 4. Runs

| run | checks | instance | shows |
|---|---|---|---|
| `record` | `TypeOK` `Delivery` `Converged` `AnswersInOrder` `Answered` `Settles` | 2 fields, 2 values, 3 inputs, 1 reconnection or restart | no update lost, no stale snapshot, answers once, in order and in the end |
| `sources` | `EditorTypeOK` `TicksMatchList` `HiddenKept` `SaveRoundTrips` `DoneAnswered` | 2 openings, 2 ids of which one is no longer offered, one source without id, 4 inputs, 1 reconnection or restart | ticks, list, stored string and alert agree; no source twice; Done is answered |
| `gate` | `NeverCrashesWithRecord` `GateCurrent` `GateSettles` | with and without a record at first, 4 inputs, 1 restart, 1 reconnection | the gate judges the latest record, ends on the server's, and reads every record of an account that had one |
| `gate_no_record` | `NeverCrashes`, violated | the same | finding 1 |
| `feed` | `AskedForView` `StaleOnlyIfDisturbed` `RefreshEnds` | 2 fields, 2 values, 3 inputs, 1 restart, 1 reconnection | what Home asks for last, what can make its list stale, and that a pull ends unless a request fails |
| `screens` | `ScreensTypeOK` `SignedInWhileOpen` `NeverWiped` `ToldTruth` `NeverOlder` `QueueMoves` `PictureOfLatest` | 2 accounts; 3 texts; 6 taps, 1 restart; lists of up to 4 articles, with and without pictures, 2 taps past the end | sign-in, sign-up and exit in any order; what alone can blank a record with data; changes take effect and are answered in the order of the taps and the queue is never left suspended; the reader stays in its list, with the right picture |
| `session_account` | `BoundIsCurrent`, violated | 2 accounts, 6 taps | finding 2 |
| `store` | `LevelDBTypeOK` `ReadersComplete` `StoreComplete` `FilesKept` `KilledLosesNothing` `SyncedKeptUnlessTorn` `KeepsPromise` | 2 writers (symmetric), 1 reader, 3 batches, each with sync or without, or forced flushes, 2 crashes, closings or I/O errors, memtables of one batch, groups of 2, level 0 compacted, slowed and stopped at 2 tables | nothing answered is lost but by a machine crash before a sync, reads see one moment, files in use stay, `LevelDB` implements `DurableStore` |
| `store_live` | `WritersAnswered` | 2 writers, 3 batches, 1 crash, closing or error, level 0 stopped at 1 table | nobody waits for ever |
| `store_torn` | `SyncedKept`, violated | 1 crash or error | finding 3 |
| `engine` | `UncutReadsNewest` `OnlyManualAborts` | 3 keys of which one is deleted too, 4 writes, 2 snapshots, manual compactions, tables out of seeks or reopenings (5 calls in all), 4 levels, 2 entries to a level and a table | Get and a scan find the newest entry at every snapshot |
| | `NoneMissed` | 3 keys, 3 levels | a reader misses nothing while nodes are linked |
| | `LogHonest` | blocks of 7 bytes with headers of 3, records of 0, 1, 3 and 9 bytes, 3 records, 2 failed writes or crashes | a reader hands out nothing but records, and all that no damaged block holds |
| | `ShowsWanted` | 2 keys, 4 entries, 2 children, a snapshot at most one entry old | each call ends at the right key with the right entry |
| | `CacheSound` | 3 Gets or iterators, 2 tables, charges 1 and 2, capacity 2, 3 handles | reference counts, lists and usage agree |
| | `TableHonest` | 5 keys over 3 byte values, 3 entries, restarts every 2, filters every 2 units, blocks of 1 or 2, one block unreadable in each call | iterators and lookups give back what was added, or say they cannot |
| | `EnvironmentSound` | 2 processes of 2 threads; 3 items; 1 mapped and 1 open file allowed, up to 4 files | the lock is kept but for the case below; no item is slept on or run out of order; no place is lost or given twice |
| `levels_hop` | `ReadsNewest`, violated | 1 key, 4 writes, 1 snapshot, tables of one entry | finding 4 |

Bounds. Three inputs are enough for what the record's hazards need: an
observer, a write, a second write or a foreign change over it, each combined
with refusal and with a reconnection or a restart; a restart forgets everything
but the server's record, so that the two in one behaviour add only another
record to start from. In `sources` four inputs are an opening, two taps and a
Done, or a foreign change in place of any; two ids are the one with a row and the
one without, of one and two characters so that splitting is not trivial. In
`gate` four inputs cover two saves of five writes each. In `feed` three inputs
are an appearance, a pull and a saved list or a foreign change (four were run
once, with the same result). In `screens` six taps are a sign-in, the menu and an
Exit, and a sign-up under way beside them or another sign-in after them, or
three changes of password.

In `store` a batch fills a memtable, so that the second writer meets the switch
of logs and the third a full level 0, each beside a flush, a compaction and a
group of two; two troubles are an error and a crash on top of it, or a
crash in the opening after a crash. In `store_live` a single table stops the
writers, which is where they wait for the background thread. In `engine` one
level holds two entries, so that four writes reach the third level, past
`MaxMemCompactLevel`, with an overlap on the way; the records of the log end before,
at and behind the end of a block and span two; the keys of the table have a common
prefix, the last byte value, neighbouring bytes, and one key two entries; three
handles replace an entry that is still held. Deadlock is not checked: the user may
do nothing more, and inputs run out.

**Findings.**

1. `gate_no_record`. `isUserProfileEmpty` casts six fields of any non-empty
   record to `String` by force (`OnlineRepository.swift:94-99`). If the blank
   record was never written (`addUserItems` refused, or the process killed between
   `createUser` and it), signing in still works; a save on the Sources screen then
   creates a record with `userSources` only, the gate is told, the cast fails and
   the app crashes, from then on at every sign-in.
2. `session_account`. `user` (`OnlineRepository.swift:16`) is computed once: after
   Exit and a sign-in to another account, every screen works on the first
   account's record.
3. `store_torn`. A failed `AddRecord` (`db_impl.cc:1224`) leaves part of a record in
   the log and, unlike a failed sync (1236-1240), sets no background error. Later
   writes, synced and answered OK, go into the same block behind it, and the reader
   drops the rest of a block after a bad record: they are gone at the next opening. The same
   happens with `reuse_logs` when the log taken up (455-463) ends in a torn record.
   `options.h:199-201` compares a synced write to `write()` and `fsync()`.
4. `levels_hop`. `Version::Get` stops at the first level that has the key because
   "entries never hop across levels" (`version_set.cc:346-348`). An output of a
   compaction is ended by size (`db_impl.cc:998`), also between two versions of one
   key that a snapshot keeps. The next compaction may take the table with the newer
   version alone; it then lies below the older one, which Get returns. (`cut` marks
   such keys, and `UncutReadsNewest` holds for all others.)

Met on the way, and refuted by TLC when given to it as an invariant, but not
among the runs:

- `NeverNil` of `Session`: Sign In, then Sign Up and Next before the answer; the
  container opens; Exit is chosen; the new account is created while the menu
  collapses. `Exit` signs out before the answer runs `addUserItems`, whose `user!`
  (`OnlineRepository.swift:80`) meets nil.
- Without its exception, `NeverWiped` of `Session`: Sign Up and Next; the account is
  created; before the answer reaches `addUserItems` a sign-in from the login screen is
  answered too, and that account's record is set to the blank one
  (`OnlineRepository.swift:79-87`). The exception, `crossed`, is exact: TLC finds a
  record lost as well when `Crossing` leaves out any of its cases, a later sign-in, an
  earlier one or an earlier `added`. In the last two the container opens on the
  account just made, and a save in it comes before the blank record does.
- `ReaderNeverCrashes` of `NewsReader`: `URL(string: url)!`
  (`NewsViewController.swift:52`) fails on an article without picture, which the line
  before provides for.
- `AssertsHold` of `Versions`: a manual compaction may take tables of a level with
  gaps between them; a memtable flushed while it works (`db_impl.cc:917-926`)
  may be put into such a gap of the level below, and the assert of `Builder` on the
  outputs fails. `OnlyManualAborts` says that automatic compactions are safe, and
  `OnlyManualCorrect` proves it.

- `OneHolder` of `PosixEnv`: the lock of `fcntl` goes when the process closes any descriptor
  of LOCK. A thread that is refused because its process has the database open
  closes one (`env_posix.cc:470-471`), and so does a thread between `Remove` and `close` in
  `UnlockFile` (492-493) while another has just locked the file: a second process then
  opens the same database, which the lock is to prevent (`env.h:112-113`).
  `HoldersKnown`, in `EnvironmentSound`, says that it is kept in every other case.

Read in the code, and not modelled: `BackgroundCompaction` uses
`manual_compaction_` (`db_impl.cc:757`) after the mutex was released, by when
`TEST_CompactRange` may have set it to NULL (615-618); the NULL batch of
`TEST_CompactMemTable` may be answered as part of another writer's group without a
flush having been forced.

**Fairness.** The two dispatch queues are served (GCD runs what is queued).
`Load`, `ServerApply \/ Reject` and `Ack` are weakly fair: the client
reconnects with backoff for ever and sends listens and puts again
(`FPersistentConnection tryScheduleReconnect`, `restoreState`), so only a
network that never returns would keep an answer away. In `NewsFeed` a
request for news is answered or times out (`URLSession`), and in
`PasswordChange` so is one to Firebase Auth. In `LevelDB` each writer's thread,
the background thread (`Env::Schedule`'s) and the thread that opens the store go
on when they can (`WF` of `WriterStep(t)`, `BackgroundStep`, `OpenStep`): a
thread that is signalled gets the mutex in the end. Nothing is assumed of
clients, readers, errors and crashes. In the screens, nothing is assumed of users, other
devices, reconnections or restarts.

## 5. Proofs

Checked by tlapm, for every value of the constants, from the named assumptions of
the modules alone unless said otherwise. The bounds of the runs are not part of
what is proved about: the screens' theorems are about `EditorSpec`, `FeedSpec` and
so on, without inputs that run out, and in `LevelDB` the bounds are constants.

| theorem | property of a run |
|---|---|
| `TypeCorrect` `DeliveryCorrect` `ConvergedCorrect` `AnswersCorrect` | all safety properties of `record` |
| `EditorTypeCorrect` `TicksCorrect` `HiddenCorrect` `RoundTripCorrect` | all of `sources` |
| `GateCurrentCorrect` `CastsCorrect` | all of `gate` |
| `AskedCorrect` `StaleCorrect` | all of `feed` |
| `SignedInCorrect` `NeverWipedCorrect` `PasswordNeverOlder` `ToldCorrect` `PictureCorrect` `ScreensTypeCorrect` | all of `screens`, with the parts of `ScreensTypeOK` also as `SessionTypeCorrect`, `PasswordTypeCorrect`, `ReaderInList` |
| `LevelDBTypeCorrect` `FilesKeptCorrect` `ReadersCorrect` `StoreCorrect` `KilledCorrect` `SyncedCorrect` `PromiseKept` | all of `store` |
| `NoneMissedCorrect` `EnvironmentCorrect` `IteratorsCorrect` `CacheCorrect` `LogCorrect` `TableCorrect` `LevelsCorrect` `OnlyManualCorrect` | all of `engine` |
| `EditorUsesRecord` `FeedUsesRecord` `GateUsesRecord` | none: the screens refine `UserRecord` |

**The record.** `TypeOK` is inductive. For delivery the invariant is
`DeliveryInv == TypeOK /\ Addressed /\ Delivery`: `Addressed` says that no queued
value block is for an observer not registered yet, from whom a new observer
would inherit an old block. `NotifyDelivers` is the core: a step that changes the view
appends the new view for every observer behind everything queued for it.
Convergence follows, as with nothing unanswered the view is the server's record.
Order of the answers needs `Ordered`: ids grow along the queue of blocks and the
pending writes and none exceeds `writeId`, so that the next write keeps the order.

**Screens over the record.** Each module's specification implies `UserRecord!Spec`:
a turn of a screen is a `MainTurn` or `RunBlock` with calls of the right type.
Therefore `DeliveryInv` holds of it, and is used in what follows.

- `SourcesEditor`. `EditorInv` is the types and `TicksMatchList` together, as neither is
  inductive alone: a tap adds no source twice only because a row without a tick is in
  no list. `HiddenKept` needs that a screen registers one observer (`ObserversOnce`):
  a second one given an older record would contradict what the first one set.
  `RoundTrip` says for lists of any length and any ids without comma what `Split`
  makes of `Join`. The loops of the code are recursive functions; `Loop` shows
  that they exist and unroll, for any function `step`, and `ListsGrow` is the induction
  along a list. That what `Done` writes is a string of `Value` is a lemma (`Saves`),
  by the bound on a list without doubles; that what is read is one is
  `WrittenAssumption`, that `Value` is what screens save.
- `NewsFeed`. `AskedInv`: the last snapshot on the main queue says the client's view,
  or with none on it the last request does. `FeedInv` adds that this request is the
  newest in flight or the list shown, until one fails or is overtaken (`disturbed`).
- `ProfileGate`. `GateInv`: at most one observer of the gate in a process (`OneGate`), and
  the last hop, or else `judged`, is about the snapshot it was last given (`Judged`).
  For the casts: `Complete` is kept by every write and holds of all snapshots on
  their way. Hypothesis of these theorems: `KindsAssumption`, a kind for each Profile screen
  ever opened; no run can make so many, so that it is not an assumption of the
  module. `MCAssumption` gives `MCProfileGate` its text other than "".

**Screens by themselves.** `ReaderInv` says which pictures may still be queued
behind the one shown. `PasswordInv` orders taps along queue and answers and
puts the password held between them; `NeverOlder` is an action property from it.
`SessionInv` has two parts. `Calm`, for `SignedInWhileOpen`: while users wait for each
thing, at most one of requests, blank writes, answers and menu choices exists, and it
belongs to the controller on top. And `CreationFresh`, for `NeverWiped`, whatever is tapped when:
while the answer of a creation waits and no other success crosses it, the current user
is the account it made or nobody, no screen works on that account yet, and its
record holds nothing. An answer that joins the queue behind it (`QueuedCreation`) or is handled
before it (`HandledBefore`) is then a refusal, another creation's, or that of a blank
record behind it.

**LevelDB.** `QueueInv` and `FileInv` are inductive and give the types. In `QueueInv`:
a writer has a job when it is in the queue and only then, and batches of two jobs
are apart. In `FileInv`: numbers in use are below `nextFile` (`NumbersBelow`), and the
disk's descriptor and the current version agree or differ by the edit under way
(`InStep`), which is why deleting what neither refers to is safe (`Referred`,
`Protected`). `Open` replays the logs with a recursive
function; `Replays` shows that it exists and its lemmas say what each log adds.

`DataInv` for the data: no two entries with one sequence number anywhere (`Apart`);
numbers and the entries of the group in flight are above all others (`Numbered`,
`GroupInLog`); what a memtable has is in a log the descriptor still needs
(`Unflushed`); and `CommittedIs`, what is committed is what the store shows.
`KilledLosesNothing` and `SyncedKeptUnlessTorn` are parts of it. Steps that leave
the data alone share one lemma (`LogsAsBefore`, `GroupAsBefore`).

`PromiseKept` is the refinement. The mapping is the INSTANCE of `DurableStore` in
`LevelDB`: `Batches` (what is committed, or what opening would find), `Waiting`
(asked for and not answered), `Lasting` (answered with sync, and not behind a
tear). `PromiseSteps` says which changes of these are `Ask`, `Commit`, `Crash` and
`Open`. A client's `Write` is `Ask`; the step in which the front writer answers its
group is `Commit`; closing, kills and machine crashes are `Crash`, by `DataInv`;
`FinishOpen` is `Open`; every other step changes none of them (`PromiseQuiet`, `PromiseStutters`).

**SkipList.** `ListInv`: the nodes linked at a level (`On`) are linked in order with no
node between, and a node at one level is at all below (`Towers`). The sets a search
reaches are a recursive function, shown equal to `On`. `ReaderInv`: a search stands on a
linked node before its key, and what it must not miss is linked at level 0.

**PosixEnv.** Three invariants, one per part; a step of one part leaves the other two
alone. `LockInv` has one thread at a time inside `locks_` (`OneInside`). The limits are
counted by cardinality, hence finite `ThreadId` in `EnvAssumption`.

**Iterators.** `ShowsWanted` speaks of calls that are over, so the invariant has to say
what a loop has still to find after any of its turns (`LoopInv`): going on, the
key wanted is the lowest live one whose newest entry lies ahead and that is not
being skipped, and what is skipped is older or under lower keys (`NextSound`); going
back, the entry kept is the newest met so far of the key saved, with the merging
iterator right before it (`PrevSound`, `Kept`). That no turn passes over anything is
`MergerInv`: heading forward, the merging iterator stands at the first of where its
children stand, and no child has passed over an entry of the snapshot that is not
before it; in reverse, the same from the other end. A write between two turns may
add an entry behind a child, but never one of the snapshot, which is why all of
this counts entries of the snapshot (`Seen`) only. `ChildInv` is about the children alone.

**TableCache.** An operation is a chain of smaller ones, between which the shard is
not sound: `Good(c, H, x)` says it of any shard `c` whose handles have the holders that
`H` counts, but for a handle `x` that has left the hash table and not yet the cache.
Each operator has a lemma from `Good` to `Good` (`FinishEraseKeeps`, `UnrefKeeps`, ...);
`OldestGo`, a loop, has an induction over its rounds. `CacheInv` is `Good` for
the counts of `held`, with nobody opening a file while holding a handle, without
which `Opened` would drop one. A shard's lists hold each handle once (`Lines`) and
its usage is a sum by recursion, for which `ChargeChange` and `ChargeAppend` say what a step adds.
`CacheUser` is finite, as holders are counted by cardinality.

**LogFormat.** `LogCorrect`, for any sizes of block, header and records and any number
of failed writes and crashes, rests on two invariants. `LogInv` is one of the file.

- `BytesInv` holds whatever fails: a byte follows the one before it in its physical
  record (`Runs`); one that goes on with a record stands right behind what it goes on
  from, which is all there (`Chained`); and behind the end of a record come only others
  (`InTurn`). `Longer` and `Emit` keep it, from turn to turn of the loop (`TurnsKeep`).
- `StepInv` holds until a write fails: physical records lie in one block each, fillers
  at its end, only in blocks that were cut is one not all there, and the writer's offset
  is the file's.

The other is of the reader, and each `ReadOn` keeps it. `ReadInv`, for any log: rows are
complete and their records grow, and what is gathered ends at the reader's place but
for a trailer, so that what is read next and goes on with a record goes on with that
one (`GoesOnFrom`): records are never glued together, though the code compares nothing.
`SparedInv`, until a write fails: outside cut blocks the reader always stands where a
physical record could begin (`Lined`), and it has all it passed of the records without a
part in such a block, as a row or still gathered (`Passed`). As the reader moves on
with every step it is behind the last byte in the end.

**SortedTable.** `TableCorrect`, for any keys, blocks, filters and restart intervals:

- `Holds(b, ks)` says of a block that its entries, each with what it shares with the one
  before it, stand for the keys `ks`. Every operation of a block's iterator is then a matter
  of places (`IsAt`): `FirstEnds`, `LastEnds`, `PrevEnds`, `SeekEnds`. Their loops are
  recursive functions from turn to turn (`Parsed`, `Halve`), with an induction each
  (`ParsedIs`, `RestartBeforeIs`).
- `BuildInv` is about the table while it is built: its blocks hold what was added in order
  (`DataInv`), each key of the index is no lower than any key of its block and lower
  than any of the next (`Between`, from `SeparatorIs` and `SuccessorIs`), and a filter has the
  users' keys of the blocks that begin in its range (`FilterInv`).
- `IteratorInv` is about the two-level iterator: while its status is good it stands at the
  entry expected, or at none when there is none; the loops past blocks that could not be
  read lose the place only together with the status (`OntoSettles`).

**Versions.** `VersionsInv`, by `LevelsInvariant` an invariant for any number of keys,
writes and levels and any limits (`VersionsAssumption`), gives both properties. That
Get finds the newest version is not inductive: it depends on where all the older ones
lie, and on what a compaction already at work will put in their place.

- `TablesInv`: an entry is in one place, tables of a level above 0 are apart, those of
  level 0 follow each other in time, and the memtable is newer than all tables.
- `OrderInv`: of a key not cut, newer versions lie in higher levels, and a level above
  0 has its versions in one table.
- `HereInv`: what a reader is to find is stored, or it is a deletion and nothing the
  reader could see is left behind it. From these three, `UncutReadsNewest`.
- `CompInv`: what a compaction knew when it began and has to hold until `Install`,
  while flushes, writes and snapshots go on. Each entry of its inputs is in an output,
  or older than one every reader sees (`Replaced`), or a deletion below which the key
  does not occur (`Buried`); a table of its level left out has newer versions only of a
  key of the inputs, and one of the next level has no key of theirs (`Working`).
- Of automatic compactions `CompInv` says besides that the inputs leave no gap into which a
  flush could put a table (`Connected`) and the other tables of the next level lie to one
  side of them (`Apart`): with these the outputs fit, hence `OnlyManualAborts`.
- `SeekInv`: a table noted for seeks is still in its level.

`Compacted` is reasoned about by an invariant of its loop (`Wrote`), from entry to
entry: outputs finished so far are apart and before the one being added to, and what
was passed over is `Outdated` or `Useless`. `SetUp` states what `SetupOtherInputs`
makes of the tables it is given: the next level's inputs are all that overlap their
range, at level 0 no table overlapping one of them is left out (`Closed`), and tables
without a gap get none.

**What is only model-checked.** Liveness (`Answered`, `Settles`, `DoneAnswered`, `GateSettles`,
`RefreshEnds`, `QueueMoves`, `WritersAnswered`): fairness and `ENABLED` are beyond the
prover. The four violations are runs only.

Loops of the code are recursive functions, as the library's theorems on folds take an
operator as parameter and cannot be used. The induction used everywhere is over sets,
not predicates, for the same reason: a lemma like `Counting` says that a set with 0 and
all successors holds all naturals.

## 6. Not modelled

Firebase Auth, Alamofire, GTMSessionFetcher and the other pods, except through
their answers and the order of their queues: third-party code of which the app
uses a few calls. nanopb, a sequential codec nothing but Google's binary
measurement library calls. Transactions, merges, queries and disk
persistence of the database client, which the app does not use; refused listens;
layout, toasts and red borders other than the password fields'; `currentCity`,
which nobody calls; rows of the menu touched while it collapses, which depends on
UIKit's hit testing; the files outside the target.

Of leveldb: reading and writing in `env_posix.cc` (system calls; what the store relies
on and how they may fail is in `LevelDB`), the encodings of integers, edits and batches, checksums,
compression and the bloom filter's bits (data, not order), the arena,
`GetProperty`, `GetApproximateSizes`, `DestroyDB`, `RepairDB` and the C
binding; several shards of a cache, which do not meet; a cache of capacity
0, which only tests use; checksums that fit by chance.

Known from the models but held against no property, because nothing in the
repository says what should happen: Done before the list has loaded saves an
empty list; a snapshot replaces texts being typed on the Profile screen; the
answer to a password change empties what was typed since, and no answer comes at
all once Firebase has signed the user out; the reader's link stays that of the
article it was opened on, and the picture of the article before stays beside a
text whose own picture cannot be loaded.
