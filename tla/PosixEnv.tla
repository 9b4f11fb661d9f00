------------------------------- MODULE PosixEnv --------------------------------
(*****************************************************************************)
(* What threads share in the environment of the leveldb pod                  *)
(* (util/env_posix.cc), in three parts that do not meet: the lock on the     *)
(* LOCK file of a database, taken by threads of several processes; the queue *)
(* of the background thread; and the limits on mapped and open files.        *)
(*                                                                           *)
(* The lock of fcntl(2) belongs to a process: it may be set again by the     *)
(* process that has it, and goes as soon as the process closes any           *)
(* descriptor of the file.                                                   *)
(*****************************************************************************)
EXTENDS Integers, SequencesExt, FiniteSetsExt

CONSTANTS Process,
          ThreadId,   \* the threads of a process
          MaxItems,   \* items scheduled
          MmapLimit, FdLimit, \* MaxMmaps, MaxOpenFiles
          MaxFiles    \* files open at a time

NoProcess == "none"

ASSUME EnvAssumption ==
    /\ {MaxItems, MmapLimit, FdLimit, MaxFiles} \subseteq Nat
    /\ IsFiniteSet(ThreadId) /\ NoProcess \notin Process

VARIABLES owner,   \* the process that has the kernel's lock
          names,   \* the processes whose locks_ holds the file
          lockPc,  \* how far each thread is in LockFile or UnlockFile
          dropped, \* threads that hold a lock the kernel has taken away
          bgQueue, \* queue_
          bgPc,    \* the background thread
          items,   \* Schedule calls
          ran,     \* the items taken from the queue
          allowed, \* allowed_ of mmap_limit_ and fd_limit_
          opener,  \* how far each thread of a process is in NewRandomAccessFile
          files    \* the files open, by their kind

lockVars  == <<owner, names, lockPc, dropped>>
bgVars    == <<bgQueue, bgPc, items, ran>>
limitVars == <<allowed, opener, files>>

LockThread == Process \X ThreadId

-----------------------------------------------------------------------------
(* LockFile and UnlockFile *)

MoveLock(t, from, to) == lockPc[t] = from /\ lockPc' = [lockPc EXCEPT ![t] = to]

Held(t) == lockPc[t] = "held"

\* close(fd), of any descriptor of the file.
CloseFd(p) ==
    IF owner = p THEN /\ owner' = NoProcess
                      /\ dropped' = dropped \cup {u \in LockThread : u[1] = p /\ Held(u)}
                 ELSE UNCHANGED <<owner, dropped>>

OpenLock(t) == MoveLock(t, "idle", "opened") /\ UNCHANGED <<owner, names, dropped>>

\* Mutant: the kernel's lock alone keeps threads out.
InsertNameAlways(t) ==
    /\ MoveLock(t, "opened", "inserted") /\ names' = names \cup {t[1]}
    /\ UNCHANGED <<owner, dropped>>

\* PosixLockTable::Insert
InsertName(t) ==
    /\ MoveLock(t, "opened", IF t[1] \in names THEN "refused" ELSE "inserted")
    /\ names' = names \cup {t[1]}
    /\ UNCHANGED <<owner, dropped>>

\* "already held by process"
Refused(t) == MoveLock(t, "refused", "idle") /\ CloseFd(t[1]) /\ UNCHANGED names

SetLock(t) ==
    /\ owner \in {NoProcess, t[1]} /\ owner' = t[1]
    /\ MoveLock(t, "inserted", "held") /\ UNCHANGED <<names, dropped>>

\* Another process has the lock, or the call fails.
SetLockFails(t) == MoveLock(t, "inserted", "denied") /\ UNCHANGED <<owner, names, dropped>>

Denied(t) == MoveLock(t, "denied", "closed") /\ CloseFd(t[1]) /\ UNCHANGED names

\* UnlockFile begins: F_UNLCK, which may fail.
UnlockFile(t) ==
    /\ MoveLock(t, "held", "unlocked")
    /\ owner' \in {owner, IF owner = t[1] THEN NoProcess ELSE owner}
    /\ dropped' = dropped \ {t} /\ UNCHANGED names

\* PosixLockTable::Remove
RemoveName(t) ==
    /\ \/ MoveLock(t, "unlocked", "removed")
       \/ MoveLock(t, "closed", "idle")
    /\ names' = names \ {t[1]} /\ UNCHANGED <<owner, dropped>>

CloseUnlocked(t) == MoveLock(t, "removed", "idle") /\ CloseFd(t[1]) /\ UNCHANGED names

ProcessGone(p) ==
    /\ lockPc' = [t \in LockThread |-> IF t[1] = p THEN "idle" ELSE lockPc[t]]
    /\ names' = names \ {p} /\ owner' = IF owner = p THEN NoProcess ELSE owner
    /\ dropped' = {t \in dropped : t[1] # p}

LockNext ==
    \/ \E t \in LockThread :
          \/ OpenLock(t) \/ InsertName(t) \/ Refused(t) \/ SetLock(t) \/ SetLockFails(t)
          \/ Denied(t) \/ UnlockFile(t) \/ RemoveName(t) \/ CloseUnlocked(t)
    \/ \E p \in Process : ProcessGone(p)

-----------------------------------------------------------------------------
(* Schedule and BGThread: each step is a critical section of mu_. *)

\* Called by any thread, the background thread's own item included.
Schedule ==
    /\ items < MaxItems /\ items' = items + 1
    /\ bgQueue' = Append(bgQueue, items + 1)
    /\ bgPc' = IF bgPc = "none" \/ (bgPc = "asleep" /\ bgQueue = <<>>) THEN "awake" ELSE bgPc
    /\ UNCHANGED ran

\* Mutant: the thread waits for a signal before it looks at the queue.
BGThreadWaitsFirst ==
    \/ bgPc = "awake" /\ bgPc' = "asleep" /\ UNCHANGED <<bgQueue, items, ran>>
    \/ /\ bgPc = "awake" /\ bgQueue # <<>> /\ bgPc' = "running"
       /\ ran' = Append(ran, Head(bgQueue)) /\ bgQueue' = Tail(bgQueue) /\ UNCHANGED items

\* BGThread: it waits while the queue is empty, or takes the first item.
BGThread ==
    /\ bgPc = "awake"
    /\ IF bgQueue = <<>>
       THEN bgPc' = "asleep" /\ UNCHANGED <<bgQueue, ran>>
       ELSE /\ bgPc' = "running"
            /\ ran' = Append(ran, Head(bgQueue)) /\ bgQueue' = Tail(bgQueue)
    /\ UNCHANGED items

\* The item's function returns, or the wait ends without a signal.
BGLoop ==
    /\ bgPc \in {"running", "asleep"} /\ bgPc' = "awake"
    /\ UNCHANGED <<bgQueue, items, ran>>

ScheduleNext == Schedule \/ BGThread \/ BGLoop

-----------------------------------------------------------------------------
(* The Limiters and NewRandomAccessFile.  Acquire looks at allowed_ without *)
(* the mutex first, and again with it.                                      *)

Kinds == {"mapped", "kept", "temporary"}

MoveOpener(t, from, to) == opener[t] = from /\ opener' = [opener EXCEPT ![t] = to]
Opens(kind) == files' = [files EXCEPT ![kind] = @ + 1]

NewRandomAccessFile(t) ==
    /\ FoldFunction(+, 0, files) + Cardinality({u \in ThreadId : opener[u] # "idle"}) < MaxFiles
    /\ MoveOpener(t, "idle", IF allowed.mmap > 0 THEN "mmap" ELSE "look")
    /\ UNCHANGED <<allowed, files>>

\* Mutant: Acquire trusts what it saw without the mutex.
AcquireMmapUnchecked(t) ==
    /\ MoveOpener(t, "mmap", "map")
    /\ allowed' = [allowed EXCEPT !.mmap = @ - 1] /\ UNCHANGED files

AcquireMmap(t) ==
    /\ IF allowed.mmap > 0
       THEN MoveOpener(t, "mmap", "map") /\ allowed' = [allowed EXCEPT !.mmap = @ - 1]
       ELSE MoveOpener(t, "mmap", "look") /\ UNCHANGED allowed
    /\ UNCHANGED files

Mmap(t) == MoveOpener(t, "map", "idle") /\ Opens("mapped") /\ UNCHANGED allowed

\* Mutant: a file that cannot be mapped keeps its place.
MmapFailsKeeping(t) == MoveOpener(t, "map", "idle") /\ UNCHANGED <<allowed, files>>

MmapFails(t) ==
    /\ MoveOpener(t, "map", "idle")
    /\ allowed' = [allowed EXCEPT !.mmap = @ + 1] /\ UNCHANGED files

\* PosixRandomAccessFile: the descriptor is kept, or opened again for each read.
LookForFd(t) ==
    IF allowed.fd > 0
    THEN MoveOpener(t, "look", "fd") /\ UNCHANGED <<allowed, files>>
    ELSE MoveOpener(t, "look", "idle") /\ Opens("temporary") /\ UNCHANGED allowed

AcquireFd(t) ==
    /\ MoveOpener(t, "fd", "idle")
    /\ IF allowed.fd > 0
       THEN Opens("kept") /\ allowed' = [allowed EXCEPT !.fd = @ - 1]
       ELSE Opens("temporary") /\ UNCHANGED allowed

\* The destructors.
CloseFile(kind) ==
    /\ files[kind] > 0 /\ files' = [files EXCEPT ![kind] = @ - 1]
    /\ allowed' = CASE kind = "mapped" -> [allowed EXCEPT !.mmap = @ + 1]
                    [] kind = "kept" -> [allowed EXCEPT !.fd = @ + 1]
                    [] OTHER -> allowed
    /\ UNCHANGED opener

LimitNext ==
    \/ \E t \in ThreadId :
          \/ NewRandomAccessFile(t) \/ AcquireMmap(t) \/ Mmap(t) \/ MmapFails(t)
          \/ LookForFd(t) \/ AcquireFd(t)
    \/ \E kind \in Kinds : CloseFile(kind)

-----------------------------------------------------------------------------

EnvInit ==
    /\ owner = NoProcess /\ names = {} /\ dropped = {}
    /\ lockPc = [t \in LockThread |-> "idle"]
    /\ bgQueue = <<>> /\ bgPc = "none" /\ items = 0 /\ ran = <<>>
    /\ allowed = [mmap |-> MmapLimit, fd |-> FdLimit]
    /\ opener = [t \in ThreadId |-> "idle"] /\ files = [kind \in Kinds |-> 0]

EnvNext ==
    \/ LockNext /\ UNCHANGED <<bgVars, limitVars>>
    \/ ScheduleNext /\ UNCHANGED <<lockVars, limitVars>>
    \/ LimitNext /\ UNCHANGED <<lockVars, bgVars>>

EnvSpec == EnvInit /\ [][EnvNext]_<<lockVars, bgVars, limitVars>>

-----------------------------------------------------------------------------
(* Properties *)

\* env.h says of LockFile: "Used to prevent concurrent access to the same db by
\* multiple processes".  What it promises is one thread at a time.
OneHolder == \A t, u \in LockThread : Held(t) /\ Held(u) => t = u

\* It keeps this within a process; and between processes as long as the process
\* that holds the lock closes no other descriptor of the file, which it does
\* when another of its threads is refused, or is still in UnlockFile.
HoldersKnown ==
    \A t \in LockThread : Held(t) =>
        /\ t \notin dropped => owner = t[1]
        /\ \A u \in LockThread : Held(u) /\ u[1] = t[1] => t = u

\* The background thread never sleeps on work, and takes each item once, in the
\* order of the Schedule calls.
NothingSleptOn ==
    /\ bgPc = "asleep" => bgQueue = <<>>
    /\ ran \o bgQueue = [i \in 1 .. items |-> i]

\* The files that are mapped and kept open stay within the limits, and each has
\* its place back in the end, however Acquire is raced and mapping fails.
LimitsKept ==
    /\ allowed.mmap + files["mapped"]
           + Cardinality({t \in ThreadId : opener[t] = "map"}) = MmapLimit
    /\ allowed.fd + files["kept"] = FdLimit
    /\ allowed.mmap >= 0 /\ allowed.fd >= 0

\* All three: the lock, the background thread's work and the limits.
EnvironmentSound == HoldersKnown /\ NothingSleptOn /\ LimitsKept
=============================================================================
