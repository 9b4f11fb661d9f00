------------------------------- MODULE LogFormat -------------------------------
(*****************************************************************************)
(* The layout of a log of the leveldb pod and what its reader makes of it    *)
(* after a failed write, a crash and a log that is taken up again            *)
(* (db/log_writer.cc, db/log_reader.cc).                                     *)
(*                                                                           *)
(* A byte of the file is known by the physical record it belongs to and its  *)
(* place in it.  The checksum tells a physical record that is all there from *)
(* everything else: a header that is torn, or read at the wrong place, drops *)
(* the rest of its block whatever length and type it seems to have.  The     *)
(* reader always starts at the beginning of the file, as all its callers     *)
(* make it do.                                                               *)
(*****************************************************************************)
EXTENDS Integers, SequencesExt, FiniteSetsExt

CONSTANTS kBlockSize, kHeaderSize,
          RecordSizes,  \* of the records that are added
          MaxRecords,   \* records that are added
          MaxDamage     \* failed writes and crashes

ASSUME LogAssumption ==
    /\ kHeaderSize \in Nat \ {0} /\ kBlockSize \in Nat /\ kBlockSize > kHeaderSize
    /\ RecordSizes \subseteq Nat

VARIABLES file,        \* the bytes of the log
          blockOffset, \* block_offset_ of the Writer
          records,     \* the size of each record added, or tried
          whole,       \* those whose AddRecord returned ok
          torn,        \* blocks in which a physical record was cut by a crash
          failed,      \* a write has failed
          damage

logVars == <<file, blockOffset, records, whole, torn, failed, damage>>

Filler == [piece |-> [rec |-> 0], at |-> 0]

-----------------------------------------------------------------------------
(* Writing *)

\* A turn of AddRecord's loop: the trailer of a block without room for a header, and
\* EmitPhysicalRecord of what the block takes of the `left' bytes to come.
Emit(rec, w, begin) ==
    LET room  == kBlockSize - w.ends
        fill  == IF room < kHeaderSize THEN room ELSE 0
        start == IF room < kHeaderSize THEN 0 ELSE w.ends
        n     == Min({w.left, kBlockSize - start - kHeaderSize})
        type  == IF begin THEN IF n = w.left THEN "full" ELSE "first"
                 ELSE IF n = w.left THEN "last" ELSE "middle"
        piece == [rec |-> rec, type |-> type, len |-> n, left |-> w.left - n]
    IN  [left  |-> w.left - n,
         ends  |-> start + kHeaderSize + n,
         bytes |-> w.bytes \o [i \in 1 .. fill |-> Filler]
                           \o [i \in 1 .. kHeaderSize + n |-> [piece |-> piece, at |-> i - 1]]]

\* The log, block_offset_ and what is left after so many turns.
Turns(size) ==
    LET turn[i \in 0 .. size + 1] ==
            IF i = 0 THEN [left |-> size, ends |-> blockOffset, bytes |-> file]
            ELSE Emit(Len(records) + 1, turn[i - 1], i = 1)
    IN  turn

LastTurn(turn, size) == Min({i \in 1 .. size + 1 : turn[i].left = 0})

AddRecord(size) ==
    /\ Len(records) < MaxRecords
    /\ LET turn == Turns(size)
           end  == turn[LastTurn(turn, size)]
       IN  file' = end.bytes /\ blockOffset' = end.ends
    /\ records' = Append(records, size)
    /\ whole' = whole \cup {Len(records) + 1}
    /\ UNCHANGED <<torn, failed, damage>>

\* An Append or a Flush fails in the i-th turn: some of its bytes are written, and
\* block_offset_ counts them all.
AddRecordFails(size) ==
    /\ Len(records) < MaxRecords /\ damage < MaxDamage
    /\ LET turn == Turns(size)
       IN  \E i \in 1 .. LastTurn(turn, size) :
              \E n \in Len(turn[i - 1].bytes) .. Len(turn[i].bytes) :
                  /\ file' = SubSeq(turn[i].bytes, 1, n)
                  /\ blockOffset' = turn[i].ends
    /\ records' = Append(records, size)
    /\ failed' = TRUE /\ damage' = damage + 1
    /\ UNCHANGED <<whole, torn>>

\* The process or the machine stops: the file ends somewhere.  The store is
\* opened again and goes on with the same log (reuse_logs).
BlockOf(byte) == (byte - 1) \div kBlockSize + 1

\* Mutant: the Writer starts as on a new file.
TakeUpAnew ==
    /\ damage < MaxDamage /\ damage' = damage + 1
    /\ \E n \in 0 .. Len(file) :
          /\ file' = SubSeq(file, 1, n)
          /\ blockOffset' = 0
          /\ torn' = {b \in torn : (b - 1) * kBlockSize < n}
                     \cup IF n < Len(file) /\ file[n + 1].at > 0 THEN {BlockOf(n)} ELSE {}
          /\ whole' = {r \in whole : \A k \in n + 1 .. Len(file) : file[k].piece.rec # r}
    /\ UNCHANGED <<records, failed>>

TakeUp ==
    /\ damage < MaxDamage /\ damage' = damage + 1
    /\ \E n \in 0 .. Len(file) :
          /\ file' = SubSeq(file, 1, n)
          /\ blockOffset' = n % kBlockSize
          /\ torn' = {b \in torn : (b - 1) * kBlockSize < n}
                     \cup IF n < Len(file) /\ file[n + 1].at > 0 THEN {BlockOf(n)} ELSE {}
          /\ whole' = {r \in whole : \A k \in n + 1 .. Len(file) : file[k].piece.rec # r}
    /\ UNCHANGED <<records, failed>>

-----------------------------------------------------------------------------
(* Reading *)

BlockEnd(k) == Min({BlockOf(k) * kBlockSize, Len(file)})

\* ReadPhysicalRecord: the physical record at byte k is all there, in its block.
AllThere(k) ==
    LET piece == file[k].piece
        size  == kHeaderSize + piece.len
    IN  /\ file[k] # Filler /\ file[k].at = 0
        /\ k + size - 1 <= BlockEnd(k)
        /\ \A i \in 0 .. size - 1 : file[k + i] = [piece |-> piece, at |-> i]

\* ReadRecord, given a physical record: `part' is what it has gathered.
Take(r, p) ==
    CASE p.type = "full"   -> [r EXCEPT !.part = <<>>, !.out = Append(@, <<p>>)]
      [] p.type = "first"  -> [r EXCEPT !.part = <<p>>]
      [] p.type \in {"middle", "last"} /\ r.part = <<>> -> r
      [] p.type = "middle" /\ r.part # <<>> -> [r EXCEPT !.part = Append(@, p)]
      [] p.type = "last" /\ r.part # <<>> ->
            [r EXCEPT !.part = <<>>, !.out = Append(@, Append(r.part, p))]

\* Mutant: what was gathered of a record is kept over a bad stretch.
ReadOnGlued(r) ==
    LET next == BlockOf(r.at) * kBlockSize + 1
    IN  IF r.at > Len(file) THEN r
        ELSE IF BlockEnd(r.at) - r.at + 1 < kHeaderSize THEN [r EXCEPT !.at = next]
        ELSE IF AllThere(r.at)
        THEN [Take(r, file[r.at].piece) EXCEPT !.at = @ + kHeaderSize + file[r.at].piece.len]
        ELSE [r EXCEPT !.at = next]

\* The reader at byte `at'.  Less than a header is a trailer; a physical record that
\* is not all there drops the rest of its block and what was gathered.
ReadOn(r) ==
    LET next == BlockOf(r.at) * kBlockSize + 1
    IN  IF r.at > Len(file) THEN r
        ELSE IF BlockEnd(r.at) - r.at + 1 < kHeaderSize THEN [r EXCEPT !.at = next]
        ELSE IF AllThere(r.at)
        THEN [Take(r, file[r.at].piece) EXCEPT !.at = @ + kHeaderSize + file[r.at].piece.len]
        ELSE [r EXCEPT !.at = next, !.part = <<>>]

\* ReadRecord, called until the file ends: each record as the physical records it
\* was put together from.
ReadRecords ==
    LET after[n \in 0 .. Len(file)] ==
            IF n = 0 THEN [at |-> 1, part |-> <<>>, out |-> <<>>] ELSE ReadOn(after[n - 1])
    IN  after[Len(file)].out

-----------------------------------------------------------------------------

LogInit ==
    /\ file = <<>> /\ blockOffset = 0 /\ records = <<>> /\ whole = {} /\ torn = {}
    /\ failed = FALSE /\ damage = 0

LogNext == (\E size \in RecordSizes : AddRecord(size) \/ AddRecordFails(size)) \/ TakeUp

LogSpec == LogInit /\ [][LogNext]_logVars

-----------------------------------------------------------------------------
(* Properties *)

Owner(pieces) == pieces[1].rec

\* Physical records that are all of one record: its first bytes, then always those
\* that follow, until none are left.
Complete(pieces) ==
    /\ \A j \in DOMAIN pieces : pieces[j].rec = Owner(pieces)
    /\ pieces[1].len + pieces[1].left = records[Owner(pieces)]
    /\ \A j \in 2 .. Len(pieces) : pieces[j].len + pieces[j].left = pieces[j - 1].left
    /\ Last(pieces).left = 0

BlocksOf(r) == {BlockOf(k) : k \in {k \in DOMAIN file : file[k].piece.rec = r}}

\* The reader hands out what was added and nothing else, in that order: never a
\* record glued together from two, never one twice, whatever was cut where and
\* however far a failed write has put the writer out of step with the blocks.
OnlyRecords ==
    LET read == ReadRecords
    IN  /\ \A i \in DOMAIN read : Complete(read[i])
        /\ \A i, j \in DOMAIN read : i < j => Owner(read[i]) < Owner(read[j])

\* A crash costs no more than the block it cut: a record that is all in the file
\* is read, behind the cut too, unless it has a part in such a block.  Only for
\* writers whose writes have not failed: one that has goes on out of step.
CutIsLocal ==
    LET read == ReadRecords
    IN  ~failed => \A r \in whole : BlocksOf(r) \cap torn = {} =>
                      \E i \in DOMAIN read : Owner(read[i]) = r

\* Both: what a reader makes of a damaged log is some of what was added, and all
\* of it that no cut block holds.
LogHonest == OnlyRecords /\ CutIsLocal
=============================================================================
