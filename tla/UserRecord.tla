------------------------------ MODULE UserRecord ------------------------------
(****************************************************************************)
(* One record users/<uid> of the Firebase realtime database, as the screens *)
(* of the app use it: setValue and observe(.value) called on the main       *)
(* thread, the client library's worker queue that applies them to its local *)
(* view, the server that accepts or rejects the writes, and the main queue  *)
(* on which observers and completion blocks run.                            *)
(*                                                                          *)
(* `server' is the record as the client knows it once `loaded': what the    *)
(* server holds and the push that tells this client so are one step.        *)
(* `pending' holds the writes the server has not answered; the first        *)
(* `applied' of them are already in `server'.  Nothing is persisted, so     *)
(* Restart loses whatever the server did not receive.                       *)
(****************************************************************************)
EXTENDS Naturals, Sequences

CONSTANTS
    Field,      \* the children of users/<uid>
    Value,      \* the strings a child can hold
    Absent,     \* the child does not exist (a record of Absents does not)
    Kind,       \* the purposes of the app's observers
    Tag,        \* the purposes of the app's writes
    NoTag,      \* a setValue without a completion block
    NoSnap,     \* the observer has not run yet
    AppBlock    \* the other blocks the app puts on the main queue

ASSUME AppBlockAssumption == \A b \in AppBlock : b.op \notin {"value", "done"}

VARIABLES
    server,     \* the record, see above
    loaded,     \* the answer to the listen has arrived
    pending,    \* unanswered writes, oldest first (FWriteTree, outstandingPuts)
    applied,    \* how many of them the server has applied
    writeId,    \* the last write id given out
    regs,       \* the registered observers' kinds, in order of registration
    work,       \* calls waiting on the database's worker queue
    main,       \* blocks waiting on the main queue
    seen        \* the snapshot each observer was last given

vars == <<server, loaded, pending, applied, writeId, regs, work, main, seen>>

Record == [Field -> Value \cup {Absent}]
Data   == [Field -> Value] \cup UNION {[{f} -> Value] : f \in Field}
Write  == [id : Nat, data : Data, tag : Tag \cup {NoTag}]

SetCall(data, tag) == [op |-> "set", data |-> data, tag |-> tag]
ObserveCall(kind)  == [op |-> "observe", kind |-> kind]
ValueBlock(to, snap)   == [op |-> "value", to |-> to, snap |-> snap]
DoneBlock(id, tag, ok) == [op |-> "done", id |-> id, tag |-> tag, ok |-> ok]

Call  == [op : {"set"}, data : Data, tag : Tag \cup {NoTag}]
            \cup [op : {"observe"}, kind : Kind]
Block == [op : {"value"}, to : Nat, snap : Record]
            \cup [op : {"done"}, id : Nat, tag : Tag, ok : BOOLEAN]
            \cup AppBlock

-----------------------------------------------------------------------------
(* The client's view: the server's data under the unanswered writes.       *)

LastWrite(ws, f, k) ==
    /\ f \in DOMAIN ws[k].data
    /\ \A j \in DOMAIN ws : j > k => f \notin DOMAIN ws[j].data

Overlay(rec, ws) ==
    [f \in Field |->
        IF \E k \in DOMAIN ws : LastWrite(ws, f, k)
        THEN ws[CHOOSE k \in DOMAIN ws : LastWrite(ws, f, k)].data[f]
        ELSE rec[f]]

View == Overlay(server, pending)

\* The view is complete: observers may be told of it.
Ready == loaded \/ \E k \in DOMAIN pending : DOMAIN pending[k].data = Field

\* One event per observer, raised when the view becomes complete or changes.
ValueEvents ==
    IF Ready' /\ (~Ready \/ View' # View)
    THEN [i \in 1..Len(regs) |-> ValueBlock(i, View')]
    ELSE <<>>

\* Mutant: only successes are reported.
CompletionDropsFailure(w, ok) ==
    IF w.tag = NoTag \/ ~ok THEN <<>> ELSE <<DoneBlock(w.id, w.tag, ok)>>

Completion(w, ok) ==
    IF w.tag = NoTag THEN <<>> ELSE <<DoneBlock(w.id, w.tag, ok)>>

-----------------------------------------------------------------------------
(* The main thread.  A turn of it never waits: it queues calls for the worker *)
(* and blocks for a later turn.                                               *)

MainTurn(calls, blocks) ==
    /\ work' = work \o calls
    /\ main' = main \o blocks
    /\ UNCHANGED <<server, loaded, pending, applied, writeId, regs, seen>>

RunBlock(calls, blocks) ==
    /\ main # <<>>
    /\ main' = Tail(main) \o blocks
    /\ seen' = IF Head(main).op = "value"
               THEN [seen EXCEPT ![Head(main).to] = Head(main).snap]
               ELSE seen
    /\ work' = work \o calls
    /\ UNCHANGED <<server, loaded, pending, applied, writeId, regs>>

-----------------------------------------------------------------------------
(* The worker queue. *)

WorkerSet ==
    /\ work # <<>> /\ Head(work).op = "set"
    /\ work' = Tail(work)
    /\ writeId' = writeId + 1
    /\ pending' = Append(pending, [id |-> writeId', data |-> Head(work).data,
                                   tag |-> Head(work).tag])
    /\ UNCHANGED <<server, loaded, applied, regs, seen>>
    /\ main' = main \o ValueEvents

\* Mutant: a new observer waits for the next change.
ObserveLate ==
    /\ work # <<>> /\ Head(work).op = "observe"
    /\ work' = Tail(work)
    /\ regs' = Append(regs, Head(work).kind)
    /\ seen' = Append(seen, NoSnap)
    /\ UNCHANGED <<server, loaded, pending, applied, writeId, main>>

WorkerObserve ==
    /\ work # <<>> /\ Head(work).op = "observe"
    /\ work' = Tail(work)
    /\ regs' = Append(regs, Head(work).kind)
    /\ seen' = Append(seen, NoSnap)
    /\ main' = IF Ready THEN Append(main, ValueBlock(Len(regs'), View)) ELSE main
    /\ UNCHANGED <<server, loaded, pending, applied, writeId>>

\* The answer to the listen, with the server's data.
Load ==
    /\ ~loaded /\ regs # <<>>
    /\ loaded' = TRUE
    /\ UNCHANGED <<server, pending, applied, writeId, regs, work, seen>>
    /\ main' = main \o ValueEvents

\* The server applies the next write it was sent and pushes the result.
ServerApply ==
    /\ applied < Len(pending)
    /\ server' = Overlay(server, <<pending[applied + 1]>>)
    /\ applied' = applied + 1
    /\ UNCHANGED <<loaded, pending, writeId, regs, work, seen>>
    /\ main' = main \o ValueEvents

\* Mutant: they are held back while nothing is listened to.
AnswerableOnceLoaded == pending # <<>> /\ loaded

\* Answers to writes are held back while a listen is unanswered.
Answerable == pending # <<>> /\ (loaded \/ regs = <<>>)

\* Mutants: the bookkeeping of what the server has applied is forgotten; the
\* acknowledged write stays in the write tree.
AckKeepsCount ==
    /\ Answerable /\ applied > 0
    /\ pending' = Tail(pending)
    /\ UNCHANGED <<server, loaded, applied, writeId, regs, work, seen>>
    /\ main' = main \o ValueEvents \o Completion(Head(pending), TRUE)

AckKeepsWrite ==
    /\ Answerable /\ applied > 0
    /\ applied' = applied - 1
    /\ UNCHANGED <<server, loaded, pending, writeId, regs, work, seen>>
    /\ main' = main \o ValueEvents \o Completion(Head(pending), TRUE)

Ack ==
    /\ Answerable /\ applied > 0
    /\ pending' = Tail(pending)
    /\ applied' = applied - 1
    /\ UNCHANGED <<server, loaded, writeId, regs, work, seen>>
    /\ main' = main \o ValueEvents \o Completion(Head(pending), TRUE)

\* Mutant: the write is reverted and nobody is told.
RejectSilent ==
    /\ Answerable /\ applied = 0
    /\ pending' = Tail(pending)
    /\ UNCHANGED <<server, loaded, applied, writeId, regs, work, seen>>
    /\ main' = main \o Completion(Head(pending), FALSE)

Reject ==
    /\ Answerable /\ applied = 0
    /\ pending' = Tail(pending)
    /\ UNCHANGED <<server, loaded, applied, writeId, regs, work, seen>>
    /\ main' = main \o ValueEvents \o Completion(Head(pending), FALSE)

\* Another client changes the record, or it is removed.
RemoteChange(rec) ==
    /\ server' = rec
    /\ UNCHANGED <<loaded, pending, applied, writeId, regs, work, seen>>
    /\ main' = main \o ValueEvents

\* The connection drops before the answers arrive: every unanswered write is
\* sent again, the applied ones included.
Reconnect ==
    /\ applied > 0
    /\ applied' = 0
    /\ UNCHANGED <<server, loaded, pending, writeId, regs, work, main, seen>>

\* The process is killed.  The server may still receive what was in flight.
Restart ==
    /\ \E k \in applied..Len(pending) :
          server' = Overlay(server, SubSeq(pending, applied + 1, k))
    /\ loaded' = FALSE /\ applied' = 0 /\ writeId' = 0
    /\ pending' = <<>> /\ regs' = <<>> /\ work' = <<>> /\ main' = <<>> /\ seen' = <<>>

-----------------------------------------------------------------------------

Init ==
    /\ server \in Record
    /\ loaded = FALSE /\ applied = 0 /\ writeId = 0
    /\ pending = <<>> /\ regs = <<>> /\ work = <<>> /\ main = <<>> /\ seen = <<>>

Answer == Ack \/ Reject
Backend == WorkerSet \/ WorkerObserve \/ Load \/ ServerApply \/ Answer

Next ==
    \/ \E calls \in Seq(Call), blocks \in Seq(AppBlock) :
          MainTurn(calls, blocks) \/ RunBlock(calls, blocks)
    \/ Backend
    \/ \E rec \in Record : RemoteChange(rec)
    \/ Reconnect
    \/ Restart

Spec == Init /\ [][Next]_vars

\* Both dispatch queues are served, and the client keeps reconnecting and
\* resending until the server has answered the listen and every write.
Fairness ==
    /\ WF_vars(RunBlock(<<>>, <<>>))
    /\ WF_vars(WorkerSet \/ WorkerObserve)
    /\ WF_vars(Load)
    /\ WF_vars(ServerApply \/ Reject)
    /\ WF_vars(Ack)

-----------------------------------------------------------------------------
(* Properties *)

TypeOK ==
    /\ server \in Record
    /\ loaded \in BOOLEAN
    /\ pending \in Seq(Write)
    /\ applied \in 0..Len(pending)
    /\ writeId \in Nat
    /\ regs \in Seq(Kind)
    /\ work \in Seq(Call)
    /\ main \in Seq(Block)
    /\ seen \in Seq(Record \cup {NoSnap}) /\ Len(seen) = Len(regs)

IsValueTo(k, i) == main[k].op = "value" /\ main[k].to = i

\* The last snapshot on its way to observer i, or else the one it has, is the
\* client's view.
Current(i) ==
    \/ \E k \in DOMAIN main :
          /\ main[k] = ValueBlock(i, View)
          /\ \A j \in DOMAIN main : j > k => ~IsValueTo(j, i)
    \/ /\ \A j \in DOMAIN main : ~IsValueTo(j, i)
       /\ seen[i] = View

\* No observer misses an update and none is left with an older snapshot,
\* whatever the order of writes, answers, reverts, pushes and registrations.
Delivery == Ready => \A i \in DOMAIN regs : Current(i)

\* An observer with nothing on its way, no write being unanswered, shows the
\* record the server holds: screens never keep a value the server refused.
Converged ==
    loaded /\ pending = <<>> =>
        \A i \in DOMAIN regs :
            (\A j \in DOMAIN main : ~IsValueTo(j, i)) => seen[i] = server

\* Completion blocks run in the order of the writes, and no write is answered
\* twice, although a reconnection sends writes again.
AnswersInOrder ==
    /\ \A j, k \in DOMAIN main :
          j < k /\ main[j].op = "done" /\ main[k].op = "done" => main[j].id < main[k].id
    /\ \A j \in DOMAIN main, k \in DOMAIN pending :
          main[j].op = "done" => main[j].id < pending[k].id
    /\ \A j, k \in DOMAIN pending : j < k => pending[j].id < pending[k].id

\* When users and other clients stop, every observer ends up showing the
\* server's record and every queue is empty.
Settles ==
    <>[](/\ pending = <<>> /\ work = <<>> /\ main = <<>>
         /\ \A i \in DOMAIN regs : seen[i] = server)
=============================================================================
