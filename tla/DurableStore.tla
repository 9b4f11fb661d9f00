---------------------------- MODULE DurableStore ----------------------------
(***************************************************************************)
(* What leveldb promises its user about batches: DB::Write puts a batch    *)
(* into the store or fails, a crash may take back only what was not        *)
(* written with sync, and it may let a batch in whose answer never came.   *)
(* Reading, opening, flushing and compacting change nothing.               *)
(***************************************************************************)
CONSTANT Batch \* the batches there may be

VARIABLES up,    \* the store is open
          value, \* the batches in it
          open,  \* batches asked for and not answered with OK
          sure   \* batches that no crash may take back

vars == <<up, value, open, sure>>

Init == ~up /\ value = {} /\ open = {} /\ sure = {}

Open == ~up /\ up' /\ UNCHANGED <<value, open, sure>>

\* A batch is asked for.
Ask(b) ==
    /\ up /\ b \notin value \cup open
    /\ open' = open \cup {b}
    /\ UNCHANGED <<up, value, sure>>

\* Batches are answered with OK, some of them for sure, and only so do they
\* enter an open store.
Commit ==
    /\ up /\ open' \subseteq open
    /\ value' = value \cup (open \ open')
    /\ sure \subseteq sure' /\ sure' \subseteq sure \cup (open \ open')
    /\ UNCHANGED up

\* A crash keeps what is sure, may lose the rest, and may let in batches whose
\* fate was open.  Closing is a crash that has no need to lose anything.
Crash ==
    /\ ~up' /\ sure \subseteq value' /\ value' \subseteq value \cup open
    /\ UNCHANGED <<open, sure>>

Next == Open \/ Commit \/ Crash \/ \E b \in Batch : Ask(b)

Spec == Init /\ [][Next]_vars
=============================================================================
