------------------------------- MODULE SkipList --------------------------------
(*****************************************************************************)
(* The skip list of the memtable (db/skiplist.h): one thread inserts, under  *)
(* the mutex of the store, while others read without any lock.  Insert links *)
(* its node level by level; a reader takes one link at a time and may see    *)
(* any earlier value of max_height_.                                         *)
(*                                                                           *)
(* A node is known by its key.  HeadNode stands before every key and NULL,   *)
(* which "is considered infinite", behind every key.  A link that has not    *)
(* been written holds what the arena's memory held: Junk.                    *)
(*****************************************************************************)
EXTENDS Naturals, FiniteSets

CONSTANTS ListKeys,  \* how many keys: 1 .. ListKeys
          kMaxHeight

ASSUME SkipListAssumption == ListKeys \in Nat \ {0} /\ kMaxHeight \in Nat \ {0}

VARIABLES link,     \* next_: of each node, at each level
          heights,  \* the values max_height_ has had
          insert,   \* the Insert that is going on
          done,     \* the keys whose Insert has returned
          iter      \* a reader's Iterator, and the search it is in

listVars == <<link, heights, insert, done, iter>>

HeadNode == 0
NULL  == ListKeys + 1
Junk  == ListKeys + 2
Keys  == 1 .. ListKeys
Nodes == Keys \cup {HeadNode}
Idle  == [op |-> "none"]
Rungs == 0 .. kMaxHeight - 1

Highest(S) == CHOOSE n \in S : \A m \in S : m <= n

\* The nodes that are reached at a level, in any number of steps.
ChainAt(i) ==
    LET from[n \in 0 .. ListKeys] ==
            IF n = 0 THEN {HeadNode} ELSE from[n - 1] \cup {link[x][i] : x \in from[n - 1] \cap Nodes}
    IN  from[ListKeys] \ {NULL}

-----------------------------------------------------------------------------
(* Insert *)

\* FindGreaterOrEqual by the thread that inserts, which sees its own writes:
\* prev at level i.
Before(key, i) == Highest({x \in ChainAt(i) : x < key})

\* Up to the first link: RandomHeight has chosen height.
BeginInsert(key, height) ==
    /\ insert = Idle /\ key \notin done
    /\ insert' = [op |-> "insert", key |-> key, level |-> 0, height |-> height,
                  prev |-> [i \in Rungs |->
                              IF i < Highest(heights) THEN Before(key, i) ELSE HeadNode]]
    /\ heights' = IF height > Highest(heights) THEN heights \cup {height} ELSE heights
    /\ UNCHANGED <<link, done, iter>>

\* Mutant: from the top down.
LinkDownwards ==
    /\ insert # Idle
    /\ LET i == insert.height - 1 - insert.level
           x == insert.key
           p == insert.prev[i]
       IN  link' = [link EXCEPT ![x] = [@ EXCEPT ![i] = link[p][i]], ![p] = [@ EXCEPT ![i] = x]]
    /\ IF insert.level + 1 < insert.height
       THEN insert' = [insert EXCEPT !.level = @ + 1] /\ UNCHANGED done
       ELSE insert' = Idle /\ done' = done \cup {insert.key}
    /\ UNCHANGED <<heights, iter>>

\* One turn of the loop.  The node's own link is seen by nobody before the
\* release store in prev publishes it at this level.
Link ==
    /\ insert # Idle
    /\ LET i == insert.level
           x == insert.key
           p == insert.prev[i]
       IN  link' = [link EXCEPT ![x] = [@ EXCEPT ![i] = link[p][i]], ![p] = [@ EXCEPT ![i] = x]]
    /\ IF insert.level + 1 < insert.height
       THEN insert' = [insert EXCEPT !.level = @ + 1] /\ UNCHANGED done
       ELSE insert' = Idle /\ done' = done \cup {insert.key}
    /\ UNCHANGED <<heights, iter>>

-----------------------------------------------------------------------------
(* An iterator.  `at' is node_, NULL when it is not valid; `known' are the    *)
(* keys whose Insert had returned when the call began; nothing of them may    *)
(* lie between `lo' and `hi' when it returns.                                 *)

Settled(op, node, lo, hi) ==
    iter' = [op |-> op, busy |-> FALSE, at |-> node, known |-> iter.known, lo |-> lo, hi |-> hi]

\* FindGreaterOrEqual, FindLessThan and FindLast: the search for `key' starts at
\* head_, on a level that max_height_ has allowed at some time.
BeginSearch(op, key) ==
    /\ ~iter.busy
    /\ \E h \in heights :
          iter' = [op |-> op, busy |-> TRUE, key |-> key, x |-> HeadNode, level |-> h - 1,
                   known |-> done]
    /\ UNCHANGED <<link, heights, insert, done>>

Seek(target) == BeginSearch("seek", target)
SeekToLast == BeginSearch("last", NULL)
Prev == ~iter.busy /\ iter.at \in Keys /\ BeginSearch("prev", iter.at)

\* One turn of the search's loop: on along the level, or down, or out with the
\* node found, HeadNode being no valid position.
Search ==
    /\ iter.busy
    /\ LET next == link[iter.x][iter.level]
       IN  IF next < iter.key
           THEN iter' = [iter EXCEPT !.x = next]
           ELSE IF iter.level > 0
           THEN iter' = [iter EXCEPT !.level = @ - 1]
           ELSE IF iter.op = "seek" THEN Settled("seek", next, iter.key - 1, next)
           ELSE Settled(iter.op, IF iter.x = HeadNode THEN NULL ELSE iter.x, iter.x, iter.key)
    /\ UNCHANGED <<link, heights, insert, done>>

\* SeekToFirst and Next take one link.
Step(op, x) ==
    /\ iter' = [op |-> op, busy |-> FALSE, at |-> link[x][0], known |-> done, lo |-> x,
                hi |-> link[x][0]]
    /\ UNCHANGED <<link, heights, insert, done>>

SeekToFirst == ~iter.busy /\ Step("first", HeadNode)
NextNode == ~iter.busy /\ iter.at \in Keys /\ Step("next", iter.at)

-----------------------------------------------------------------------------

SkipListInit ==
    /\ link = [x \in Nodes |-> [i \in Rungs |-> IF x = HeadNode THEN NULL ELSE Junk]]
    /\ heights = {1} /\ insert = Idle /\ done = {}
    /\ iter = [op |-> "none", busy |-> FALSE, at |-> NULL, known |-> {}, lo |-> 0, hi |-> 0]

SkipListNext ==
    \/ \E key \in Keys, height \in 1 .. kMaxHeight : BeginInsert(key, height)
    \/ Link
    \/ \E target \in Keys : Seek(target)
    \/ SeekToLast \/ Prev \/ Search \/ SeekToFirst \/ NextNode

SkipListSpec == SkipListInit /\ [][SkipListNext]_listVars

-----------------------------------------------------------------------------
(* Properties *)

\* A reader without a lock ends at a node of the list, whatever is being linked
\* and however old the height it saw, and passes over no key whose Insert had
\* returned before its call: not one towards the end, nor, going back, one
\* towards the beginning.
NoneMissed ==
    IF iter.busy
    THEN iter.x \in ChainAt(iter.level) /\ iter.x < iter.key
    ELSE /\ iter.at = NULL \/ iter.at \in ChainAt(0)
         /\ \A key \in iter.known : ~(iter.lo < key /\ key < iter.hi)
=============================================================================
