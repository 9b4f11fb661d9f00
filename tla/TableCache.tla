------------------------------- MODULE TableCache ------------------------------
(*****************************************************************************)
(* One shard of the leveldb pod's cache (util/cache.cc), used by Gets and    *)
(* iterators the way the table cache uses it (db/table_cache.cc): one that   *)
(* does not find its table opens the file without the cache's mutex and puts *)
(* it in; two may do so for one file.  A handle is known by the number of    *)
(* its Insert.                                                               *)
(*****************************************************************************)
EXTENDS Integers, SequencesExt, FiniteSetsExt

CONSTANTS CacheUser,  \* Gets and iterators, with a table each
          Cached,     \* keys of this shard: the tables
          NoTable,    \* none of them
          Charges,    \* charges of an entry
          capacity,   \* capacity_
          MaxHandles  \* handles in a behaviour

ASSUME CacheAssumption ==
    /\ capacity \in Nat \ {0} /\ Charges \subseteq Nat /\ MaxHandles \in Nat
    /\ IsFiniteSet(CacheUser) /\ NoTable \notin Cached

VARIABLES cache,   \* the shard
          held,    \* the handle each of them holds, 0 for none
          opening  \* the table whose file each of them is opening

cacheVars == <<cache, held, opening>>

Made == DOMAIN cache.handle

-----------------------------------------------------------------------------
(* The shard: each operation makes a new one of it, under the mutex. *)

Unlinked(list, e) ==
    IF e \in ToSet(list) THEN RemoveAt(list, CHOOSE i \in DOMAIN list : list[i] = e) ELSE list

\* e is on one of the two lists, and leaves it.
LRURemove(c, e) == [c EXCEPT !.lru = Unlinked(@, e), !.inUse = @ \ {e}]

Ref(c, e) ==
    LET h == c.handle[e]
        moved == IF h.refs = 1 /\ h.inCache
                 THEN [LRURemove(c, e) EXCEPT !.inUse = @ \cup {e}] ELSE c
    IN  [moved EXCEPT !.handle[e].refs = @ + 1]

\* Mutant: an entry that has left the cache goes to the LRU list all the same.
UnrefAlways(c, e) ==
    LET h == c.handle[e]
        less == [c EXCEPT !.handle[e].refs = @ - 1]
    IN  IF h.refs = 1 THEN [less EXCEPT !.freed = @ \cup {e}]
        ELSE IF h.refs = 2
        THEN [LRURemove(less, e) EXCEPT !.lru = Append(@, e)]
        ELSE less

Unref(c, e) ==
    LET h == c.handle[e]
        less == [c EXCEPT !.handle[e].refs = @ - 1]
    IN  IF h.refs = 1 THEN [less EXCEPT !.freed = @ \cup {e}]
        ELSE IF h.refs = 2 /\ h.inCache
        THEN [LRURemove(less, e) EXCEPT !.lru = Append(@, e)]
        ELSE less

\* e, or 0 for none, has just left the hash table.
FinishErase(c, e) ==
    IF e = 0 THEN c
    ELSE Unref([LRURemove(c, e) EXCEPT !.handle[e].inCache = FALSE,
                                       !.usage = @ - c.handle[e].charge], e)

RemoveKey(c, k) == FinishErase([c EXCEPT !.table[k] = 0], c.table[k])

\* The oldest entries of the LRU list go: all of them, or until the rest fits.
OldestGo(c, all) ==
    LET after[n \in 0 .. Len(c.lru)] ==
            IF n = 0 THEN c
            ELSE LET d == after[n - 1]
                 IN  IF d.lru # <<>> /\ (all \/ d.usage > capacity)
                     THEN RemoveKey(d, d.handle[Head(d.lru)].key)
                     ELSE d
    IN  after[Len(c.lru)]

\* A handle with a reference for the caller and one for the cache; it takes the
\* place of the one its key had.
Inserted(c, k, charge) ==
    LET e == Len(c.handle) + 1
        put == [c EXCEPT !.handle = Append(@, [key |-> k, charge |-> charge, refs |-> 2,
                                               inCache |-> TRUE]),
                         !.inUse = @ \cup {e}, !.usage = @ + charge, !.table[k] = e]
    IN  OldestGo(FinishErase(put, c.table[k]), FALSE)

-----------------------------------------------------------------------------
(* What Gets and iterators do. *)

\* FindTable: one that misses goes on to open the file.
FindTable(u, k) ==
    /\ held[u] = 0 /\ opening[u] = NoTable
    /\ IF cache.table[k] # 0
       THEN /\ cache' = Ref(cache, cache.table[k])
            /\ held' = [held EXCEPT ![u] = cache.table[k]]
            /\ UNCHANGED opening
       ELSE opening' = [opening EXCEPT ![u] = k] /\ UNCHANGED <<cache, held>>

\* Opened: no second look at the cache before it is put in.
Opened(u) ==
    /\ opening[u] # NoTable /\ Len(cache.handle) < MaxHandles
    /\ \E charge \in Charges : cache' = Inserted(cache, opening[u], charge)
    /\ held' = [held EXCEPT ![u] = Len(cache.handle) + 1]
    /\ opening' = [opening EXCEPT ![u] = NoTable]

\* Errors are not cached.
OpeningFails(u) ==
    /\ opening[u] # NoTable
    /\ opening' = [opening EXCEPT ![u] = NoTable]
    /\ UNCHANGED <<cache, held>>

\* The end of a Get, or an iterator's cleanup.
Release(u) ==
    /\ held[u] # 0
    /\ cache' = Unref(cache, held[u])
    /\ held' = [held EXCEPT ![u] = 0]
    /\ UNCHANGED opening

\* The file has been deleted.
Evict(k) == cache' = RemoveKey(cache, k) /\ UNCHANGED <<held, opening>>

Prune == cache' = OldestGo(cache, TRUE) /\ UNCHANGED <<held, opening>>

CacheInit ==
    /\ cache = [handle |-> <<>>, table |-> [k \in Cached |-> 0], lru |-> <<>>, inUse |-> {},
                usage |-> 0, freed |-> {}]
    /\ held = [u \in CacheUser |-> 0]
    /\ opening = [u \in CacheUser |-> NoTable]

CacheNext ==
    \/ \E u \in CacheUser :
          (\E k \in Cached : FindTable(u, k)) \/ Opened(u) \/ OpeningFails(u) \/ Release(u)
    \/ \E k \in Cached : Evict(k)
    \/ Prune

CacheSpec == CacheInit /\ [][CacheNext]_cacheVars

-----------------------------------------------------------------------------
(* Properties *)

Holders(e) == Cardinality({u \in CacheUser : held[u] = e})

\* The charges of what the cache has, among the handles h.
ChargeInCache(h) ==
    LET sum[n \in 0 .. Len(h)] ==
            IF n = 0 THEN 0 ELSE sum[n - 1] + IF h[n].inCache THEN h[n].charge ELSE 0
    IN  sum[Len(h)]

InCache == {e \in Made : cache.handle[e].inCache}

\* A handle lives exactly as long as somebody holds it or the cache has it, also
\* one that was replaced, evicted or erased while it was held; the hash table has
\* one handle for a key, the LRU list those that nobody holds, and the usage is
\* the sum of what the cache has.
CacheSound ==
    /\ \A e \in Made :
          /\ cache.handle[e].refs = Holders(e) + IF e \in InCache THEN 1 ELSE 0
          /\ e \in cache.freed <=> cache.handle[e].refs = 0
          /\ e \in InCache <=> cache.table[cache.handle[e].key] = e
    /\ ToSet(cache.lru) = {e \in InCache : Holders(e) = 0}
    /\ cache.inUse = InCache \ ToSet(cache.lru)
    /\ cache.usage = ChargeInCache(cache.handle)
=============================================================================
