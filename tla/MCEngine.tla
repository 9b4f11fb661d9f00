-------------------------------- MODULE MCEngine --------------------------------
(*****************************************************************************)
(* The parts of the leveldb pod that LevelDB takes for granted, each on its  *)
(* own: what the levels hold (Versions), the memtable's skip list            *)
(* (SkipList), the bytes of a log (LogFormat), the iterators (Iterators),    *)
(* the cache of open tables (TableCache), the bytes of a table (SortedTable) *)
(* and the environment's lock, thread and limits (PosixEnv).  A behaviour is *)
(* one of the part it starts with; the other parts stay in their initial     *)
(* states.                                                                   *)
(*****************************************************************************)
EXTENDS MCVersions, SkipList, LogFormat, Iterators, TableCache, SortedTable,
        PosixEnv

CONSTANT Parts

VARIABLE part

engineVars == <<vars, listVars, logVars, iterVars, cacheVars, tableVars,
                lockVars, bgVars, limitVars, part>>

envVars == <<lockVars, bgVars, limitVars>>
storeVars == <<vars, listVars, logVars, iterVars, cacheVars, tableVars>>

\* User keys with a common prefix, with the last byte, and one with two entries.
MCKeys == {<<1, 4>>, <<1, 2, 5>>, <<1, 2, 4>>, <<2, 4>>, <<3, 4>>}

MCInit ==
    /\ part \in Parts
    /\ Init /\ SkipListInit /\ LogInit /\ IteratorInit /\ CacheInit /\ TableInit
    /\ EnvInit

StoreParts ==
    \/ /\ part = "levels" /\ Next
       /\ UNCHANGED <<listVars, logVars, iterVars, cacheVars, tableVars>>
    \/ /\ part = "list" /\ SkipListNext
       /\ UNCHANGED <<vars, logVars, iterVars, cacheVars, tableVars>>
    \/ /\ part = "log" /\ LogNext
       /\ UNCHANGED <<vars, listVars, iterVars, cacheVars, tableVars>>
    \/ /\ part = "iterators" /\ IteratorNext
       /\ UNCHANGED <<vars, listVars, logVars, cacheVars, tableVars>>
    \/ /\ part = "cache" /\ CacheNext
       /\ UNCHANGED <<vars, listVars, logVars, iterVars, tableVars>>
    \/ /\ part = "table" /\ TableNext
       /\ UNCHANGED <<vars, listVars, logVars, iterVars, cacheVars>>

EnvParts ==
    \/ part = "locks" /\ LockNext /\ UNCHANGED <<bgVars, limitVars>>
    \/ part = "thread" /\ ScheduleNext /\ UNCHANGED <<lockVars, limitVars>>
    \/ part = "limits" /\ LimitNext /\ UNCHANGED <<lockVars, bgVars>>

MCNext ==
    /\ \/ StoreParts /\ UNCHANGED envVars
       \/ EnvParts /\ UNCHANGED storeVars
    /\ UNCHANGED part

MCSpec == MCInit /\ [][MCNext]_engineVars
=============================================================================
