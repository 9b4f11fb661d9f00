------------------------------ MODULE MCNewsFeed ------------------------------
(****************************************************************************)
(* NewsFeed with at most MaxInputs appearances, pulls, saves and changes by *)
(* other devices, and bounded reconnections and restarts.                   *)
(****************************************************************************)
EXTENDS NewsFeed

CONSTANTS MaxInputs, MaxRestarts, MaxReconnects

VARIABLES inputs, restarts, reconnects

mcfeedvars == <<homeVars, inputs, restarts, reconnects>>

MCChanges ==
    {[server EXCEPT ![f] = v] : f \in Field, v \in Value} \cup {[f \in Field |-> Absent]}

Free == UNCHANGED <<inputs, restarts, reconnects>>
Input ==
    /\ inputs < MaxInputs /\ inputs' = inputs + 1
    /\ UNCHANGED <<restarts, reconnects>>

MCInit ==
    /\ FeedInit
    /\ server \in {[f \in Field |-> v] : v \in Value \cup {Absent}}
    /\ inputs = 0 /\ restarts = 0 /\ reconnects = 0

MCNext ==
    \/ HomeUser /\ Input
    \/ Snapshot /\ Free
    \/ Network /\ Free
    \/ Backend /\ UNCHANGED feedVars /\ Free
    \/ \E rec \in MCChanges : RemoteChange(rec) /\ UNCHANGED feedVars /\ Input
    \/ /\ Reconnect /\ UNCHANGED feedVars
       /\ reconnects < MaxReconnects /\ reconnects' = reconnects + 1
       /\ UNCHANGED <<inputs, restarts>>
    \/ /\ Restart /\ HomeGone
       /\ restarts < MaxRestarts /\ restarts' = restarts + 1
       /\ UNCHANGED <<inputs, reconnects>>

MCSpec == MCInit /\ [][MCNext]_mcfeedvars
MCFairSpec == MCSpec /\ FeedFairness
=============================================================================
