----------------------------- MODULE MCUserRecord -----------------------------
(**************************************************************************)
(* UserRecord with finitely many inputs: turns that call the database     *)
(* and changes by other clients share the budget MaxInputs, reconnections *)
(* and restarts the budget MaxFaults.                                     *)
(**************************************************************************)
EXTENDS UserRecord

CONSTANTS MaxInputs, MaxFaults

VARIABLES inputs, faults

mcvars == <<vars, inputs, faults>>

\* The calls the screens make: the blank record of a new account, the save of
\* one field with and without a completion block, and observe.
MCCalls ==
    {<<SetCall([f \in Field |-> v], t)>> : v \in Value, t \in Tag}
    \cup {<<SetCall([f \in {g} |-> v], t)>> : g \in Field, v \in Value, t \in Tag \cup {NoTag}}
    \cup {<<ObserveCall(k)>> : k \in Kind}

MCAppBlock == {[op |-> "app"]}

Input ==
    /\ inputs < MaxInputs /\ inputs' = inputs + 1
    /\ UNCHANGED faults

MCTurn == Input /\ \E calls \in MCCalls : MainTurn(calls, <<>>)
MCRunBlock ==
    \/ RunBlock(<<>>, <<>>) /\ UNCHANGED <<inputs, faults>>
    \/ Input /\ \E calls \in MCCalls : RunBlock(calls, <<>>)
    \/ Input /\ RunBlock(<<>>, <<[op |-> "app"]>>)
MCRemoteChange ==
    /\ Input
    /\ \E rec \in {[server EXCEPT ![f] = v] : f \in Field, v \in Value}
                  \cup {[f \in Field |-> Absent]} : RemoteChange(rec)
MCFault ==
    /\ faults < MaxFaults /\ faults' = faults + 1
    /\ UNCHANGED inputs
    /\ Reconnect \/ Restart

MCInit == Init /\ inputs = 0 /\ faults = 0

MCNext ==
    \/ MCTurn
    \/ MCRunBlock
    \/ Backend /\ UNCHANGED <<inputs, faults>>
    \/ MCRemoteChange
    \/ MCFault

MCSpec == MCInit /\ [][MCNext]_mcvars
MCFairSpec == MCSpec /\ Fairness

\* A write with a completion block is answered unless the process is killed
\* first, through refusals and reconnections.
Answered ==
    \A n \in 1..MaxInputs :
        (\E k \in DOMAIN pending : pending[k].id = n /\ pending[k].tag # NoTag)
            ~> \/ main # <<>> /\ Head(main).op = "done" /\ Head(main).id = n
               \/ writeId < n
=============================================================================
