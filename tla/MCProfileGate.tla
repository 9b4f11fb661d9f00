----------------------------- MODULE MCProfileGate -----------------------------
(***************************************************************************)
(* ProfileGate with at most MaxInputs actions of the user and of other     *)
(* devices.  hadRecord: the account's record was written when it was made. *)
(***************************************************************************)
EXTENDS ProfileGate

CONSTANTS MaxInputs, MaxRestarts, MaxReconnects

ASSUME MCAssumption == "x" \in Value

VARIABLES inputs, restarts, reconnects, hadRecord

mcgatevars == <<gateVars, inputs, restarts, reconnects, hadRecord>>

MCFields == RecordFields
MCKinds == {GateKind} \cup {ProfileKind(n) : n \in 1..MaxInputs + 2}
MCHops == [op : {"hop"}, snap : Record]

\* The blank record, and one in which only city and country are empty.
MCRecords ==
    {[f \in Field |-> ""],
     [f \in Field |-> IF f \in {"userCountry", "userCity"} THEN "" ELSE "x"]}

MCChanges ==
    {[server EXCEPT ![f] = "x"] : f \in {"userName", "userSources"}}

Free == UNCHANGED <<inputs, restarts, reconnects, hadRecord>>
Input ==
    /\ inputs < MaxInputs /\ inputs' = inputs + 1
    /\ UNCHANGED <<restarts, reconnects, hadRecord>>

MCInit ==
    /\ hadRecord \in BOOLEAN
    /\ server \in IF hadRecord THEN MCRecords ELSE {[f \in Field |-> Absent]}
    /\ GateInit
    /\ inputs = 0 /\ restarts = 0 /\ reconnects = 0

MCNext ==
    \/ ~crashed /\ User /\ Input
    \/ ~crashed /\ Blocks /\ Free
    \/ ~crashed /\ (CloseOther \/ Dismissed) /\ Free
    \/ ~crashed /\ Backend /\ UNCHANGED appVars /\ Free
    \/ ~crashed /\ \E rec \in MCChanges : RemoteChange(rec) /\ UNCHANGED appVars /\ Input
    \/ /\ ~crashed /\ Reconnect /\ UNCHANGED appVars
       /\ reconnects < MaxReconnects /\ reconnects' = reconnects + 1
       /\ UNCHANGED <<inputs, restarts, hadRecord>>
    \/ /\ Restart /\ AppGone
       /\ restarts < MaxRestarts /\ restarts' = restarts + 1
       /\ UNCHANGED <<inputs, reconnects, hadRecord>>

MCSpec == MCInit /\ [][MCNext]_mcgatevars
MCFairSpec == MCSpec /\ GateFairness

\* The forced casts of isUserProfileEmpty succeed on every snapshot the gate is
\* given of an account that had a record, partial and refused saves included.
NeverCrashesWithRecord == hadRecord => NeverCrashes
=============================================================================
