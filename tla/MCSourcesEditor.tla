---------------------------- MODULE MCSourcesEditor ----------------------------
(**************************************************************************)
(* SourcesEditor with at most MaxInputs taps, saves, openings and changes *)
(* by other clients, and at most MaxFaults reconnections and restarts.    *)
(**************************************************************************)
EXTENDS SourcesEditor

CONSTANTS MaxInputs, MaxFaults, OtherField

VARIABLES inputs, faults

mceditorvars == <<editorVars, inputs, faults>>

\* What other devices may leave in the record: the strings their own screens
\* write, no record, or another name.
MCId == {<<"a">>, <<"z", "a">>}
MCCatalogue == {<<"a">>, <<>>}
MCLists == {l \in BoundedSeq(Id, 2) : IsInjective(l)}
MCValue == {Join(l) : l \in List}
MCChanges ==
    {[server EXCEPT ![SourcesField] = Join(l)] : l \in MCLists}
    \cup {[server EXCEPT ![OtherField] = id] : id \in Id}
    \cup {[f \in Field |-> Absent]}

Free == UNCHANGED <<inputs, faults>>
Input ==
    /\ inputs < MaxInputs /\ inputs' = inputs + 1
    /\ UNCHANGED faults

MCInit ==
    /\ EditorInit
    /\ server \in {[f \in Field |-> Absent]}
                  \cup {[f \in Field |-> IF f = SourcesField THEN Join(l) ELSE <<>>] : l \in MCLists}
    /\ inputs = 0 /\ faults = 0

MCNext ==
    \/ User /\ Input
    \/ AlertOk /\ Free
    \/ Blocks /\ Free
    \/ Free /\ \E s \in Screen : CatalogueArrives(s) \/ CatalogueFails(s)
    \/ Backend /\ UNCHANGED screenVars /\ Free
    \/ \E rec \in MCChanges : RemoteChange(rec) /\ UNCHANGED screenVars /\ Input
    \/ /\ \/ Reconnect /\ UNCHANGED screenVars
          \/ Restart /\ ScreensGone
       /\ faults < MaxFaults /\ faults' = faults + 1
       /\ UNCHANGED inputs

MCSpec == MCInit /\ [][MCNext]_mceditorvars
MCFairSpec == MCSpec /\ EditorFairness
=============================================================================
