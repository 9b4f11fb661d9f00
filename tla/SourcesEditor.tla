----------------------------- MODULE SourcesEditor -----------------------------
(***************************************************************************)
(* The Sources screen (SourcesViewController, SourcesViewModel) over the   *)
(* user's record: the catalogue is requested from newsapi.org, then the    *)
(* record is observed for ever; each snapshot replaces the list being      *)
(* edited; Done writes the list back and the answer dismisses the screen.  *)
(*                                                                         *)
(* Strings are sequences of characters; a stored list is the string of its *)
(* ids separated by commas.  Each opening makes a new view controller; a   *)
(* dismissed one keeps its observer and its completion blocks.             *)
(***************************************************************************)
EXTENDS UserRecord, SequencesExt, FiniteSets

CONSTANTS
    Id,         \* ids of news sources: strings, none empty or with a comma
    Catalogue,  \* the ids newsapi offers; "" stands for a source without id
    Screen,     \* the successive openings of the screen
    NoScreen,
    SourcesField    \* "userSources"

ASSUME IdAssumption ==
    /\ IsFiniteSet(Id)
    /\ \A id \in Id : id \in Seq(STRING) /\ id # <<>> /\ "," \notin ToSet(id)
ASSUME CatalogueAssumption == Catalogue \subseteq Id \cup {<<>>}
ASSUME ScreenAssumption ==
    /\ NoScreen \notin Screen
    /\ Screen \subseteq Kind \cap Tag /\ SourcesField \in Field

VARIABLES
    top,            \* the Sources screen being shown, or NoScreen
    alert,          \* the "save failed" alert is over it
    request,        \* per screen: the catalogue request
    shown,          \* per screen: its rows have been drawn
    userSources,    \* per screen: the list being edited
    ticked          \* per screen: the selected rows of the table

screenVars == <<top, alert, request, shown, userSources, ticked>>
editorVars == <<vars, screenVars>>

-----------------------------------------------------------------------------
(* The stored string. *)

\* The loop of didDeselectRowAt: the list without one of its items.
AllBut(list, item) ==
    LET left[n \in 0..Len(list)] ==
            IF n = 0 THEN <<>>
            ELSE IF list[n] = item THEN left[n - 1]
            ELSE Append(left[n - 1], list[n])
    IN  left[Len(list)]

\* Mutant: the separator is forgotten.
JoinUnseparated(list) == FoldLeft(LAMBDA str, id : str \o id, <<>>, list)

\* parseNewUserSources: no comma before the first id that is not empty.
Join(list) ==
    LET sources[n \in 0..Len(list)] ==
            IF n = 0 THEN <<>>
            ELSE IF sources[n - 1] = <<>> THEN list[n]
            ELSE sources[n - 1] \o <<",">> \o list[n]
    IN  sources[Len(list)]

Pieces(str) ==
    LET cut[n \in 0..Len(str)] ==
            IF n = 0 THEN << <<>> >>
            ELSE IF str[n] = "," THEN Append(cut[n - 1], <<>>)
            ELSE [cut[n - 1] EXCEPT ![Len(cut[n - 1])] = Append(@, str[n])]
    IN  cut[Len(str)]

\* parseUserSources: split(separator:) omits empty pieces.
Split(str) == AllBut(Pieces(str), <<>>)

\* The lists a screen can come to hold; the strings in the record are those
\* that screens have saved, here and on other devices.
List == {l \in BoundedSeq(Id \cup {<<>>}, Cardinality(Id) + 1) : IsInjective(l)}

ASSUME WrittenAssumption == Value = {Join(list) : list \in List}

Stored(rec) == IF rec[SourcesField] = Absent THEN <<>> ELSE Split(rec[SourcesField])

-----------------------------------------------------------------------------

\* The menu presents a new Sources screen: viewDidLoad asks for the catalogue.
Open(s) ==
    /\ top = NoScreen /\ request[s] = "none"
    /\ top' = s /\ request' = [request EXCEPT ![s] = "sent"]
    /\ UNCHANGED <<vars, alert, shown, userSources, ticked>>

\* allSourcesDone: the record is observed from now on.
CatalogueArrives(s) ==
    /\ request[s] = "sent"
    /\ request' = [request EXCEPT ![s] = "answered"]
    /\ MainTurn(<<ObserveCall(s)>>, <<>>)
    /\ UNCHANGED <<top, alert, shown, userSources, ticked>>

\* The request fails or its answer does not parse: nothing happens.
CatalogueFails(s) ==
    /\ request[s] = "sent"
    /\ request' = [request EXCEPT ![s] = "failed"]
    /\ UNCHANGED <<vars, top, alert, shown, userSources, ticked>>

\* Mutants of SnapshotArrives: the table is not reloaded; the stored list is
\* added to the one being edited.
SnapshotKeepsTicks(s) ==
    /\ RunBlock(<<>>, <<>>)
    /\ Head(main).op = "value" /\ regs[Head(main).to] = s
    /\ userSources' = [userSources EXCEPT ![s] = Stored(Head(main).snap)]
    /\ ticked' = [ticked EXCEPT ![s] = IF shown[s] THEN @
                                      ELSE Catalogue \cap ToSet(userSources'[s])]
    /\ shown' = [shown EXCEPT ![s] = TRUE]
    /\ UNCHANGED <<top, alert, request>>

SnapshotAppends(s) ==
    /\ RunBlock(<<>>, <<>>)
    /\ Head(main).op = "value" /\ regs[Head(main).to] = s
    /\ userSources' = [userSources EXCEPT ![s] = @ \o Stored(Head(main).snap)]
    /\ ticked' = [ticked EXCEPT ![s] = Catalogue \cap ToSet(userSources'[s])]
    /\ shown' = [shown EXCEPT ![s] = TRUE]
    /\ UNCHANGED <<top, alert, request>>

\* userSourcesDone: a snapshot replaces the list and reloads the table, whose
\* cells select themselves when the list has their id.
SnapshotArrives(s) ==
    /\ RunBlock(<<>>, <<>>)
    /\ Head(main).op = "value" /\ regs[Head(main).to] = s
    /\ userSources' = [userSources EXCEPT ![s] = Stored(Head(main).snap)]
    /\ ticked' = [ticked EXCEPT ![s] = Catalogue \cap ToSet(userSources'[s])]
    /\ shown' = [shown EXCEPT ![s] = TRUE]
    /\ UNCHANGED <<top, alert, request>>

CanTouch(s) == top = s /\ ~alert

Select(s, id) ==
    /\ CanTouch(s) /\ shown[s] /\ id \notin ticked[s]
    /\ userSources' = [userSources EXCEPT ![s] = Append(@, id)]
    /\ ticked' = [ticked EXCEPT ![s] = @ \cup {id}]
    /\ UNCHANGED <<vars, top, alert, request, shown>>

\* Mutant: the list is rebuilt from the rows that stay selected.
DeselectRebuilds(s, id) ==
    /\ CanTouch(s) /\ shown[s] /\ id \in ticked[s]
    /\ userSources' = [userSources EXCEPT ![s] =
                         SelectSeq(@, LAMBDA i : i \in ticked[s] \ {id})]
    /\ ticked' = [ticked EXCEPT ![s] = @ \ {id}]
    /\ UNCHANGED <<vars, top, alert, request, shown>>

Deselect(s, id) ==
    /\ CanTouch(s) /\ shown[s] /\ id \in ticked[s]
    /\ userSources' = [userSources EXCEPT ![s] = AllBut(@, id)]
    /\ ticked' = [ticked EXCEPT ![s] = @ \ {id}]
    /\ UNCHANGED <<vars, top, alert, request, shown>>

\* The Done button, whatever has been loaded so far.
Done(s) ==
    /\ CanTouch(s)
    /\ MainTurn(<<SetCall([f \in {SourcesField} |-> Join(userSources[s])], s)>>, <<>>)
    /\ UNCHANGED screenVars

\* Mutants: the alert is shown over whatever is up; a failure is ignored.
SaveAnsweredAnywhere(s) ==
    /\ RunBlock(<<>>, <<>>)
    /\ Head(main).op = "done" /\ Head(main).tag = s
    /\ IF Head(main).ok THEN top' = NoScreen /\ alert' = FALSE
       ELSE alert' = TRUE /\ UNCHANGED top
    /\ UNCHANGED <<request, shown, userSources, ticked>>

SaveAnsweredIfOk(s) ==
    /\ RunBlock(<<>>, <<>>)
    /\ Head(main).op = "done" /\ Head(main).tag = s
    /\ IF top = s /\ Head(main).ok THEN top' = NoScreen /\ alert' = FALSE
       ELSE UNCHANGED <<top, alert>>
    /\ UNCHANGED <<request, shown, userSources, ticked>>

\* The answer to a save of screen s, which may be closed by then: its segue
\* then finds no presenter and its alert no window.
SaveAnswered(s) ==
    /\ RunBlock(<<>>, <<>>)
    /\ Head(main).op = "done" /\ Head(main).tag = s
    /\ IF top # s THEN UNCHANGED <<top, alert>>
       ELSE IF Head(main).ok THEN top' = NoScreen /\ alert' = FALSE
       ELSE alert' = TRUE /\ UNCHANGED top
    /\ UNCHANGED <<request, shown, userSources, ticked>>

AlertOk ==
    /\ alert
    /\ alert' = FALSE /\ top' = NoScreen
    /\ UNCHANGED <<vars, request, shown, userSources, ticked>>

ScreensGone ==
    /\ top' = NoScreen /\ alert' = FALSE
    /\ request' = [s \in Screen |-> "none"] /\ shown' = [s \in Screen |-> FALSE]
    /\ userSources' = [s \in Screen |-> <<>>] /\ ticked' = [s \in Screen |-> {}]

EditorInit ==
    /\ Init
    /\ top = NoScreen /\ alert = FALSE
    /\ request = [s \in Screen |-> "none"] /\ shown = [s \in Screen |-> FALSE]
    /\ userSources = [s \in Screen |-> <<>>] /\ ticked = [s \in Screen |-> {}]

User ==
    \E s \in Screen :
        \/ Open(s)
        \/ \E id \in Catalogue : Select(s, id) \/ Deselect(s, id)
        \/ Done(s)

Blocks == \E s \in Screen : SnapshotArrives(s) \/ SaveAnswered(s)

EditorNext ==
    \/ User
    \/ AlertOk
    \/ Blocks
    \/ \E s \in Screen : CatalogueArrives(s) \/ CatalogueFails(s)
    \/ Backend /\ UNCHANGED screenVars
    \/ \E rec \in Record : RemoteChange(rec) /\ UNCHANGED screenVars
    \/ Reconnect /\ UNCHANGED screenVars
    \/ Restart /\ ScreensGone

EditorSpec == EditorInit /\ [][EditorNext]_editorVars

\* As Fairness of UserRecord: queues are served and the network recovers.
EditorFairness ==
    /\ WF_editorVars(Blocks)
    /\ WF_editorVars((WorkerSet \/ WorkerObserve) /\ UNCHANGED screenVars)
    /\ WF_editorVars(Load /\ UNCHANGED screenVars)
    /\ WF_editorVars((ServerApply \/ Reject) /\ UNCHANGED screenVars)
    /\ WF_editorVars(Ack /\ UNCHANGED screenVars)

-----------------------------------------------------------------------------
(* Properties *)

\* The types.  Two conjuncts say more: no sequence of snapshots, taps and saves
\* puts a source twice in a list, and the alert belongs to the screen that is up,
\* so that a failed save of a screen dismissed meanwhile disturbs no other.
EditorTypeOK ==
    /\ top \in Screen \cup {NoScreen} /\ alert \in BOOLEAN
    /\ request \in [Screen -> {"none", "sent", "answered", "failed"}]
    /\ shown \in [Screen -> BOOLEAN]
    /\ userSources \in [Screen -> Seq(Id \cup {<<>>})]
    /\ ticked \in [Screen -> SUBSET Catalogue]
    /\ \A s \in Screen : IsInjective(userSources[s])
    /\ alert => top # NoScreen

\* The ticks of the table and the list that Done saves agree, through taps and
\* the snapshots that replace the list under the user's fingers.
TicksMatchList ==
    \A s \in Screen :
        shown[s] => ticked[s] = Catalogue \cap ToSet(userSources[s])

\* The sources the user follows that the catalogue no longer offers have no
\* row; editing the others and saving does not drop them.
HiddenKept ==
    \A s \in Screen, i \in DOMAIN regs :
        regs[i] = s /\ seen[i] # NoSnap =>
            ToSet(Stored(seen[i])) \ Catalogue \subseteq ToSet(userSources[s])

\* What a screen writes is read back as the list it shows, up to sources
\* without id: the string survives the round trip in every list that can arise.
SaveRoundTrips ==
    \A s \in Screen :
        Split(Join(userSources[s])) = AllBut(userSources[s], <<>>)

\* Done is answered: the screen goes away or reports the failure, unless the
\* process is killed.
DoneAnswered ==
    \A s \in Screen :
        (\E k \in DOMAIN work : work[k].op = "set" /\ work[k].tag = s)
            ~> (top # s \/ alert)
=============================================================================
