------------------------------ MODULE ProfileGate ------------------------------
(****************************************************************************)
(* The gate that sends the user to the Profile screen while the profile has *)
(* empty fields (ContainerViewController, OnlineRepository                  *)
(* .isUserProfileEmpty) and the Profile screen itself, over the record of   *)
(* the account signed in.  The gate looks at a snapshot one turn of the     *)
(* main queue after it arrives.                                             *)
(****************************************************************************)
EXTENDS UserRecord

RecordFields == {"userName", "userSername", "userMobile", "userBirthDate",
                 "userCountry", "userCity", "userSources"}
GateFields == RecordFields \ {"userSources"}
TextFields == {"userName", "userSername", "userMobile"}

GateKind       == <<"gate", 0>>
ProfileKind(n) == <<"profile", n>>

ASSUME RecordAssumption ==
    /\ Field = RecordFields /\ "" \in Value /\ Absent \notin Value
    /\ GateKind \in Kind /\ "signUp" \in Tag
    /\ AppBlock = [op : {"hop"}, snap : Record]

VARIABLES
    container,  \* "noAccount", "signingUp", "none" (login screen) or "open"
    presented,  \* over the container: "none", "profile", "other", "dismissing"
    opened,     \* Profile screens made so far, each with its own observer
    text,       \* the text fields of the latest one
    judged,     \* the last snapshot the gate looked at
    crashed     \* a forced cast failed

appVars == <<container, presented, opened, text, judged, crashed>>
gateVars == <<vars, appVars>>

HopBlock(snap) == [op |-> "hop", snap |-> snap]

NoText == [f \in TextFields |-> ""]

-----------------------------------------------------------------------------
(* Signing up and in. *)

\* createUser succeeded, which it does once: addUserItems writes the blank
\* record of the new account.
SignUp ==
    /\ container = "noAccount"
    /\ container' = "signingUp"
    /\ MainTurn(<<SetCall([f \in RecordFields |-> ""], "signUp")>>, <<>>)
    /\ UNCHANGED <<presented, opened, text, judged, crashed>>

\* The blank record is answered: on to the container, or stay with an error.
SignUpAnswered ==
    /\ container = "signingUp"
    /\ main # <<>> /\ Head(main).op = "done" /\ Head(main).tag = "signUp"
    /\ IF Head(main).ok
       THEN container' = "open" /\ RunBlock(<<ObserveCall(GateKind)>>, <<>>)
       ELSE container' = "none" /\ RunBlock(<<>>, <<>>)
    /\ UNCHANGED <<presented, opened, text, judged, crashed>>

SignIn ==
    /\ container = "none"
    /\ container' = "open"
    /\ MainTurn(<<ObserveCall(GateKind)>>, <<>>)
    /\ UNCHANGED <<presented, opened, text, judged, crashed>>

-----------------------------------------------------------------------------
(* The gate. *)

\* Mutant: a snapshot is dropped while another waits to be looked at.
GateEventOnce ==
    /\ main # <<>> /\ Head(main).op = "value" /\ regs[Head(main).to] = GateKind
    /\ RunBlock(<<>>, IF \E k \in DOMAIN main : main[k].op = "hop" THEN <<>>
                      ELSE <<HopBlock(Head(main).snap)>>)
    /\ UNCHANGED appVars

GateEvent ==
    /\ main # <<>> /\ Head(main).op = "value" /\ regs[Head(main).to] = GateKind
    /\ RunBlock(<<>>, <<HopBlock(Head(main).snap)>>)
    /\ UNCHANGED appVars

\* performSegue(profileSegue): UIKit ignores it while anything is presented.
\* The new screen observes the record from viewDidLoad.
Present ==
    /\ presented' = "profile"
    /\ opened' = opened + 1
    /\ text' = NoText

\* Mutant: a snapshot waits until no screen is presented.
GateHopWhenFree ==
    /\ main # <<>> /\ Head(main).op = "hop" /\ presented = "none"
    /\ judged' = Head(main).snap
    /\ IF \E f \in GateFields : Head(main).snap[f] = ""
       THEN RunBlock(<<ObserveCall(ProfileKind(opened + 1))>>, <<>>) /\ Present
       ELSE RunBlock(<<>>, <<>>) /\ UNCHANGED <<presented, opened, text>>
    /\ UNCHANGED <<container, crashed>>

\* The casts to String of the six fields, then the test for empty ones.
GateHop ==
    /\ main # <<>> /\ Head(main).op = "hop"
    /\ judged' = Head(main).snap
    /\ LET rec == Head(main).snap
           missing == {f \in GateFields : rec[f] = Absent}
           empty   == {f \in GateFields : rec[f] = ""}
           exists  == \E f \in Field : rec[f] # Absent
       IN IF exists /\ missing = {} /\ empty # {} /\ presented = "none"
          THEN /\ RunBlock(<<ObserveCall(ProfileKind(opened + 1))>>, <<>>)
               /\ Present
               /\ UNCHANGED <<container, crashed>>
          ELSE /\ RunBlock(<<>>, <<>>)
               /\ crashed' = (exists /\ missing # {})
               /\ UNCHANGED <<container, presented, opened, text>>

-----------------------------------------------------------------------------
(* The Profile screen. *)

\* Profile is chosen in the menu.
OpenProfile ==
    /\ container = "open" /\ presented = "none"
    /\ Present
    /\ MainTurn(<<ObserveCall(ProfileKind(opened + 1))>>, <<>>)
    /\ UNCHANGED <<container, judged, crashed>>

\* configureUserInfo: a snapshot replaces what is in the text fields; the
\* observers of earlier screens only touch those screens.
ProfileEvent ==
    /\ main # <<>> /\ Head(main).op = "value" /\ regs[Head(main).to] # GateKind
    /\ RunBlock(<<>>, <<>>)
    /\ LET rec == Head(main).snap
       IN IF /\ regs[Head(main).to] = ProfileKind(opened)
             /\ \E f \in Field : rec[f] # Absent
          THEN text' = [f \in TextFields |-> IF rec[f] = Absent THEN "" ELSE rec[f]]
          ELSE UNCHANGED text
    /\ UNCHANGED <<container, presented, opened, judged, crashed>>

Edit(f, v) ==
    /\ presented = "profile"
    /\ text' = [text EXCEPT ![f] = v]
    /\ UNCHANGED <<vars, container, presented, opened, judged, crashed>>

\* Mutant: the record is set instead of its child, which removes the others.
SetRecord(f, v) ==
    SetCall([g \in RecordFields |-> IF g = f THEN v ELSE Absent], NoTag)

SetField(f, v) == SetCall([g \in {f} |-> v], NoTag)

\* handleDismis: nothing while a text is empty; otherwise five writes whose
\* answers nobody awaits, and the screen goes away.
Save(date) ==
    /\ presented = "profile" /\ \A f \in TextFields : text[f] # ""
    /\ presented' = "dismissing"
    /\ MainTurn(<<SetField("userName", text["userName"]),
                  SetField("userSername", text["userSername"]),
                  SetField("userSername", text["userSername"]),
                  SetField("userMobile", text["userMobile"]),
                  SetField("userBirthDate", date)>>, <<>>)
    /\ UNCHANGED <<container, opened, text, judged, crashed>>

\* Another screen over the container.  The Sources screen saves a list there
\* and closes when the save is answered, the news reader when the user says so:
\* at any time, for the gate.
OpenOther ==
    /\ container = "open" /\ presented = "none"
    /\ presented' = "other"
    /\ UNCHANGED <<vars, container, opened, text, judged, crashed>>

SaveSources(list) ==
    /\ presented = "other"
    /\ MainTurn(<<SetField("userSources", list)>>, <<>>)
    /\ UNCHANGED appVars

CloseOther ==
    /\ presented = "other"
    /\ presented' = "dismissing"
    /\ UNCHANGED <<vars, container, opened, text, judged, crashed>>

Dismissed ==
    /\ presented = "dismissing"
    /\ presented' = "none"
    /\ UNCHANGED <<vars, container, opened, text, judged, crashed>>

AppGone ==
    /\ container' = IF container = "noAccount" THEN container ELSE "none"
    /\ presented' = "none" /\ opened' = 0
    /\ text' = NoText /\ judged' = NoSnap /\ crashed' = FALSE

-----------------------------------------------------------------------------

GateInit ==
    /\ Init
    /\ container \in {"noAccount", "none"}
    /\ container = "noAccount" => server = [f \in Field |-> Absent]
    /\ presented = "none" /\ opened = 0
    /\ text = NoText /\ judged = NoSnap /\ crashed = FALSE

User ==
    \/ SignUp \/ SignIn
    \/ OpenProfile \/ OpenOther
    \/ \E f \in TextFields, v \in Value : Edit(f, v)
    \/ \E date \in Value \ {""} : Save(date)
    \/ \E list \in Value : SaveSources(list)

Blocks == SignUpAnswered \/ GateEvent \/ GateHop \/ ProfileEvent

GateNext ==
    \/ ~crashed /\ User
    \/ ~crashed /\ Blocks
    \/ ~crashed /\ (CloseOther \/ Dismissed)
    \/ ~crashed /\ Backend /\ UNCHANGED appVars
    \/ ~crashed /\ \E rec \in Record : RemoteChange(rec) /\ UNCHANGED appVars
    \/ ~crashed /\ Reconnect /\ UNCHANGED appVars
    \/ Restart /\ AppGone

GateSpec == GateInit /\ [][GateNext]_gateVars

\* As Fairness of UserRecord, for a process that has not crashed.
GateFairness ==
    /\ WF_gateVars(~crashed /\ Blocks)
    /\ WF_gateVars(~crashed /\ (WorkerSet \/ WorkerObserve) /\ UNCHANGED appVars)
    /\ WF_gateVars(~crashed /\ Load /\ UNCHANGED appVars)
    /\ WF_gateVars(~crashed /\ (ServerApply \/ Reject) /\ UNCHANGED appVars)
    /\ WF_gateVars(~crashed /\ Ack /\ UNCHANGED appVars)

-----------------------------------------------------------------------------
(* Properties *)

\* The forced casts of isUserProfileEmpty succeed on every snapshot the gate
\* can be given.  Not so for an account whose blank record was never written.
NeverCrashes == ~crashed

\* The extra turn of the main queue loses and reorders nothing: with nothing on
\* its way to the gate, it has judged the client's view and no older record.
GateCurrent ==
    \A i \in DOMAIN regs :
        /\ regs[i] = GateKind /\ Ready /\ ~crashed
        /\ \A j \in DOMAIN main : ~IsValueTo(j, i) /\ main[j].op # "hop"
        => judged = View

\* When everyone stops, the gate's last judgement is about the server's record.
GateSettles ==
    <>[](crashed \/ \A i \in DOMAIN regs : regs[i] = GateKind => judged = server)
=============================================================================
