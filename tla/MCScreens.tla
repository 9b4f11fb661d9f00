------------------------------- MODULE MCScreens -------------------------------
(****************************************************************************)
(* The screens that share no state with each other, each on its own: who is *)
(* signed in (Session), the password fields (PasswordChange) and the news   *)
(* reader (NewsReader).  A behaviour is one of the part it starts with; the *)
(* other parts stay in their initial states.                                *)
(*                                                                          *)
(* At most MaxInputs taps of the user and MaxRestarts ends of the process;  *)
(* the lists of news have at most MaxList articles, with the pictures in    *)
(* Pictures, and Next is tapped at most MaxPast times past the end.         *)
(****************************************************************************)
EXTENDS Session, PasswordChange, NewsReader

CONSTANTS Parts, MaxInputs, MaxRestarts, Pictures, MaxList, MaxPast

VARIABLES part, inputs, restarts

screensvars == <<sessionVars, passwordVars, readerVars, part, inputs, restarts>>

MCLists == UNION {[1 .. n -> Pictures] : n \in 1 .. MaxList}

MCInit ==
    /\ part \in Parts /\ inputs = 0 /\ restarts = 0
    /\ SessionInit /\ PasswordInit /\ ReaderInit
    /\ part # "session" => exists = {}

Free == UNCHANGED <<inputs, restarts>>
Input == inputs < MaxInputs /\ inputs' = inputs + 1 /\ UNCHANGED restarts
End == restarts < MaxRestarts /\ restarts' = restarts + 1 /\ UNCHANGED inputs

SessionSteps ==
    /\ part = "session"
    /\ \/ User /\ Tapped /\ Input
       \/ Process /\ UNCHANGED hasty /\ Free
       \/ Restart /\ End
    /\ Crosses
    /\ UNCHANGED <<passwordVars, readerVars>>

PasswordSteps ==
    /\ part = "password"
    /\ \/ ProfileUser /\ Input
       \/ (Service \/ Answered) /\ Free
       \/ ProcessEnds /\ End
    /\ UNCHANGED <<sessionVars, readerVars>>

ReaderSteps ==
    /\ part = "reader"
    /\ \/ \E list \in Lists : \E i \in DOMAIN list : Open(list, i)
       \/ NextNews /\ index < Len(data) + MaxPast
       \/ ShowPicture \/ Dismiss \/ Relaunch
    /\ UNCHANGED <<sessionVars, passwordVars>> /\ Free

MCNext == (SessionSteps \/ PasswordSteps \/ ReaderSteps) /\ UNCHANGED part

MCSpec == MCInit /\ [][MCNext]_screensvars
MCFairSpec == MCSpec /\ PasswordFairness

\* The variables of the three parts have their types.
ScreensTypeOK == SessionTypeOK /\ PasswordTypeOK /\ InList
=============================================================================
