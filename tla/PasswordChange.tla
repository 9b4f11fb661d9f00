---------------------------- MODULE PasswordChange -----------------------------
(****************************************************************************)
(* The two password fields of the Profile screen against the answers of     *)
(* updatePassword.  FIRUser serves its requests one at a time from a serial *)
(* queue that is suspended while one is served; answers come back on the    *)
(* main queue.  A password is known by the number of the tap that asked for *)
(* it.                                                                      *)
(****************************************************************************)
EXTENDS Naturals, Sequences

CONSTANT Text

ASSUME TextAssumption == "" \in Text

VARIABLES
    typed,    \* newPassword and confirmPassword
    red,      \* their borders are red
    screen,   \* Profile screens made so far; the callbacks of a tap know theirs
    signedIn, \* currentUser is not nil
    taps,     \* requests made so far
    queue,    \* requests not finished, oldest first
    phase,    \* of the oldest: "waiting", "sent" or "set", the server having done it
    replies,  \* answers queued on the main queue
    held      \* the tap the account's password comes from, 0 if none

passwordVars == <<typed, red, screen, signedIn, taps, queue, phase, replies, held>>
screenVars == <<typed, red, screen>>

Empty == [new |-> "", confirm |-> ""]

Type(new, confirm) ==
    /\ typed' = [new |-> new, confirm |-> confirm]
    /\ UNCHANGED <<red, screen, signedIn, taps, queue, phase, replies, held>>

\* configureErrorPasswordTextFields.
MarkRed == typed' = Empty /\ red' = TRUE

\* changePasswordButton: without a user nothing happens.
ChangePassword ==
    /\ typed.new # ""
    /\ IF typed.new # typed.confirm
       THEN MarkRed /\ UNCHANGED <<taps, queue>>
       ELSE /\ IF signedIn
               THEN /\ taps' = taps + 1
                    /\ queue' = Append(queue, [tap |-> taps + 1, screen |-> screen])
               ELSE UNCHANGED <<taps, queue>>
            /\ UNCHANGED <<typed, red>>
    /\ UNCHANGED <<screen, signedIn, phase, replies, held>>

\* The screen is left and another one opened.
Reopen ==
    /\ screen' = screen + 1 /\ typed' = Empty /\ red' = FALSE
    /\ UNCHANGED <<signedIn, taps, queue, phase, replies, held>>

Send ==
    /\ queue # <<>> /\ phase = "waiting"
    /\ phase' = "sent"
    /\ UNCHANGED <<screenVars, signedIn, taps, queue, replies, held>>

\* Mutant: the queue is not suspended, the requests race.
ServerSetsAny ==
    /\ phase = "sent"
    /\ phase' = "set"
    /\ \E k \in DOMAIN queue : held' = queue[k].tap
    /\ UNCHANGED <<screenVars, signedIn, taps, queue, replies>>

ServerSets ==
    /\ phase = "sent"
    /\ phase' = "set"
    /\ held' = Head(queue).tap
    /\ UNCHANGED <<screenVars, signedIn, taps, queue, replies>>

\* The request is over: the queue is resumed and the caller called back.
Complete(ok) ==
    /\ queue' = Tail(queue) /\ phase' = "waiting"
    /\ replies' = Append(replies, [tap |-> Head(queue).tap, screen |-> Head(queue).screen, ok |-> ok])
    /\ UNCHANGED <<screenVars, taps, held>>

\* Mutant: success is reported once the request is sent.
ChangeSucceedsEarly ==
    /\ phase = "sent"
    /\ Complete(TRUE) /\ UNCHANGED signedIn

ChangeSucceeds ==
    /\ phase = "set"
    /\ Complete(TRUE) /\ UNCHANGED signedIn

\* Mutant: a failure is dropped, and the queue not resumed, once signed out.
ChangeFailsIfSignedIn ==
    /\ phase \in {"sent", "set"} /\ signedIn
    /\ Complete(FALSE)
    /\ signedIn' \in {signedIn, FALSE}

\* Mutant: a failed request is told of and tried again.
ChangeFailsRetries ==
    /\ phase \in {"sent", "set"}
    /\ phase' = "waiting" /\ queue' = Append(Tail(queue), Head(queue))
    /\ replies' = Append(replies, [tap |-> Head(queue).tap, screen |-> Head(queue).screen, ok |-> FALSE])
    /\ UNCHANGED <<screenVars, taps, held, signedIn>>

\* Refused, or the answer is lost; an invalid token signs the user out.
ChangeFails ==
    /\ phase \in {"sent", "set"}
    /\ Complete(FALSE)
    /\ signedIn' \in {signedIn, FALSE}

\* succesChangePassword, failedChangePassword: both empty the fields, whatever
\* has been typed since.  The answer to a screen that was left changes that one.
Answered ==
    /\ replies # <<>> /\ replies' = Tail(replies)
    /\ IF Head(replies).screen = screen
       THEN typed' = Empty /\ red' = ~Head(replies).ok
       ELSE UNCHANGED <<typed, red>>
    /\ UNCHANGED <<screen, signedIn, taps, queue, phase, held>>

Lost == queue' = <<>> /\ replies' = <<>> /\ typed' = Empty /\ red' = FALSE

\* The process is killed, and the user signs in again; a request on its way may
\* still be served.
ProcessEnds ==
    /\ Lost
    /\ held' \in IF phase = "sent" THEN {held, Head(queue).tap} ELSE {held}
    /\ phase' = "waiting"
    /\ signedIn' = TRUE /\ screen' = screen + 1
    /\ UNCHANGED taps

PasswordInit ==
    /\ typed = Empty /\ red = FALSE /\ screen = 1 /\ signedIn = TRUE
    /\ taps = 0 /\ queue = <<>> /\ phase = "waiting" /\ replies = <<>> /\ held = 0

ProfileUser == ChangePassword \/ Reopen \/ \E new, confirm \in Text : Type(new, confirm)

Service == Send \/ ServerSets \/ ChangeSucceeds \/ ChangeFails

PasswordNext == ProfileUser \/ Service \/ Answered \/ ProcessEnds

PasswordSpec == PasswordInit /\ [][PasswordNext]_passwordVars

\* A request is served or times out, and the main queue is served.
PasswordFairness ==
    WF_passwordVars(Send) /\ WF_passwordVars(ChangeSucceeds \/ ChangeFails) /\ WF_passwordVars(Answered)

-----------------------------------------------------------------------------
(* Properties *)

Tap == [tap : 1 .. taps, screen : 1 .. screen]

PasswordTypeOK ==
    /\ typed \in [new : Text, confirm : Text] /\ red \in BOOLEAN
    /\ screen \in Nat \ {0} /\ signedIn \in BOOLEAN /\ taps \in Nat
    /\ queue \in Seq(Tap) /\ phase \in {"waiting", "sent", "set"}
    /\ phase # "waiting" => queue # <<>>
    /\ replies \in Seq([tap : 1 .. taps, screen : 1 .. screen, ok : BOOLEAN])
    /\ held \in 0 .. taps

\* The account never goes back to the password of an earlier tap, also when the
\* answer of the later one is lost or the process is killed in between.
NeverOlder == [][held' >= held]_passwordVars

\* Success is told only of a password the account has, or had until a later tap;
\* and answers come in the order of the taps, before those of the taps in line.
ToldTruth ==
    /\ \A k \in DOMAIN replies : replies[k].ok => held >= replies[k].tap
    /\ LET line == [k \in DOMAIN replies |-> replies[k].tap] \o [k \in DOMAIN queue |-> queue[k].tap]
       IN  \A i, j \in DOMAIN line : i < j => line[i] < line[j]

\* No error leaves the queue suspended: whatever is asked for is answered.
QueueMoves == queue # <<>> ~> queue = <<>> /\ replies = <<>>
=============================================================================
