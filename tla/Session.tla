-------------------------------- MODULE Session --------------------------------
(****************************************************************************)
(* Who is signed in, and on whose record the screens work: the login and    *)
(* sign-up screens, the containers they push, the menu with its Exit, and   *)
(* the global `user' of OnlineRepository.swift, which is computed at its    *)
(* first use and never again.  Firebase Auth sets currentUser on a queue of *)
(* its own and only then calls back on the main queue.                      *)
(****************************************************************************)
EXTENDS Naturals, SequencesExt

CONSTANTS
    Account,  \* accounts, by e-mail address
    Nobody,   \* nil
    Unbound   \* the global `user' has not been used yet

ASSUME SessionAssumption ==
    Nobody \notin Account /\ Unbound \notin Account /\ Nobody # Unbound

VARIABLES
    exists,   \* the accounts that have been created
    used,     \* those whose record holds data of theirs
    current,  \* Auth.auth().currentUser, also kept in the keychain
    bound,    \* the global `user'
    requests, \* sign-ins and sign-ups without an answer
    blanks,   \* blank records written and not answered, oldest first
    main,     \* answers queued for the main thread
    stack,    \* the screens over the login screen, the top one last
    made,     \* how many were pushed so far
    expanded, \* isExpended of the top container
    choices,  \* options to run when the menu has collapsed
    modal,    \* a screen is presented over the containers
    hasty,    \* something was tapped while an answer or an animation was on its way
    crossed,  \* the answer of a creation still on its way has met another success
    crashed   \* `user!' met nil

serverVars == <<exists, used>>
menuVars   == <<expanded, choices, modal>>
sessionVars ==
    <<serverVars, current, bound, requests, blanks, main, stack, made, menuVars,
      hasty, crossed, crashed>>

Login == 0      \* the login screen among the screens that ask for something

MenuOptions == {"Sources", "Profile", "Exit"}

Request == [op : {"signIn", "create"}, of : Account, from : Nat]
Answer  == [op : {"signIn", "create", "added"}, from : Nat, ok : BOOLEAN]
Screen  == [kind : {"signUp", "container"}, id : Nat]

OnTop(kind) == stack # <<>> /\ Last(stack).kind = kind

Shown(id) == \E k \in DOMAIN stack : stack[k].id = id

-----------------------------------------------------------------------------
(* Login and sign up. *)

Ask(op, a, from) == requests' = Append(requests, [op |-> op, of |-> a, from |-> from])

SignInButton(a) ==
    /\ ~crashed /\ ~modal /\ stack = <<>>
    /\ Ask("signIn", a, Login)
    /\ UNCHANGED <<serverVars, current, bound, blanks, main, stack, made, menuVars, crashed>>

SignUpButton ==
    /\ ~crashed /\ ~modal /\ stack = <<>>
    /\ stack' = <<[kind |-> "signUp", id |-> made + 1]>>
    /\ made' = made + 1
    /\ UNCHANGED <<serverVars, current, bound, requests, blanks, main, menuVars, crashed>>

Back ==
    /\ ~crashed /\ ~modal /\ OnTop("signUp")
    /\ stack' = Front(stack)
    /\ UNCHANGED <<serverVars, current, bound, requests, blanks, main, made, menuVars, crashed>>

\* With equal passwords; different ones are only marked red.
NextButton(a) ==
    /\ ~crashed /\ ~modal /\ OnTop("signUp")
    /\ Ask("create", a, Last(stack).id)
    /\ UNCHANGED <<serverVars, current, bound, blanks, main, stack, made, menuVars, crashed>>

\* A sign-in to an account, or the creation of one that was not there: the user
\* is set first, the answer follows on the main queue.
Succeeds(k) ==
    LET req == requests[k]
    IN /\ requests' = RemoveAt(requests, k)
       /\ req.op = "signIn" <=> req.of \in exists
       /\ exists' = exists \cup {req.of}
       /\ current' = req.of
       /\ main' = Append(main, [op |-> req.op, from |-> req.from, ok |-> TRUE])
       /\ UNCHANGED <<used, bound, blanks, stack, made, menuVars, crashed>>

\* Refused, or the answer is lost, when an account may have been created.
Fails(k) ==
    LET req == requests[k]
    IN /\ requests' = RemoveAt(requests, k)
       /\ \/ UNCHANGED exists
          \/ req.op = "create" /\ exists' = exists \cup {req.of}
       /\ main' = Append(main, [op |-> req.op, from |-> req.from, ok |-> FALSE])
       /\ UNCHANGED <<used, current, bound, blanks, stack, made, menuVars, crashed>>

-----------------------------------------------------------------------------
(* The answers, on the main queue. *)

IsNext(op) == ~crashed /\ main # <<>> /\ Head(main).op = op /\ main' = Tail(main)

\* A container is pushed, whatever is on top.  Its viewDidLoad is the first to
\* use `user'.
Push ==
    LET user == IF bound = Unbound THEN current ELSE bound
    IN /\ bound' = user
       /\ crashed' = (user = Nobody)
       /\ stack' = Append(stack, [kind |-> "container", id |-> made + 1])
       /\ made' = made + 1
       /\ expanded' = FALSE
       /\ UNCHANGED <<choices, modal>>

SignedIn ==
    /\ IsNext("signIn")
    /\ IF Head(main).ok THEN Push ELSE UNCHANGED <<bound, stack, made, menuVars, crashed>>
    /\ UNCHANGED <<serverVars, current, requests, blanks>>

\* addUserItems: the record of the current user is set to a blank one.
AddUserItems(user) ==
    IF user = Nobody
    THEN crashed' = TRUE /\ UNCHANGED <<used, blanks>>
    ELSE /\ blanks' = Append(blanks, Head(main).from)
         /\ used' = used \ {user}
         /\ UNCHANGED crashed

\* Mutants of Created: `user' is the global one; the container is pushed at once.
CreatedBound ==
    /\ IsNext("create")
    /\ IF Head(main).ok
       THEN AddUserItems(IF bound = Unbound THEN current ELSE bound)
       ELSE UNCHANGED <<used, blanks, crashed>>
    /\ UNCHANGED <<exists, current, bound, requests, stack, made, menuVars>>

CreatedOpens ==
    /\ IsNext("create")
    /\ IF Head(main).ok /\ current # Nobody
       THEN Push /\ blanks' = Append(blanks, Head(main).from) /\ used' = used \ {current}
       ELSE UNCHANGED <<used, blanks, bound, stack, made, menuVars, crashed>>
    /\ UNCHANGED <<exists, current, requests>>

Created ==
    /\ IsNext("create")
    /\ IF Head(main).ok THEN AddUserItems(current) ELSE UNCHANGED <<used, blanks, crashed>>
    /\ UNCHANGED <<exists, current, bound, requests, stack, made, menuVars>>

\* The database answers in order.
BlankAnswered ==
    /\ blanks # <<>>
    /\ blanks' = Tail(blanks)
    /\ \E ok \in BOOLEAN :
           main' = Append(main, [op |-> "added", from |-> Head(blanks), ok |-> ok])
    /\ UNCHANGED <<serverVars, current, bound, requests, stack, made, menuVars, crashed>>

\* A sign-up screen that was left can push nothing.
Added ==
    /\ IsNext("added")
    /\ IF Head(main).ok /\ Shown(Head(main).from)
       THEN Push
       ELSE UNCHANGED <<bound, stack, made, menuVars, crashed>>
    /\ UNCHANGED <<serverVars, current, requests, blanks>>

-----------------------------------------------------------------------------
(* The container's menu and what it opens. *)

\* The button of the Home screen.
HandleMenuToggle ==
    /\ ~crashed /\ ~modal /\ OnTop("container")
    /\ expanded' = ~expanded
    /\ UNCHANGED <<serverVars, current, bound, requests, blanks, main, stack, made,
                   choices, modal, crashed>>

\* A row of the menu: it collapses, and when it has the option is run.
SelectRow(option) ==
    /\ ~crashed /\ ~modal /\ OnTop("container") /\ expanded
    /\ expanded' = FALSE
    /\ choices' = Append(choices, [from |-> Last(stack).id, option |-> option])
    /\ UNCHANGED <<serverVars, current, bound, requests, blanks, main, stack, made,
                   modal, crashed>>

Collapsed(options) ==
    /\ ~crashed
    /\ choices # <<>> /\ Head(choices).option \in options
    /\ choices' = Tail(choices)
    /\ UNCHANGED <<serverVars, bound, requests, blanks, main, made, expanded, crashed>>

\* performSegue: ignored under a presented screen and off the screen.
OpenScreen ==
    /\ Collapsed({"Sources", "Profile"})
    /\ modal' = (modal \/ (OnTop("container") /\ Last(stack).id = Head(choices).from))
    /\ UNCHANGED <<current, stack>>

\* Mutant: the containers stay.
ExitStays ==
    /\ Collapsed({"Exit"})
    /\ current' = Nobody
    /\ UNCHANGED <<modal, stack>>

\* signOut, then back to the login screen.
Exit ==
    /\ Collapsed({"Exit"})
    /\ current' = Nobody
    /\ stack' = IF Shown(Head(choices).from) THEN <<>> ELSE stack
    /\ UNCHANGED modal

\* signOut throws (the keychain): nothing more.
ExitFails ==
    /\ Collapsed({"Exit"})
    /\ UNCHANGED <<current, modal, stack>>

\* The gate presents the Profile screen.
GatePresents ==
    /\ ~crashed /\ OnTop("container") /\ ~modal
    /\ modal' = TRUE
    /\ UNCHANGED <<serverVars, current, bound, requests, blanks, main, stack, made,
                   expanded, choices, crashed>>

\* The screen is left, with or without a save to the record of `user'.
LeaveScreen ==
    /\ ~crashed /\ modal
    /\ modal' = FALSE
    /\ used' \in {used, used \cup {bound}}
    /\ UNCHANGED <<exists, current, bound, requests, blanks, main, stack, made,
                   expanded, choices, crashed>>

-----------------------------------------------------------------------------

\* Mutant: `user' is computed when the process starts.
RestartBinds ==
    /\ LET creating == {k \in DOMAIN requests : requests[k].op = "create"}
       IN \E ks \in SUBSET creating : exists' = exists \cup {requests[k].of : k \in ks}
    /\ bound' = current /\ requests' = <<>> /\ blanks' = <<>> /\ main' = <<>>
    /\ stack' = <<>> /\ made' = 0 /\ expanded' = FALSE /\ choices' = <<>>
    /\ modal' = FALSE /\ hasty' = FALSE /\ crashed' = FALSE
    /\ UNCHANGED <<used, current>>

\* The process is killed, or was ended by its crash.  Accounts asked for may have
\* been created.
Restart ==
    /\ LET creating == {k \in DOMAIN requests : requests[k].op = "create"}
       IN \E ks \in SUBSET creating : exists' = exists \cup {requests[k].of : k \in ks}
    /\ bound' = Unbound /\ requests' = <<>> /\ blanks' = <<>> /\ main' = <<>>
    /\ stack' = <<>> /\ made' = 0 /\ expanded' = FALSE /\ choices' = <<>>
    /\ modal' = FALSE /\ hasty' = FALSE /\ crashed' = FALSE
    /\ UNCHANGED <<used, current>>

SessionInit ==
    /\ exists \in SUBSET Account /\ used \in SUBSET exists
    /\ current \in exists \cup {Nobody}
    /\ bound = Unbound /\ requests = <<>> /\ blanks = <<>> /\ main = <<>>
    /\ stack = <<>> /\ made = 0 /\ expanded = FALSE /\ choices = <<>>
    /\ modal = FALSE /\ hasty = FALSE /\ crossed = FALSE /\ crashed = FALSE

User ==
    \/ \E a \in Account : SignInButton(a) \/ NextButton(a)
    \/ SignUpButton \/ Back
    \/ HandleMenuToggle
    \/ \E option \in MenuOptions : SelectRow(option)
    \/ LeaveScreen

\* A patient user taps only when all that was started is over.
Tapped ==
    hasty' = (hasty \/ <<requests, blanks, main, choices>> # << <<>>, <<>>, <<>>, <<>> >>)

\* An account was created and, before its answer is handled, a sign-in succeeds as
\* well or an older answer opens a container.
Creating(answers) == \E i \in DOMAIN answers : answers[i].op = "create" /\ answers[i].ok

Crossing(answers) ==
    \E i, j \in DOMAIN answers :
        /\ answers[i].op = "create" /\ answers[i].ok /\ answers[j].ok
        /\ answers[j].op = "signIn" \/ (answers[j].op = "added" /\ j < i)

Crosses == crossed' = (Creating(main') /\ (crossed \/ Crossing(main')))

Process ==
    \/ \E k \in DOMAIN requests : Succeeds(k) \/ Fails(k)
    \/ BlankAnswered
    \/ SignedIn \/ Created \/ Added
    \/ OpenScreen \/ Exit \/ ExitFails
    \/ GatePresents

SessionNext ==
    /\ \/ User /\ Tapped
       \/ Process /\ UNCHANGED hasty
       \/ Restart
    /\ Crosses

SessionSpec == SessionInit /\ [][SessionNext]_sessionVars

-----------------------------------------------------------------------------
(* Properties *)

SessionTypeOK ==
    /\ exists \subseteq Account /\ used \subseteq Account
    /\ current \in exists \cup {Nobody}
    /\ bound \in exists \cup {Unbound, Nobody}
    /\ requests \in Seq(Request) /\ blanks \in Seq(Nat) /\ main \in Seq(Answer)
    /\ stack \in Seq(Screen) /\ made \in Nat
    /\ expanded \in BOOLEAN /\ modal \in BOOLEAN
    /\ hasty \in BOOLEAN /\ crossed \in BOOLEAN /\ crashed \in BOOLEAN
    /\ choices \in Seq([from : Nat, option : MenuOptions])

Containers == {k \in DOMAIN stack : stack[k].kind = "container"}

\* While users wait for what they have started, a container is on the screen only
\* while somebody is signed in, and sign-ins, sign-ups and exits leave at most one,
\* on top.  `user' is first used when somebody is signed in, whatever is tapped when.
SignedInWhileOpen ==
    /\ ~hasty => /\ Containers # {} => current # Nobody
                 /\ Containers \subseteq {Len(stack)}
    /\ bound # Nobody

\* Whatever is tapped when, a sign-up blanks a record that holds someone's data in
\* one way only: a sign-in succeeds, or an answer of before opens its container,
\* while the answer of createUser is on its way to addUserItems, which takes
\* whoever is the current user by then.  Exits, refusals, lost answers, several
\* creations at once, ends of the process and the account `user' is bound to never
\* lead there.
NeverWiped == [][~crossed => used \subseteq used']_sessionVars

\* The user! of addUserItems finds a user.  Not so if a sign-out falls between the
\* creation of the account and its answer.
NeverNil == ~crashed

\* The screens work on the record of the account that is signed in, as
\* `let user = Auth.auth().currentUser' says.  Not so after a change of
\* account, however long users wait.
BoundIsCurrent == Containers # {} /\ ~hasty => bound = current
=============================================================================
