------------------------------- MODULE NewsFeed -------------------------------
(*****************************************************************************)
(* The list of the Home screen (HomeViewController, HomeControllerViewModel, *)
(* OnlineRepository.getUserSources, getNews) over the user's record: every   *)
(* appearance and every pull adds an observer that is never removed, every   *)
(* snapshot starts a request to newsapi.org, and an answer replaces the list *)
(* whatever has been asked since.                                            *)
(*****************************************************************************)
EXTENDS UserRecord, SequencesExt

CONSTANTS
    Home,           \* the kind of the Home screen's observers
    SourcesField,   \* "userSources"
    Empty,          \* the empty string
    DefaultSources, \* what Home asks for when the user follows no source
    NoNews          \* no list has been shown yet

ASSUME FeedAssumption ==
    /\ Kind = {Home} /\ SourcesField \in Field
    /\ Empty \in Value /\ DefaultSources \notin Value

VARIABLES
    inflight,   \* the sources of the requests without an answer, oldest first
    asked,      \* the sources of the last request, or NoNews
    news,       \* the sources of the list shown, or NoNews
    refreshing, \* the refresh control spins
    failed,     \* a request has failed since it started to spin
    disturbed   \* a request has failed or was overtaken

feedVars == <<inflight, asked, news, refreshing, failed, disturbed>>
homeVars == <<vars, feedVars>>

Sources == (Value \ {Empty}) \cup {DefaultSources}

\* getUserSources gives "" for no record and no field; Home replaces "".
SourcesOf(rec) ==
    IF rec[SourcesField] \in {Absent, Empty} THEN DefaultSources ELSE rec[SourcesField]

-----------------------------------------------------------------------------

\* viewDidAppear.
Appear ==
    /\ MainTurn(<<ObserveCall(Home)>>, <<>>)
    /\ UNCHANGED feedVars

\* Mutant: a pull trusts the observer that is there already.
PullTrusting ==
    /\ ~refreshing
    /\ refreshing' = TRUE /\ failed' = FALSE
    /\ IF regs = <<>> THEN MainTurn(<<ObserveCall(Home)>>, <<>>) ELSE UNCHANGED vars
    /\ UNCHANGED <<inflight, asked, news, disturbed>>

\* The refresh control fires once until endRefreshing.
Pull ==
    /\ ~refreshing
    /\ refreshing' = TRUE /\ failed' = FALSE
    /\ MainTurn(<<ObserveCall(Home)>>, <<>>)
    /\ UNCHANGED <<inflight, asked, news, disturbed>>

\* Mutants of Snapshot: an observer asks once; the request is made for the
\* snapshot before.
SnapshotOnce ==
    /\ RunBlock(<<>>, <<>>)
    /\ Head(main).op = "value" /\ regs[Head(main).to] = Home
    /\ IF seen[Head(main).to] = NoSnap
       THEN /\ asked' = SourcesOf(Head(main).snap)
            /\ inflight' = Append(inflight, asked')
       ELSE UNCHANGED <<asked, inflight>>
    /\ UNCHANGED <<news, refreshing, failed, disturbed>>

SnapshotBefore ==
    /\ RunBlock(<<>>, <<>>)
    /\ Head(main).op = "value" /\ regs[Head(main).to] = Home
    /\ asked' = IF seen[Head(main).to] = NoSnap THEN SourcesOf(Head(main).snap)
                ELSE SourcesOf(seen[Head(main).to])
    /\ inflight' = Append(inflight, asked')
    /\ UNCHANGED <<news, refreshing, failed, disturbed>>

\* userSources: each snapshot of each observer starts a request.
Snapshot ==
    /\ RunBlock(<<>>, <<>>)
    /\ Head(main).op = "value" /\ regs[Head(main).to] = Home
    /\ asked' = SourcesOf(Head(main).snap)
    /\ inflight' = Append(inflight, asked')
    /\ UNCHANGED <<news, refreshing, failed, disturbed>>

\* Mutant: the answer to a request nobody pulled for is dropped.
AnsweredWhenPulled(k) ==
    /\ k \in DOMAIN inflight
    /\ news' = IF refreshing THEN inflight[k] ELSE news
    /\ inflight' = RemoveAt(inflight, k)
    /\ refreshing' = FALSE
    /\ disturbed' = (disturbed \/ k # 1)
    /\ UNCHANGED <<vars, asked, failed>>

\* newsList: requests are answered in any order.
Answered(k) ==
    /\ k \in DOMAIN inflight
    /\ news' = inflight[k]
    /\ inflight' = RemoveAt(inflight, k)
    /\ refreshing' = FALSE
    /\ disturbed' = (disturbed \/ k # 1)
    /\ UNCHANGED <<vars, asked, failed>>

\* No answer, or one that does not parse: nobody is called.
Failed(k) ==
    /\ k \in DOMAIN inflight
    /\ inflight' = RemoveAt(inflight, k)
    /\ failed' = TRUE /\ disturbed' = TRUE
    /\ UNCHANGED <<vars, asked, news, refreshing>>

\* The Sources screen saves a list.
ListSaved(list) ==
    /\ MainTurn(<<SetCall([f \in {SourcesField} |-> list], NoTag)>>, <<>>)
    /\ UNCHANGED feedVars

HomeGone ==
    /\ inflight' = <<>> /\ asked' = NoNews /\ news' = NoNews
    /\ refreshing' = FALSE /\ failed' = FALSE /\ disturbed' = FALSE

FeedInit ==
    /\ Init
    /\ inflight = <<>> /\ asked = NoNews /\ news = NoNews
    /\ refreshing = FALSE /\ failed = FALSE /\ disturbed = FALSE

HomeUser == Appear \/ Pull \/ \E list \in Value : ListSaved(list)

Network == \E k \in DOMAIN inflight : Answered(k) \/ Failed(k)

FeedNext ==
    \/ HomeUser
    \/ Snapshot
    \/ Network
    \/ Backend /\ UNCHANGED feedVars
    \/ \E rec \in Record : RemoteChange(rec) /\ UNCHANGED feedVars
    \/ Reconnect /\ UNCHANGED feedVars
    \/ Restart /\ HomeGone

FeedSpec == FeedInit /\ [][FeedNext]_homeVars

\* As Fairness of UserRecord; a request is answered or times out.
FeedFairness ==
    /\ WF_homeVars(Snapshot)
    /\ WF_homeVars(Network)
    /\ WF_homeVars((WorkerSet \/ WorkerObserve) /\ UNCHANGED feedVars)
    /\ WF_homeVars(Load /\ UNCHANGED feedVars)
    /\ WF_homeVars((ServerApply \/ Reject) /\ UNCHANGED feedVars)
    /\ WF_homeVars(Ack /\ UNCHANGED feedVars)

-----------------------------------------------------------------------------
(* Properties *)

Idle == \A k \in DOMAIN main : main[k].op # "value"

\* However many observers there are and in whatever order they are told, the
\* last request they make is for the sources in the client's view.
AskedForView ==
    Ready /\ regs # <<>> /\ Idle => asked = SourcesOf(View)

\* The list shown is the one for the sources the server holds, unless a request
\* failed or an answer overtook an older one: nothing else makes it stale.
StaleOnlyIfDisturbed ==
    loaded /\ pending = <<>> /\ regs # <<>> /\ Idle /\ inflight = <<>> /\ ~disturbed
        => news = SourcesOf(server)

\* The refresh control stops, unless a request failed since it was pulled or the
\* process is killed.
RefreshEnds == refreshing ~> ~refreshing \/ failed
=============================================================================
