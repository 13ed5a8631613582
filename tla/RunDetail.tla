----------------------------- MODULE RunDetail ------------------------------
(***************************************************************************)
(* The run detail screen, resources/js/screens/flows/flow.vue: which run   *)
(* it reads when the route changes, how a late answer is told from a       *)
(* current one, how history pages are merged into the timeline, and what   *)
(* the Retry, Inspect full details and Load more buttons read.             *)
(*                                                                         *)
(* One component instance serves every run route, so its state outlives a  *)
(* route change.  The server is the environment: it records events, prunes *)
(* histories, moves an instance to its next run, answers reads in any      *)
(* order and fails them at will.                                           *)
(***************************************************************************)
EXTENDS Integers, FiniteSets

CONSTANTS
    Runs,         \* runs an operator can open
    Instances,    \* workflow instances
    InstanceOf,   \* the instance of a run, NoInstance for an engine v1 run
    NoInstance,
    NoRun,        \* run of the empty flow the screen starts with
    Service,      \* TRUE: service mode; FALSE: embedded in the engine's app
    CanFail,      \* reads may fail or time out
    Bookmarks,    \* event sequences a failure link can point to
    PageSize,     \* historyPageSize
    MaxReads,     \* bound: reads the operator causes
    MaxEvents     \* bound: events one run records

ASSUME RunDetailAssumption ==
    /\ InstanceOf \in [Runs -> Instances \cup {NoInstance}]
    /\ NoInstance \notin Instances
    /\ NoRun \notin Runs
    /\ Service \in BOOLEAN
    /\ CanFail \in BOOLEAN
    /\ PageSize \in Nat \ {0}
    /\ MaxReads \in Nat
    /\ MaxEvents \in Nat
    /\ Bookmarks \subseteq 1..MaxEvents
    /\ Service => \A r \in Runs : InstanceOf[r] \in Instances

VARIABLES
    route,               \* $route
    flow,                \* the run detail on display
    ready,               \* the detail is rendered
    loadingError,        \* the last open failed
    lastFlowPath,        \* what Retry reads again
    historyLimit,        \* history_limit of the next read
    historyPageRequest,  \* number of the newest read
    loadingMoreHistory,  \* Load more is disabled
    historyLoadError,    \* the last page failed
    reads,               \* reads in flight
    hist,                \* server: events recorded per run
    pruned,              \* server: runs whose history retention removed
    currentRun           \* server: current run per instance

screen == <<flow, ready, loadingError, lastFlowPath, historyLimit,
            historyPageRequest, loadingMoreHistory, historyLoadError, reads>>
server == <<hist, pruned, currentRun>>
vars == <<route, screen, server>>

V2Runs == {r \in Runs : InstanceOf[r] \in Instances}

\* A history cursor names its run, the last event already delivered and the
\* last event of the snapshot it walks.
Token == [run : Runs, after : Nat, through : Nat]
NoToken == [run |-> NoRun, after |-> 0, through |-> 0]
Tokens == Token \cup {NoToken}

\* The endpoint a read addresses and the view it asks for.
Path == [kind : {"run", "flow"}, id : Runs, complete : BOOLEAN, page : Tokens]
          \cup
        [kind : {"instance"}, id : Instances, complete : BOOLEAN, page : Tokens]

NoPath == [kind |-> "none", id |-> NoRun, complete |-> FALSE, page |-> NoToken]

Read == [id : Nat, op : {"open", "legacy", "page"}, path : Path, limit : Nat]

\* Timeline rows carry the run they were recorded by.
Event == [run : Runs, seq : Nat]

Unknown == -1

Detail == [run : Runs \cup {NoRun}, complete : BOOLEAN, pruned : BOOLEAN,
           events : SUBSET Event, next : Tokens, fromStart : BOOLEAN,
           total : Nat \cup {Unknown}, older : BOOLEAN, read : Nat]

NoFlow == [run |-> NoRun, complete |-> TRUE, pruned |-> FALSE, events |-> {},
           next |-> NoToken, fromStart |-> TRUE, total |-> Unknown,
           older |-> FALSE, read |-> 0]
-----------------------------------------------------------------------------
(***************************************************************************)
(* Routes.                                                                 *)
(***************************************************************************)

\* The link of a failure to its supporting event: a one-event window.
BookmarkToken(r, n) == [run |-> r, after |-> n - 1, through |-> n]

RunRoutes ==
    [kind : {"run"}, id : V2Runs, complete : BOOLEAN,
     page : {NoToken} \cup {BookmarkToken(r, n) : r \in V2Runs, n \in Bookmarks}]

InstanceRoutes ==
    [kind : {"instance"}, id : Instances, complete : BOOLEAN, page : {NoToken}]

FlowRoutes == [kind : {"flow"}, id : Runs, complete : {FALSE}, page : {NoToken}]

\* The routes a link or a bookmark can hold.  complete stands for a hash
\* that routeRequestsCompleteDetails matches.  A failure link's page token is
\* of the run it links to.
Routes ==
    {rt \in RunRoutes : rt.page.run \in {NoRun, rt.id}} \cup InstanceRoutes \cup FlowRoutes

IsCanonicalRoute == route.kind # "flow"

CanonicalRoute(r) ==
    [kind |-> "run", id |-> r, complete |-> FALSE, page |-> NoToken]

\* Does run r answer what endpoint or route p selects?
Selects(p, r) ==
    IF p.kind = "instance" THEN r \in Runs /\ InstanceOf[r] = p.id ELSE r = p.id

\* currentFlowEndpoint: the endpoint of the run on display.
FlowEndpoint(complete, page) ==
    [kind |-> IF flow.run \in V2Runs THEN "run" ELSE "flow",
     id |-> flow.run, complete |-> complete, page |-> page]
-----------------------------------------------------------------------------
(***************************************************************************)
(* What the server answers.                                                *)
(***************************************************************************)

AddressedRun(path) == IF path.kind = "instance" THEN currentRun[path.id] ELSE path.id

\* Legacy endpoints are never asked for the bounded view.
IsBounded(path) == path.kind # "flow" /\ ~path.complete

Window(r, lo, hi) == {[run |-> r, seq |-> n] : n \in lo..hi}

Least(m, n) == IF m < n THEN m ELSE n

\* A page of at most limit events that follow the cursor.
ForwardPage(r, path, limit, id) ==
    LET tok == path.page
        through == IF tok = NoToken THEN hist[r] ELSE tok.through
        last == IF r \in pruned THEN tok.after ELSE Least(tok.after + limit, through)
        more == r \notin pruned /\ last < through
        whole == path.complete /\ tok = NoToken /\ ~more
    IN  [run |-> r, complete |-> ~IsBounded(path), pruned |-> r \in pruned,
         events |-> Window(r, tok.after + 1, last),
         next |-> IF more THEN [run |-> r, after |-> last, through |-> through]
                          ELSE NoToken,
         fromStart |-> tok = NoToken,
         total |-> IF whole THEN last ELSE Unknown,
         older |-> more, read |-> id]

\* Embedded complete details: the latest limit events, and no cursor.
LatestWindow(r, limit, id) ==
    LET total == IF r \in pruned THEN 0 ELSE hist[r]
        first == IF total > limit THEN total - limit + 1 ELSE 1
    IN  [run |-> r, complete |-> TRUE, pruned |-> r \in pruned,
         events |-> Window(r, first, total), next |-> NoToken,
         fromStart |-> TRUE, total |-> total, older |-> first > 1, read |-> id]

Answer(q) ==
    LET r == AddressedRun(q.path)
    IN  IF IsBounded(q.path) \/ Service
        THEN ForwardPage(r, q.path, q.limit, q.id)
        ELSE LatestWindow(r, q.limit, q.id)

BugKeepCursor(current, page) ==
    [page EXCEPT !.events = @ \cup current.events, !.next = current.next,
                 !.fromStart = current.fromStart, !.total = Unknown]

BugCountPruned(current, page) ==
    LET merged == page.events \cup current.events
    IN  [page EXCEPT !.events = merged, !.fromStart = current.fromStart,
                     !.total = IF current.fromStart /\ page.next = NoToken
                                 THEN Cardinality(merged) ELSE Unknown]

\* appendRunHistoryPage: merge by sequence, the page's copy wins; the total is
\* known once the window starts at the first event and the page is the last.
AppendRunHistoryPage(current, page) ==
    LET paged == {e.seq : e \in page.events}
        merged == page.events \cup {e \in current.events : e.seq \notin paged}
        whole == current.fromStart /\ page.next = NoToken /\ ~page.pruned
    IN  [page EXCEPT !.events = merged,
                     !.fromStart = current.fromStart,
                     !.total = IF whole THEN Cardinality(merged) ELSE Unknown]
-----------------------------------------------------------------------------
\* A failure link is only ever made for an event already recorded.
Linkable(rt) == rt.page # NoToken => rt.page.through <= hist[rt.id]

Init ==
    /\ route \in Routes
    /\ flow = NoFlow
    /\ ready = FALSE
    /\ loadingError = FALSE
    /\ lastFlowPath = NoPath
    /\ historyLimit = PageSize
    /\ historyPageRequest = 0
    /\ loadingMoreHistory = FALSE
    /\ historyLoadError = FALSE
    /\ reads = {}
    /\ hist \in [Runs -> 0..MaxEvents]
    /\ \A r \in Runs \ V2Runs : hist[r] = 0
    /\ pruned = {}
    /\ currentRun \in [Instances -> V2Runs]
    /\ \A i \in Instances : InstanceOf[currentRun[i]] = i
    /\ Linkable(route)

BugKeepLoadingMore(op, path, limit, inFlight) ==
    /\ historyPageRequest' = historyPageRequest + 1
    /\ reads' = inFlight \cup
                  {[id |-> historyPageRequest + 1, op |-> op, path |-> path, limit |-> limit]}
    /\ ready' = FALSE
    /\ loadingError' = FALSE
    /\ lastFlowPath' = path
    /\ historyLimit' = limit
    /\ UNCHANGED <<loadingMoreHistory, historyLoadError>>

\* fetchFlow: number the read, forget the page in flight, clear the screen.
FetchFlow(op, path, limit, inFlight) ==
    /\ historyPageRequest' = historyPageRequest + 1
    /\ reads' = inFlight \cup
                  {[id |-> historyPageRequest + 1, op |-> op, path |-> path, limit |-> limit]}
    /\ loadingMoreHistory' = FALSE
    /\ historyLoadError' = FALSE
    /\ ready' = FALSE
    /\ loadingError' = FALSE
    /\ lastFlowPath' = path
    /\ historyLimit' = limit

\* loadRouteFlow: what the route selects, from the first page size.
LoadRouteFlow(rt, inFlight) ==
    FetchFlow(IF rt.kind = "flow" THEN "legacy" ELSE "open",
              [kind |-> rt.kind, id |-> rt.id, complete |-> rt.complete, page |-> rt.page],
              PageSize, inFlight)

OperatorMayRead == historyPageRequest < MaxReads

\* mounted: the screen opens on the route it was created with.
Mount ==
    /\ historyPageRequest = 0
    /\ OperatorMayRead
    /\ LoadRouteFlow(route, reads)
    /\ UNCHANGED <<route, flow, server>>

\* A link, Back or Forward: the same component shows the next route, which
\* may differ from this one in a hash that selects nothing.
Navigate(rt) ==
    /\ historyPageRequest > 0
    /\ OperatorMayRead
    /\ Linkable(rt)
    /\ route' = rt
    /\ LoadRouteFlow(rt, reads)
    /\ UNCHANGED <<flow, server>>

\* Retry, offered after a failed open: the same read, not the route.
RetryFlowLoad ==
    /\ loadingError
    /\ OperatorMayRead
    /\ FetchFlow("open", lastFlowPath, historyLimit, reads)
    /\ UNCHANGED <<route, flow, server>>

\* Inspect full details (a bounded view is on display) and Open complete
\* details (the open failed): the run in this.flow, else the route's.
LoadCompleteDetails ==
    /\ \/ ready /\ ~flow.complete
       \/ loadingError /\ IsCanonicalRoute
    /\ OperatorMayRead
    /\ FetchFlow("open",
                 IF flow.run # NoRun
                   THEN FlowEndpoint(TRUE, NoToken)
                   ELSE [kind |-> route.kind, id |-> route.id,
                         complete |-> TRUE, page |-> NoToken],
                 PageSize, reads)
    /\ UNCHANGED <<route, flow, server>>

PagesForward == Service \/ ~flow.complete

\* Load older, embedded complete details: a longer latest window.
LoadOlderHistory ==
    /\ ready /\ flow.older /\ ~loadingMoreHistory
    /\ ~PagesForward
    /\ OperatorMayRead
    /\ FetchFlow("open", FlowEndpoint(TRUE, NoToken),
                 Least(flow.total, historyLimit + PageSize), reads)
    /\ UNCHANGED <<route, flow, server>>

\* Load more: one page that continues the timeline on display.
LoadHistoryPage ==
    /\ ready /\ flow.older /\ ~loadingMoreHistory
    /\ PagesForward
    /\ flow.next # NoToken
    /\ OperatorMayRead
    /\ historyPageRequest' = historyPageRequest + 1
    /\ reads' = reads \cup {[id |-> historyPageRequest + 1, op |-> "page",
                             path |-> FlowEndpoint(FALSE, flow.next),
                             limit |-> historyLimit]}
    /\ loadingMoreHistory' = TRUE
    /\ historyLoadError' = FALSE
    /\ UNCHANGED <<route, flow, ready, loadingError, lastFlowPath, historyLimit, server>>
-----------------------------------------------------------------------------
BugAnyAnswer(q) == TRUE

IsNewest(q) == q.id = historyPageRequest

\* An answer to an open.  A legacy route's answer names the run's instance
\* and replaces the route, which opens the run again under its own address.
OpenAnswered(q) ==
    /\ q.op \in {"open", "legacy"}
    /\ IsNewest(q)
    /\ flow' = Answer(q)
    /\ IF q.op = "legacy" /\ AddressedRun(q.path) \in V2Runs
         THEN /\ route' = CanonicalRoute(AddressedRun(q.path))
              /\ LoadRouteFlow(route', reads \ {q})
         ELSE /\ ready' = TRUE
              /\ reads' = reads \ {q}
              /\ UNCHANGED <<route, loadingError, lastFlowPath, historyLimit,
                             historyPageRequest, loadingMoreHistory, historyLoadError>>
    /\ UNCHANGED server

\* A failed open keeps the previous flow behind the error.
OpenFailed(q) ==
    /\ CanFail
    /\ q.op \in {"open", "legacy"}
    /\ IsNewest(q)
    /\ loadingError' = TRUE
    /\ reads' = reads \ {q}
    /\ UNCHANGED <<route, flow, ready, lastFlowPath, historyLimit,
                   historyPageRequest, loadingMoreHistory, historyLoadError, server>>

\* A page answered: merged, unless it is of another run than the flow.
PageAnswered(q) ==
    LET page == Answer(q)
    IN  /\ q.op = "page"
        /\ IsNewest(q)
        /\ IF page.run = flow.run
             THEN /\ flow' = AppendRunHistoryPage(flow, page)
                  /\ UNCHANGED historyLoadError
             ELSE /\ historyLoadError' = TRUE
                  /\ UNCHANGED flow
        /\ loadingMoreHistory' = FALSE
        /\ reads' = reads \ {q}
        /\ UNCHANGED <<route, ready, loadingError, lastFlowPath, historyLimit,
                       historyPageRequest, server>>

PageFailed(q) ==
    /\ CanFail
    /\ q.op = "page"
    /\ IsNewest(q)
    /\ historyLoadError' = TRUE
    /\ loadingMoreHistory' = FALSE
    /\ reads' = reads \ {q}
    /\ UNCHANGED <<route, flow, ready, loadingError, lastFlowPath, historyLimit,
                   historyPageRequest, server>>

\* An answer or a failure that a newer read superseded changes nothing.
SupersededSettled(q) ==
    /\ ~IsNewest(q)
    /\ reads' = reads \ {q}
    /\ UNCHANGED <<route, flow, ready, loadingError, lastFlowPath, historyLimit,
                   historyPageRequest, loadingMoreHistory, historyLoadError, server>>

Settle(q) ==
    \/ OpenAnswered(q)
    \/ OpenFailed(q)
    \/ PageAnswered(q)
    \/ PageFailed(q)
    \/ SupersededSettled(q)
-----------------------------------------------------------------------------
(***************************************************************************)
(* The engine, as far as a reader of it can tell.                          *)
(***************************************************************************)
RecordEvent(r) ==
    /\ r \in V2Runs \ pruned
    /\ hist[r] < MaxEvents
    /\ hist' = [hist EXCEPT ![r] = @ + 1]
    /\ UNCHANGED <<route, screen, pruned, currentRun>>

PruneHistory(r) ==
    /\ r \in V2Runs \ pruned
    /\ pruned' = pruned \cup {r}
    /\ UNCHANGED <<route, screen, hist, currentRun>>

ContinueAsNew(i, r) ==
    /\ InstanceOf[r] = i
    /\ r # currentRun[i]
    /\ currentRun' = [currentRun EXCEPT ![i] = r]
    /\ UNCHANGED <<route, screen, hist, pruned>>

Operator ==
    \/ Mount
    \/ \E rt \in Routes : Navigate(rt)
    \/ RetryFlowLoad
    \/ LoadCompleteDetails
    \/ LoadOlderHistory
    \/ LoadHistoryPage

Engine ==
    \/ \E r \in Runs : RecordEvent(r) \/ PruneHistory(r)
    \/ \E i \in Instances, r \in V2Runs : ContinueAsNew(i, r)

Next ==
    \/ Operator
    \/ \E q \in reads : Settle(q)
    \/ Engine

SafeSpec == Init /\ [][Next]_vars

\* The browser gives up on every read after 15 seconds, so each settles.
\* Nothing is assumed of the operator or of the engine.
Fairness ==
    \A n \in 1..(MaxReads + 1) : WF_vars(\E q \in reads : q.id = n /\ Settle(q))

Spec == SafeSpec /\ Fairness
-----------------------------------------------------------------------------
\* The variables have the values the run detail screen gives them.
TypeOK ==
    /\ route \in Routes
    /\ flow \in Detail
    /\ ready \in BOOLEAN
    /\ loadingError \in BOOLEAN
    /\ lastFlowPath \in Path \cup {NoPath}
    /\ historyLimit \in Nat
    /\ historyPageRequest \in 0..(MaxReads + 1)
    /\ loadingMoreHistory \in BOOLEAN
    /\ historyLoadError \in BOOLEAN
    /\ reads \subseteq Read
    /\ hist \in [Runs -> 0..MaxEvents]
    /\ pruned \subseteq Runs
    /\ currentRun \in [Instances -> V2Runs]

\* The run on display is the one the newest open asked for: no late answer,
\* failed page or route change in between puts another run's detail there
\* (fetchFlow's and loadHistoryPage's comparison with historyPageRequest).
ShownRunIsRequested == ready => Selects(lastFlowPath, flow.run)

\* Every row of the timeline was recorded by the run on display, and the
\* rows are a gap-free stretch of its history that the cursor continues
\* (appendRunHistoryPage and the cursor kept in the flow).
TimelineOfShownRun ==
    LET seqs == {e.seq : e \in flow.events}
    IN  /\ \A e \in flow.events : e.run = flow.run
        /\ \A m, n \in seqs : m..n \subseteq seqs
        /\ flow.next # NoToken =>
              /\ flow.next.run = flow.run
              /\ seqs # {} => flow.next.after \in seqs
              /\ flow.next.after + 1 \notin seqs

\* While the screen shows neither the run nor an error, and while Load more
\* is disabled, the read that will end it is in flight.  A page that a new
\* open supersedes must not leave the button disabled.
WaitingIsOwned ==
    /\ historyPageRequest > 0 /\ ~ready /\ ~loadingError =>
          \E q \in reads : IsNewest(q) /\ q.op # "page"
    /\ loadingMoreHistory => \E q \in reads : IsNewest(q) /\ q.op = "page"

\* Load more never takes away a row: events leave the timeline only when
\* the screen opens a run anew.
LoadMoreKeepsEvents ==
    [][ready /\ ready' => flow.events \subseteq flow'.events]_vars

\* A page that makes the total known has completed the timeline up to the
\* last event of the snapshot the cursor walks, also when retention removed
\* the history between two pages.
TotalCountsSnapshot ==
    [][ready /\ ready' /\ flow' # flow /\ flow'.total # Unknown =>
          {e.seq : e \in flow'.events} = 1..flow.next.through]_vars

\* Every open and every page ends, in an answer or an error, unless the
\* operator asks for something newer first.
LoadSettles ==
    \A n \in 1..(MaxReads + 1) :
        historyPageRequest = n /\ ((~ready /\ ~loadingError) \/ loadingMoreHistory)
            ~> \/ historyPageRequest > n
               \/ (ready \/ loadingError) /\ ~loadingMoreHistory

\* The screen reads the way LatestRead promises: flow.read is the number of
\* the read whose answer is on display.
Latest == INSTANCE LatestRead WITH
    MaxReads <- MaxReads + 1,
    issued <- historyPageRequest,
    inFlight <- {q.id : q \in reads},
    shown <- flow.read

\* Every step of the screen is a step LatestRead allows.
ImplementsLatestRead == Latest!SafeSpec
=============================================================================
