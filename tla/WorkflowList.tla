---------------------------- MODULE WorkflowList ----------------------------
(***************************************************************************)
(* The workflow list, resources/js/screens/flows/index.vue: following the  *)
(* address, its saved view and the stored view preference, reading and     *)
(* paging the list, the timer, and saving and deleting views.              *)
(*                                                                         *)
(* Each route change starts a chain of its own: read the saved views of    *)
(* the bucket, read the preferences, then either correct the view in the   *)
(* address, which is the next route change, or read the list.  Chains      *)
(* overlap and share what they set.                                        *)
(***************************************************************************)
EXTENDS Integers, FiniteSets

CONSTANTS
    Buckets,        \* status buckets: running, completed, ...
    Views,          \* saved views
    NoView,         \* the default view
    CanFail,        \* requests may fail or go unanswered
    Runs,           \* runs, a higher number started later
    MaxChains,      \* bound: route changes and saves
    MaxReads        \* bound: reads of the list

ASSUME WorkflowListAssumption ==
    /\ NoView \notin Views
    /\ CanFail \in BOOLEAN
    /\ Runs \subseteq Nat \ {0}
    /\ {MaxChains, MaxReads} \subseteq Nat

VARIABLES
    route,              \* address: bucket and view
    selectedSavedView,  \* the view the selector shows
    savedViews,         \* the views the selector offers, and of which bucket
    chains,             \* chains in progress
    started,            \* chains started so far
    puts,               \* view preferences on their way to the server
    page, totalPages,
    flows,              \* the rows on display and what they answer
    ready, listLoadError, hasNewEntries, autoLoadsNewEntries,
    listRequest, listRequestPending,
    reads,              \* list reads in flight
    viewsOf,            \* server: saved views of each bucket
    storedView,         \* server: stored view preference
    runs,               \* server: runs of each bucket
    service,            \* the installation is in service mode
    hasty,              \* for the properties: the operator went on before the page settled
    misled              \* for the properties: views that lack the one of the address, though
                        \* its bucket has it, were checked since the selector took it up

following == <<route, selectedSavedView, savedViews, chains, started, puts, misled>>
listing == <<page, totalPages, flows, ready, listLoadError, hasNewEntries, listRequest,
             listRequestPending, reads>>
server == <<service, viewsOf, storedView, runs>>
listVars == <<following, listing, autoLoadsNewEntries, server, hasty>>

Routes == [bucket : Buckets, view : Views \cup {NoView}]

NoFlows == [first |-> 0, route |-> [bucket |-> CHOOSE b \in Buckets : TRUE, view |-> NoView],
            page |-> 0, matching |-> 0, read |-> 0]

ListInit ==
    /\ route \in Routes
    /\ selectedSavedView = NoView
    /\ savedViews = [bucket |-> route.bucket, views |-> {}]
    /\ chains = {}
    /\ started = 0
    /\ puts = {}
    /\ page = 1 /\ totalPages = 1
    /\ flows = NoFlows
    /\ ready = FALSE
    /\ listLoadError = FALSE
    /\ hasNewEntries = FALSE
    /\ autoLoadsNewEntries \in BOOLEAN
    /\ listRequest = 0
    /\ listRequestPending = FALSE
    /\ reads = {}
    /\ viewsOf \in [Buckets -> SUBSET Views]
    /\ \A b, c \in Buckets : b # c => viewsOf[b] \cap viewsOf[c] = {}
    /\ storedView \in Views \cup {NoView}
    /\ runs = [b \in Buckets |-> {}]
    /\ service \in BOOLEAN
    /\ hasty = FALSE /\ misled = FALSE
-----------------------------------------------------------------------------
(***************************************************************************)
(* Reading the list.  Pages hold one run, newest first.                    *)
(***************************************************************************)
RunAt(b, p) ==
    LET at == {r \in runs[b] : Cardinality({s \in runs[b] : s > r}) = p - 1}
    IN  IF at = {} THEN 0 ELSE CHOOSE r \in at : TRUE

LastPage(b) == IF runs[b] = {} THEN 1 ELSE Cardinality(runs[b])

\* The page answered: service mode answers a page past the end with the last.
AnsweredPage(b, p) == IF service /\ p > LastPage(b) THEN LastPage(b) ELSE p

ListAnswer(q) ==
    LET b == q.route.bucket
        p == AnsweredPage(b, q.page)
    IN  [first |-> RunAt(b, p), route |-> q.route, page |-> p,
         matching |-> Cardinality(runs[b]), read |-> q.id]

\* Service mode knows only whether another page follows.
AnsweredTotal(q) ==
    LET b == q.route.bucket
        p == AnsweredPage(b, q.page)
    IN  IF service /\ p < LastPage(b) THEN p + 1 ELSE LastPage(b)

\* loadFlows reads the list of address r.
LoadFlows(r, p, refreshing) ==
    /\ listRequest < MaxReads
    /\ listRequest' = listRequest + 1
    /\ listRequestPending' = TRUE
    /\ page' = p
    /\ listLoadError' = (listLoadError /\ refreshing)
    /\ ready' = (ready /\ refreshing)
    /\ reads' = reads \cup
          {[id |-> listRequest + 1, route |-> r, page |-> p, refreshing |-> refreshing]}
    /\ UNCHANGED totalPages

BugAnyRead(q) == TRUE

IsNewest(q) == q.id = listRequest

ReadSettles(q) ==
    /\ reads' = reads \ {q}
    /\ listRequestPending' = (listRequestPending /\ ~IsNewest(q))

\* Other rows stay on display when the operator switched refreshing off.
Withheld(q) ==
    LET answer == ListAnswer(q)
    IN  /\ ~autoLoadsNewEntries
        /\ q.refreshing
        /\ flows.first # 0
        /\ answer.first # 0
        /\ answer.first # flows.first

ShowAnswer(q) ==
    /\ flows' = ListAnswer(q)
    /\ page' = ListAnswer(q).page
    /\ totalPages' = AnsweredTotal(q)

ListArrives(q) ==
    /\ IsNewest(q)
    /\ ReadSettles(q)
    /\ listLoadError' = FALSE
    /\ ready' = TRUE
    /\ IF Withheld(q)
       THEN hasNewEntries' = TRUE /\ UNCHANGED <<flows, page, totalPages>>
       ELSE ShowAnswer(q) /\ UNCHANGED hasNewEntries
    /\ UNCHANGED <<following, listRequest, autoLoadsNewEntries, server, hasty>>

ListFails(q) ==
    /\ CanFail
    /\ IsNewest(q)
    /\ ReadSettles(q)
    /\ listLoadError' = TRUE
    /\ ready' = TRUE
    /\ flows' = IF q.refreshing THEN flows ELSE [flows EXCEPT !.first = 0]
    /\ totalPages' = IF q.refreshing THEN totalPages ELSE 1
    /\ UNCHANGED <<following, page, hasNewEntries, listRequest, autoLoadsNewEntries, server,
                   hasty>>

SupersededListSettles(q) ==
    /\ ~IsNewest(q)
    /\ ReadSettles(q)
    /\ UNCHANGED <<following, page, totalPages, flows, ready, listLoadError, hasNewEntries,
                   listRequest, autoLoadsNewEntries, server, hasty>>

SettleList(q) == ListArrives(q) \/ ListFails(q) \/ SupersededListSettles(q)

MayTick ==
    /\ page = 1
    /\ autoLoadsNewEntries
    /\ ~listRequestPending

\* refreshFlowsPeriodically.
Tick ==
    /\ started > 0
    /\ MayTick
    /\ LoadFlows(route, 1, TRUE)
    /\ UNCHANGED <<following, flows, hasNewEntries, autoLoadsNewEntries, server, hasty>>

Settled == chains = {} /\ ~listRequestPending

\* An operator's step: it may come before the page has settled.
Acts == hasty' = (hasty \/ ~Settled)

RowsShown == ready /\ flows.first # 0

TurnPage(p) ==
    /\ LoadFlows(route, p, FALSE)
    /\ hasNewEntries' = FALSE
    /\ UNCHANGED <<following, flows, autoLoadsNewEntries, server>>

Previous == RowsShown /\ page > 1 /\ Acts /\ TurnPage(page - 1)

NextPage == RowsShown /\ page < totalPages /\ Acts /\ TurnPage(page + 1)

Retry ==
    /\ listLoadError /\ Acts
    /\ LoadFlows(route, page, FALSE)
    /\ UNCHANGED <<following, flows, hasNewEntries, autoLoadsNewEntries, server>>

LoadNewEntries ==
    /\ RowsShown /\ hasNewEntries /\ Acts
    /\ LoadFlows(route, 1, FALSE)
    /\ flows' = [flows EXCEPT !.first = 0]
    /\ hasNewEntries' = FALSE
    /\ UNCHANGED <<following, autoLoadsNewEntries, server>>

AutoLoadNewEntries ==
    /\ autoLoadsNewEntries' = ~autoLoadsNewEntries
    /\ UNCHANGED <<following, listing, server, hasty>>
-----------------------------------------------------------------------------
(***************************************************************************)
(* Following the address.                                                  *)
(***************************************************************************)
Chain(kind, stage, r) ==
    [id |-> started + 1, kind |-> kind, stage |-> stage, bucket |-> r.bucket, view |-> r.view]

\* handleRouteChange in place of chain c: page 1, then loadSavedViews.
HandleRouteChange(r, c) ==
    /\ started < MaxChains
    /\ started' = started + 1
    /\ chains' = (chains \ c) \cup {Chain("route", "views", r)}
    /\ route' = r
    /\ selectedSavedView' = r.view /\ misled' = FALSE
    /\ page' = 1

NoListStep == UNCHANGED <<totalPages, flows, ready, listLoadError, hasNewEntries, listRequest,
                          listRequestPending, reads, autoLoadsNewEntries>>

Mount ==
    /\ started = 0
    /\ HandleRouteChange(route, {})
    /\ NoListStep
    /\ UNCHANGED <<savedViews, puts, server, hasty>>

\* A link, or Back or Forward.
Navigate(r) ==
    /\ started > 0 /\ r # route /\ Acts
    /\ HandleRouteChange(r, {})
    /\ NoListStep
    /\ UNCHANGED <<savedViews, puts, server>>

\* selectSavedView: view v goes into the address and into the preferences.
SelectSavedView(v, c) ==
    /\ puts' = puts \cup {[id |-> started + 1, view |-> v]}
    /\ IF route.view = v
       THEN /\ selectedSavedView' = v
            /\ chains' = chains \ c
            /\ UNCHANGED <<route, started, page, misled>>
       ELSE HandleRouteChange([route EXCEPT !.view = v], c)

ChooseView(v) ==
    /\ started > 0 /\ Acts
    /\ savedViews.views # {}
    /\ v \in savedViews.views \cup {NoView}
    /\ v # selectedSavedView
    /\ SelectSavedView(v, {})
    /\ NoListStep
    /\ UNCHANGED <<savedViews, server>>

\* The saved views a read returns; a failed read leaves none.
ViewsReturned(c) == {viewsOf[c.bucket]} \cup (IF CanFail THEN {{}} ELSE {})

\* A view the bucket does not have is not selected.
Kept(v, vs) == IF v \in vs THEN v ELSE NoView

\* The selector is checked against views vs.
CheckSelection(vs) ==
    /\ selectedSavedView' = Kept(selectedSavedView, vs)
    /\ misled' = (misled \/ route.view \in viewsOf[route.bucket] \ vs)

\* loadSavedViews answered, and what the chain goes on with.
ViewsAnswered(c) ==
    /\ c.stage = "views"
    /\ \E vs \in ViewsReturned(c) :
          /\ savedViews' = [bucket |-> c.bucket, views |-> vs]
          /\ CASE c.kind = "route" ->
                    /\ CheckSelection(vs)
                    /\ chains' = (chains \ {c}) \cup
                                   {[c EXCEPT !.stage = "preferences", !.view = route.view]}
                    /\ NoListStep
                    /\ UNCHANGED <<route, started, puts, page>>
               [] c.kind = "update" ->
                    /\ CheckSelection(vs)
                    /\ chains' = chains \ {c}
                    /\ LoadFlows(route, page, FALSE)
                    /\ UNCHANGED <<route, started, puts, flows, hasNewEntries,
                                   autoLoadsNewEntries>>
               [] OTHER ->
                    /\ SelectSavedView(IF c.kind = "save" THEN c.view ELSE NoView, {c})
                    /\ NoListStep
    /\ UNCHANGED <<server, hasty>>

\* The view the preferences ask for: the address of the request counts more
\* than what is stored.
Preferred(c) == IF c.view # NoView THEN c.view ELSE storedView

BugCapturedView(c) ==
    {IF c.view # NoView THEN selectedSavedView ELSE Kept(Preferred(c), savedViews.views)}
        \cup (IF CanFail THEN {selectedSavedView} ELSE {})

\* applyPreferredSavedView; a failed read applies nothing.
AfterPreferences(c) ==
    {IF route.view # NoView THEN selectedSavedView ELSE Kept(Preferred(c), savedViews.views)}
        \cup (IF CanFail THEN {selectedSavedView} ELSE {})

BugShowAnyway(v, c) ==
    /\ selectedSavedView' = v
    /\ chains' = chains \ {c}
    /\ LoadFlows(route, 1, FALSE)
    /\ UNCHANGED <<route, started, flows, hasNewEntries, autoLoadsNewEntries, misled>>

\* normalizeRouteViewQuery: correct the address, or read the list.
NormalizeOrLoad(v, c) ==
    IF v # route.view
    THEN HandleRouteChange([route EXCEPT !.view = v], {c}) /\ NoListStep
    ELSE /\ selectedSavedView' = v
         /\ chains' = chains \ {c}
         /\ LoadFlows(route, 1, FALSE)
         /\ UNCHANGED <<route, started, flows, hasNewEntries, autoLoadsNewEntries, misled>>

PreferencesAnswered(c) ==
    /\ c.stage = "preferences"
    /\ \E v \in AfterPreferences(c) : NormalizeOrLoad(v, c)
    /\ UNCHANGED <<savedViews, puts, server, hasty>>

\* saveCurrentView, manageCurrentView: the dialog is gone while they post.
PostView(kind, v) ==
    /\ started \in 1..(MaxChains - 1) /\ Acts
    /\ started' = started + 1
    /\ chains' = chains \cup {Chain(kind, "posting", [route EXCEPT !.view = v])}
    /\ NoListStep
    /\ UNCHANGED <<route, selectedSavedView, savedViews, puts, page, server, misled>>

Taken == UNION {viewsOf[b] : b \in Buckets} \cup {c.view : c \in chains}

SaveCurrentView(v) == v \notin Taken /\ PostView("save", v)

DeleteView == selectedSavedView \in savedViews.views /\ PostView("delete", selectedSavedView)

UpdateView == selectedSavedView \in savedViews.views /\ PostView("update", selectedSavedView)

\* The server does it and answers; loadSavedViews begins.
ViewPosted(c) ==
    /\ c.stage = "posting"
    /\ viewsOf' = CASE c.kind = "save" -> [viewsOf EXCEPT ![c.bucket] = @ \cup {c.view}]
                  [] c.kind = "delete" -> [b \in Buckets |-> viewsOf[b] \ {c.view}]
                  [] OTHER -> viewsOf
    /\ chains' = (chains \ {c}) \cup {[c EXCEPT !.stage = "views", !.bucket = route.bucket]}
    /\ selectedSavedView' = route.view /\ misled' = FALSE
    /\ NoListStep
    /\ UNCHANGED <<route, savedViews, started, puts, page, service, storedView, runs, hasty>>

\* The save is refused: an error is shown.
PostFails(c) ==
    /\ c.stage = "posting"
    /\ chains' = chains \ {c}
    /\ NoListStep
    /\ UNCHANGED <<route, selectedSavedView, savedViews, started, puts, page, server, hasty,
                   misled>>

\* Preferences are stored in the order they reach the server.
PreferenceStored(p) ==
    /\ puts' = puts \ {p}
    /\ storedView' \in {p.view} \cup (IF CanFail THEN {storedView} ELSE {})
    /\ UNCHANGED <<route, selectedSavedView, savedViews, chains, started, listing,
                   autoLoadsNewEntries, service, viewsOf, runs, hasty, misled>>
-----------------------------------------------------------------------------
\* Runs enter and leave a bucket.
RunEnters(b, r) ==
    /\ \A c \in Buckets : \A s \in runs[c] : s < r
    /\ runs' = [runs EXCEPT ![b] = @ \cup {r}]
    /\ UNCHANGED <<following, listing, autoLoadsNewEntries, service, viewsOf, storedView, hasty>>

RunLeaves(b, r) ==
    /\ r \in runs[b]
    /\ runs' = [runs EXCEPT ![b] = @ \ {r}]
    /\ UNCHANGED <<following, listing, autoLoadsNewEntries, service, viewsOf, storedView, hasty>>

Operator ==
    \/ \E r \in Routes : Navigate(r)
    \/ \E v \in Views \cup {NoView} : ChooseView(v)
    \/ \E v \in Views : SaveCurrentView(v)
    \/ DeleteView
    \/ UpdateView
    \/ Previous
    \/ NextPage
    \/ Retry
    \/ LoadNewEntries
    \/ AutoLoadNewEntries

ListNext ==
    \/ Mount
    \/ Operator
    \/ Tick
    \/ \E q \in reads : SettleList(q)
    \/ \E c \in chains :
          ViewsAnswered(c) \/ PreferencesAnswered(c) \/ ViewPosted(c) \/ PostFails(c)
    \/ \E p \in puts : PreferenceStored(p)
    \/ \E b \in Buckets, r \in Runs : RunEnters(b, r) \/ RunLeaves(b, r)

ListSafeSpec == ListInit /\ [][ListNext]_listVars

\* The browser gives every read up after its time limit.
ListFairness == \A n \in 1..MaxReads : WF_listVars(\E q \in reads : q.id = n /\ SettleList(q))

ListSpec == ListSafeSpec /\ ListFairness
-----------------------------------------------------------------------------
\* The screen waits for the list exactly while its newest read is in flight,
\* so the timer neither overlaps a read nor stops for good.
PendingIsOwned == listRequestPending <=> \E q \in reads : q.id = listRequest

\* Once everything asked for is answered, the rows and the page are those of
\* the address, however the chains of several route changes overlapped.
ListMatchesAddress ==
    Settled /\ started > 0 /\ ~listLoadError => flows.route = route /\ flows.page = page

\* ... and the selector shows the view of the address, or it has no views after
\* a failed read of them.  Only for an operator who waits: the views read after
\* a dialog may answer for another address.
SelectorMatchesAddress ==
    Settled /\ started > 0 /\ ~hasty =>
        \/ selectedSavedView = route.view
        \/ CanFail /\ savedViews.views = {}

\* What is on the screen is what its address says: the rows, and the view that
\* is said to have selected them.
ScreenMatchesAddress == ListMatchesAddress /\ SelectorMatchesAddress

\* A step by which the screen itself corrects the address takes no view out of
\* it that the bucket has.
CorrectsToKnown ==
    \A c \in chains :
        c.kind = "route" /\ c \notin chains' /\ started' > started =>
            (route.view \in viewsOf[route.bucket] => route'.view = route.view)

\* The screen removes a view from the address only when the bucket has no such
\* view, however the chains of several route changes overlap and whichever of
\* their reads fail: unless the selector was checked against views without it,
\* those of a bucket that was left or of a failed read, since it took it up.
LinkedViewKept == [][~misled => CorrectsToKnown]_listVars

\* "No flows in this collection yet" is only said of an empty collection.
\* In embedded mode it is also said of an empty page past the end.
EmptyMeansNone ==
    service /\ ready /\ ~listRequestPending /\ ~listLoadError /\ flows.first = 0 => flows.matching = 0

\* What the list says of itself is so: that it waits, and that it is empty.
ListTellsItsState == PendingIsOwned /\ EmptyMeansNone

\* Each read of the list ends, unless a newer one is issued first.
ListSettles ==
    \A n \in 1..MaxReads :
        listRequest = n /\ listRequestPending ~> listRequest > n \/ ~listRequestPending

\* The list reads as LatestRead promises.
Latest == INSTANCE LatestRead WITH
    issued <- listRequest,
    inFlight <- {q.id : q \in reads},
    shown <- flows.read

\* Every step of the list screen is a step LatestRead allows.
ImplementsLatestRead == Latest!SafeSpec
=============================================================================
