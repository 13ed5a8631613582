--------------------------- MODULE DashboardView ----------------------------
(***************************************************************************)
(* The dashboard, resources/js/screens/dashboard.vue: reading the figures, *)
(* the refresh timer, and the choice of a workflow classification.         *)
(*                                                                         *)
(* Every visit mounts a component of its own.  Leaving clears the timer;   *)
(* promises the component still waits for run on and may set it again, so  *)
(* the components of earlier visits are part of the state: their newest    *)
(* read and their timer, what they would display being left out.           *)
(***************************************************************************)
EXTENDS AppShell

CONSTANTS
    Scopes,         \* workflow classifications
    All,            \* the dashboard of all workflow types
    MaxVisits,      \* bound: visits to the dashboard
    MaxStatsReads   \* bound: reads of one visit in flight at once

ASSUME DashboardAssumption ==
    /\ All \notin Scopes
    /\ MaxVisits \in Nat
    /\ MaxStatsReads \in Nat \ {0}

VARIABLES
    dashboards,     \* the component of each visit
    visits,         \* visits so far; the last one's component is mounted on the dashboard
    filtering       \* the backend can filter by classification

dashboardVars == <<dashboards, visits, filtering>>
dashboardScreen == <<address, autoLoadsNewEntries, dashboardVars>>

Visits == 1..MaxVisits
ReadIds == 1..MaxStatsReads
\* stats is the classification the figures on display are about.
NoDashboard ==
    [statsRequest |-> 0, reads |-> {}, timeout |-> FALSE, ready |-> FALSE,
     loadingError |-> FALSE, stats |-> All, selectedClassification |-> All,
     left |-> "no"]

Mounted(v) == On("dashboard") /\ v = visits
-----------------------------------------------------------------------------
(***************************************************************************)
(* Reading.  A request number is only ever compared for equality with the  *)
(* newest one, so numbers no read in flight carries are used again.        *)
(***************************************************************************)
Free(d) == {n \in ReadIds : n # d.statsRequest /\ \A q \in d.reads : q.id # n}

Newest(d) == {q \in d.reads : q.id = d.statsRequest}

\* loadStats, with request number n.
LoadStats(d, n) ==
    [d EXCEPT !.statsRequest = n,
              !.reads = @ \cup {[id |-> n, scope |-> d.selectedClassification]}]

RefreshStatsPeriodically(d, n) == LoadStats([d EXCEPT !.timeout = FALSE], n)

RefreshNow(d, n) == RefreshStatsPeriodically([d EXCEPT !.ready = FALSE], n)

BugAnyRead(d, q) == TRUE

IsNewest(d, q) == q.id = d.statsRequest

\* The switch is read when the answer arrives.
BugPollsOnce(d, q) ==
    [d EXCEPT !.stats = q.scope, !.loadingError = FALSE, !.ready = TRUE]

Applied(d, q) ==
    [d EXCEPT !.stats = q.scope,
              !.loadingError = FALSE, !.ready = TRUE,
              !.timeout = autoLoadsNewEntries]

Answered(d, q) ==
    LET settled == [d EXCEPT !.reads = @ \ {q}]
    IN  IF IsNewest(d, q) THEN Applied(settled, q) ELSE settled

\* A failed refresh takes the dashboard down, and no timer is set.
Failed(d, q) ==
    LET settled == [d EXCEPT !.reads = @ \ {q}]
    IN  IF IsNewest(d, q)
        THEN [settled EXCEPT !.ready = FALSE, !.loadingError = TRUE]
        ELSE settled
-----------------------------------------------------------------------------
DashboardInit ==
    /\ dashboards = [v \in Visits |-> NoDashboard]
    /\ visits = 0
    /\ filtering \in BOOLEAN

\* A component that was left displays nothing, and ignores superseded reads.
Kept(d) ==
    IF d.left = "no" THEN d
    ELSE [d EXCEPT !.reads = Newest(d), !.ready = FALSE, !.loadingError = FALSE,
                   !.stats = All]

Becomes(v, d) == dashboards' = [dashboards EXCEPT ![v] = Kept(d)]

\* The scope a query names.
ScopeOf(query) == IF query = NoQuery THEN All ELSE query

ScopeQuery(scope) == IF scope = All THEN NoQuery ELSE scope

Unmounted(d) ==
    [d EXCEPT !.timeout = FALSE,
              !.left = IF Newest(d) = {} THEN "quiet" ELSE "reading"]

\* The router mounts, unmounts or keeps the dashboard.  A kept one does not
\* look at the address again: a link to the bare dashboard leaves its
\* classification selected.
DashboardFollows(a) ==
    /\ UNCHANGED filtering
    /\ \/ /\ Arrives("dashboard", a)
          /\ visits < MaxVisits
          /\ visits' = visits + 1
          /\ LET d == [NoDashboard EXCEPT !.selectedClassification = ScopeOf(a.query)]
             IN  \E n \in Free(d) : Becomes(visits + 1, RefreshStatsPeriodically(d, n))
       \/ /\ Leaves("dashboard", a)
          /\ Becomes(visits, Unmounted(dashboards[visits]))
          /\ UNCHANGED visits
       \/ /\ address.screen # "dashboard" /\ a.screen # "dashboard"
          /\ UNCHANGED <<dashboards, visits>>
       \/ /\ Stays("dashboard", a)
          /\ UNCHANGED <<dashboards, visits>>

\* The timer of a component fires, mounted or not.
Tick(v) ==
    /\ dashboards[v].timeout
    /\ \E n \in Free(dashboards[v]) :
          Becomes(v, RefreshStatsPeriodically(dashboards[v], n))
    /\ UNCHANGED <<address, autoLoadsNewEntries, visits, filtering>>

\* A backend that cannot filter refuses a classification with 501.
StatsAnswered(v, q) ==
    /\ q \in dashboards[v].reads
    /\ q.scope = All \/ filtering
    /\ Becomes(v, Answered(dashboards[v], q))
    /\ UNCHANGED <<address, autoLoadsNewEntries, visits, filtering>>

StatsFailed(v, q) ==
    /\ q \in dashboards[v].reads
    /\ Becomes(v, Failed(dashboards[v], q))
    /\ UNCHANGED <<address, autoLoadsNewEntries, visits, filtering>>

\* Refresh, or Retry: there is no button while the first read is awaited.
RefreshButton(v) ==
    /\ Mounted(v)
    /\ dashboards[v].ready \/ dashboards[v].loadingError
    /\ \E n \in Free(dashboards[v]) : Becomes(v, RefreshNow(dashboards[v], n))
    /\ UNCHANGED <<address, autoLoadsNewEntries, visits, filtering>>

\* changeClassification: read anew, with nothing on display meanwhile.
SelectScope(v, scope) ==
    LET d == [dashboards[v] EXCEPT !.selectedClassification = scope]
    IN  \E n \in Free(d) : Becomes(v, RefreshNow(d, n))

\* The selector is disabled unless the figures on display say it is available.
ChangeClassification(v, scope) ==
    /\ Mounted(v)
    /\ dashboards[v].ready /\ filtering
    /\ scope # dashboards[v].selectedClassification
    /\ SelectScope(v, scope)
    /\ address' = [address EXCEPT !.query = ScopeQuery(scope)]
    /\ UNCHANGED <<autoLoadsNewEntries, visits, filtering>>

\* "Show all workflow types", offered where the figures could not be read.
ClearClassification(v) ==
    /\ Mounted(v)
    /\ dashboards[v].loadingError
    /\ dashboards[v].selectedClassification # All
    /\ SelectScope(v, All)
    /\ address' = [address EXCEPT !.query = NoQuery]
    /\ UNCHANGED <<autoLoadsNewEntries, visits, filtering>>

DashboardStep ==
    \/ \E v \in Visits : Tick(v) \/ RefreshButton(v) \/ ClearClassification(v)
    \/ \E v \in Visits, scope \in Scopes \cup {All} : ChangeClassification(v, scope)
    \/ \E v \in Visits : \E q \in dashboards[v].reads : StatsAnswered(v, q) \/ StatsFailed(v, q)
-----------------------------------------------------------------------------
\* Addresses of the dashboard, and bare ones of the other screens.
DashboardAddresses ==
    [screen : {"dashboard"}, query : Scopes \cup {NoQuery}]
        \cup [screen : Screens \ {"dashboard"}, query : {NoQuery}]

\* The browser's timers fire, and it gives up on a read after its budget.
DashboardFairness ==
    \A v \in Visits :
        /\ WF_dashboardScreen(Tick(v))
        /\ \A n \in ReadIds :
              WF_dashboardScreen(\E q \in dashboards[v].reads :
                         q.id = n /\ (StatsAnswered(v, q) \/ StatsFailed(v, q)))

\* The figures on display are those of the classification the selector shows,
\* also while a refresh of the previous choice is still under way; the timer
\* runs only while nothing is awaited; and a dashboard that was left with
\* nothing awaited never reads again.
FiguresOfSelection ==
    \A v \in Visits :
       LET d == dashboards[v]
       IN  /\ d.ready => d.stats = d.selectedClassification
           /\ d.timeout => Newest(d) = {} /\ (Mounted(v) => d.ready)
           /\ d.left = "quiet" => ~d.timeout /\ Newest(d) = {}

\* While the switch stays on, a dashboard with figures on display is read again
\* and again until a read fails or the screen is left; once it stays off, all
\* reading by timer ends, also that of dashboards that were left.
PollingFollowsSwitch ==
    /\ []autoLoadsNewEntries =>
          \A v \in Visits :
             (Mounted(v) /\ dashboards[v].ready)
                ~> (Newest(dashboards[v]) # {} \/ ~dashboards[v].ready \/ ~Mounted(v))
    /\ <>[]~autoLoadsNewEntries => <>[](\A v \in Visits : ~dashboards[v].timeout)
=============================================================================
