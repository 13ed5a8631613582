--------------------------- MODULE ConsoleProofs ----------------------------
(***************************************************************************)
(* For any classifications, links and filters, any number of visits and of *)
(* reads in flight: the figures of the dashboard are those of the          *)
(* classification selected, a dashboard that was left with nothing awaited *)
(* never reads again, and the catalog's controls, address and newest read  *)
(* tell one choice.  And what dashboard and workers screen make of an      *)
(* answer, for any answer.                                                 *)
(***************************************************************************)
EXTENDS MCConsole, SequenceTheorems, FiniteSetTheorems, TLAPS

AllScopes == Scopes \cup {All}

Places == [screen : Screens, query : Scopes \cup {NoQuery} \cup CatalogQueries]

Components ==
    [statsRequest : Nat, reads : SUBSET [id : ReadIds, scope : AllScopes],
     timeout : BOOLEAN, ready : BOOLEAN, loadingError : BOOLEAN,
     stats : AllScopes, selectedClassification : AllScopes,
     left : {"no", "quiet", "reading"}]

\* Numbers are used again, but never while a read carries them.
Distinct(d) == \A q, r \in d.reads : q.id = r.id => q = r

\* The newest read asks for the classification selected.
AsksForSelection(d) ==
    \A q \in d.reads : q.id = d.statsRequest => q.scope = d.selectedClassification

Good(d) ==
    /\ d \in Components
    /\ Distinct(d)
    /\ AsksForSelection(d)
    /\ d.ready => d.stats = d.selectedClassification
    /\ d.timeout => Newest(d) = {} /\ (d.left = "no" => d.ready)
    /\ d.left = "quiet" => ~d.timeout /\ Newest(d) = {}

MountedOne ==
    /\ visits \in 0..MaxVisits
    /\ On("dashboard") => visits \in Visits /\ dashboards[visits].left = "no"

ViewInv ==
    /\ address \in Places
    /\ autoLoadsNewEntries \in BOOLEAN
    /\ dashboards \in [Visits -> Components]
    /\ \A v \in Visits : Good(dashboards[v])
    /\ MountedOne
-----------------------------------------------------------------------------
(***************************************************************************)
(* What each operation makes of one component.                             *)
(***************************************************************************)
LEMMA LoadIsGood ==
    ASSUME NEW d \in Components, Distinct(d), d.left # "quiet", NEW n \in Free(d),
           d.ready => d.stats = d.selectedClassification
    PROVE  /\ Good(RefreshStatsPeriodically(d, n))
           /\ RefreshStatsPeriodically(d, n).left = d.left
<1>. DEFINE e == RefreshStatsPeriodically(d, n)
            new == [id |-> n, scope |-> d.selectedClassification]
<1>1. n \in ReadIds /\ n \in Nat /\ n # d.statsRequest /\ \A q \in d.reads : q.id # n
  BY DashboardAssumption DEF Free, ReadIds
<1>2. /\ e.reads = d.reads \cup {new} /\ e.statsRequest = n
      /\ e.timeout = FALSE /\ e.ready = d.ready /\ e.stats = d.stats
      /\ e.selectedClassification = d.selectedClassification /\ e.left = d.left
  BY DEF RefreshStatsPeriodically, LoadStats, Components
<1>3. e \in Components
  <2>1. new \in [id : ReadIds, scope : AllScopes]
    BY <1>1 DEF Components
  <2>2. d.reads \cup {new} \in SUBSET [id : ReadIds, scope : AllScopes]
    BY <2>1 DEF Components
  <2>3. e = [d EXCEPT !.timeout = FALSE, !.statsRequest = n, !.reads = d.reads \cup {new}]
    BY DEF RefreshStatsPeriodically, LoadStats, Components
  <2>. HIDE DEF e, new
  <2>. QED
    BY <1>1, <2>2, <2>3 DEF Components
<1>4. Distinct(e) /\ AsksForSelection(e)
  BY <1>1, <1>2 DEF Distinct, AsksForSelection
<1>. QED
  BY <1>2, <1>3, <1>4 DEF Good

LEMMA RefreshIsGood ==
    ASSUME NEW d \in Components, Distinct(d), d.left # "quiet", NEW n \in Free(d)
    PROVE  Good(RefreshNow(d, n)) /\ RefreshNow(d, n).left = d.left
<1>. DEFINE e == [d EXCEPT !.ready = FALSE]
<1>1. /\ e \in Components /\ e.ready = FALSE /\ e.left = d.left
      /\ e.reads = d.reads /\ e.statsRequest = d.statsRequest
  BY DEF Components
<1>2. Distinct(e) /\ n \in Free(e)
  BY <1>1 DEF Distinct, Free
<1>3. RefreshNow(d, n) = RefreshStatsPeriodically(e, n)
  BY DEF RefreshNow
<1>. HIDE DEF e
<1>. QED
  BY <1>1, <1>2, <1>3, LoadIsGood

LEMMA KeptIsGood ==
    ASSUME NEW d, Good(d)
    PROVE  Good(Kept(d)) /\ Kept(d).left = d.left
<1>1. CASE d.left = "no"
  BY <1>1 DEF Kept
<1>2. CASE d.left # "no"
  <2>. DEFINE e == Kept(d)
  <2>1. e = [d EXCEPT !.reads = Newest(d), !.ready = FALSE, !.loadingError = FALSE,
                      !.stats = All]
    BY <1>2 DEF Kept
  <2>2. d \in Components /\ Newest(d) \subseteq d.reads
    BY DEF Good, Newest
  <2>3. /\ e.reads = Newest(d) /\ e.ready = FALSE /\ e.timeout = d.timeout
        /\ e.left = d.left /\ e.statsRequest = d.statsRequest
        /\ e.selectedClassification = d.selectedClassification
    BY <2>1, <2>2 DEF Components
  <2>4. e \in Components
    BY <2>1, <2>2 DEF Components, AllScopes
  <2>5. Newest(e) = Newest(d)
    BY <2>3 DEF Newest
  <2>6. Distinct(e) /\ AsksForSelection(e)
    BY <2>2, <2>3 DEF Good, Distinct, AsksForSelection
  <2>. QED
    BY <1>2, <2>3, <2>4, <2>5, <2>6 DEF Good
<1>. QED
  BY <1>1, <1>2

\* A read that settles is no longer awaited; the newest had its number alone.
LEMMA SettledIsGood ==
    ASSUME NEW d, Good(d), NEW q \in d.reads
    PROVE  LET e == [d EXCEPT !.reads = @ \ {q}]
           IN  /\ Good(e) /\ e.left = d.left
               /\ IsNewest(d, q) =>
                     /\ Newest(e) = {} /\ d.left # "quiet"
                     /\ e.timeout = FALSE /\ q.scope = d.selectedClassification
<1>. DEFINE e == [d EXCEPT !.reads = @ \ {q}]
<1>1. /\ e.reads = d.reads \ {q} /\ e.statsRequest = d.statsRequest
      /\ e.timeout = d.timeout /\ e.ready = d.ready /\ e.stats = d.stats
      /\ e.selectedClassification = d.selectedClassification /\ e.left = d.left
      /\ e \in Components /\ d \in Components
  BY DEF Good, Components
<1>2. Newest(e) \subseteq Newest(d)
  BY <1>1 DEF Newest
<1>3. Distinct(e) /\ AsksForSelection(e)
  BY <1>1 DEF Good, Distinct, AsksForSelection
<1>4. Good(e)
  BY <1>1, <1>2, <1>3 DEF Good
<1>5. ASSUME IsNewest(d, q)
      PROVE  /\ Newest(e) = {} /\ d.left # "quiet"
             /\ e.timeout = FALSE /\ q.scope = d.selectedClassification
  <2>1. q \in Newest(d)
    BY <1>5 DEF IsNewest, Newest
  <2>2. Newest(e) = {}
    BY <1>1, <1>5 DEF Good, Distinct, Newest, IsNewest
  <2>3. d.timeout = FALSE /\ d.left # "quiet"
    BY <1>1, <2>1 DEF Good, Components
  <2>4. q.scope = d.selectedClassification
    BY <1>5 DEF Good, AsksForSelection, IsNewest
  <2>. QED
    BY <1>1, <2>2, <2>3, <2>4
<1>. QED
  BY <1>1, <1>4, <1>5

LEMMA AnsweredIsGood ==
    ASSUME NEW d, Good(d), NEW q \in d.reads, autoLoadsNewEntries \in BOOLEAN
    PROVE  Good(Answered(d, q)) /\ Answered(d, q).left = d.left
<1>. DEFINE e == [d EXCEPT !.reads = @ \ {q}]
            f == Applied(e, q)
<1>1. /\ Good(e) /\ e.left = d.left
      /\ IsNewest(d, q) => /\ Newest(e) = {} /\ d.left # "quiet"
                           /\ e.timeout = FALSE /\ q.scope = d.selectedClassification
  BY SettledIsGood
<1>2. CASE ~IsNewest(d, q)
  BY <1>1, <1>2 DEF Answered
<1>3. CASE IsNewest(d, q)
  <2>1. Answered(d, q) = f
    BY <1>3 DEF Answered
  <2>2. q.scope = e.selectedClassification /\ q.scope \in AllScopes /\ e \in Components
    BY <1>1, <1>3 DEF Good, Components
  <2>. HIDE DEF e
  <2>3. /\ f.reads = e.reads /\ f.statsRequest = e.statsRequest
        /\ f.ready = TRUE /\ f.stats = q.scope /\ f.left = e.left
        /\ f.selectedClassification = e.selectedClassification
        /\ f \in Components
    BY <2>2 DEF Applied, Components
  <2>4. Newest(f) = {} /\ Distinct(f) /\ AsksForSelection(f)
    BY <1>1, <1>3, <2>3 DEF Good, Newest, Distinct, AsksForSelection
  <2>5. Good(f)
    BY <1>1, <1>3, <2>2, <2>3, <2>4 DEF Good
  <2>. QED
    BY <1>1, <2>1, <2>3, <2>5
<1>. QED
  BY <1>2, <1>3

LEMMA FailedIsGood ==
    ASSUME NEW d, Good(d), NEW q \in d.reads
    PROVE  Good(Failed(d, q)) /\ Failed(d, q).left = d.left
<1>. DEFINE e == [d EXCEPT !.reads = @ \ {q}]
            f == [e EXCEPT !.ready = FALSE, !.loadingError = TRUE]
<1>1. /\ Good(e) /\ e.left = d.left
      /\ IsNewest(d, q) => e.timeout = FALSE
  BY SettledIsGood
<1>2. CASE ~IsNewest(d, q)
  BY <1>1, <1>2 DEF Failed
<1>3. CASE IsNewest(d, q)
  <2>1. Failed(d, q) = f
    BY <1>3 DEF Failed
  <2>2. e \in Components
    BY <1>1 DEF Good
  <2>. HIDE DEF e
  <2>3. /\ f.reads = e.reads /\ f.statsRequest = e.statsRequest
        /\ f.ready = FALSE /\ f.timeout = e.timeout /\ f.left = e.left
        /\ f.selectedClassification = e.selectedClassification
        /\ f \in Components
    BY <2>2 DEF Components
  <2>4. Newest(f) = Newest(e) /\ Distinct(f) /\ AsksForSelection(f)
    BY <1>1, <2>3 DEF Good, Newest, Distinct, AsksForSelection
  <2>5. Good(f)
    BY <1>1, <1>3, <2>3, <2>4 DEF Good
  <2>. QED
    BY <1>1, <2>1, <2>3, <2>5
<1>. QED
  BY <1>2, <1>3

LEMMA UnmountedIsGood ==
    ASSUME NEW d, Good(d)
    PROVE  Good(Unmounted(d))
<1>. DEFINE e == Unmounted(d)
<1>1. /\ e.reads = d.reads /\ e.statsRequest = d.statsRequest
      /\ e.timeout = FALSE /\ e.ready = d.ready /\ e.stats = d.stats
      /\ e.selectedClassification = d.selectedClassification
      /\ e.left = "quiet" => Newest(d) = {}
      /\ e \in Components
  BY DEF Unmounted, Good, Components
<1>2. Newest(e) = Newest(d) /\ Distinct(e) /\ AsksForSelection(e)
  BY <1>1 DEF Good, Newest, Distinct, AsksForSelection
<1>. QED
  BY <1>1, <1>2 DEF Good
-----------------------------------------------------------------------------
(***************************************************************************)
(* What each step makes of the screen.                                     *)
(***************************************************************************)
LEMMA InitEstablishes == AppInit /\ DashboardInit => ViewInv
<1>. SUFFICES ASSUME AppInit, DashboardInit PROVE ViewInv
  OBVIOUS
<1>1. Good(NoDashboard) /\ NoDashboard \in Components
  BY DEF Good, NoDashboard, Components, AllScopes, Distinct, AsksForSelection, Newest
<1>2. \A v \in Visits : dashboards[v] = NoDashboard
  BY DEF DashboardInit
<1>3. dashboards \in [Visits -> Components]
  BY <1>1 DEF DashboardInit
<1>4. MountedOne
  BY DashboardAssumption DEF AppInit, DashboardInit, MountedOne, On
<1>. QED
  BY <1>1, <1>2, <1>3, <1>4 DEF AppInit, ViewInv, Places, Screens

\* The component of one visit becomes d; the others are left alone.
LEMMA BecomesKeeps ==
    ASSUME ViewInv, NEW v \in Visits, NEW d, Good(d), Becomes(v, d)
    PROVE  /\ dashboards' \in [Visits -> Components]
           /\ \A w \in Visits : Good(dashboards'[w])
           /\ dashboards'[v].left = d.left
           /\ \A w \in Visits \ {v} : dashboards'[w] = dashboards[w]
<1>1. Good(Kept(d)) /\ Kept(d).left = d.left
  BY KeptIsGood
<1>2. dashboards' = [dashboards EXCEPT ![v] = Kept(d)] /\ dashboards \in [Visits -> Components]
  BY DEF Becomes, ViewInv
<1>3. Kept(d) \in Components
  BY <1>1 DEF Good
<1>. QED
  BY <1>1, <1>2, <1>3 DEF ViewInv

\* A step of one component that goes on being left, or not.
LEMMA ComponentKeeps ==
    ASSUME ViewInv, NEW v \in Visits, NEW d, Good(d), d.left = dashboards[v].left,
           Becomes(v, d), address' \in Places, address'.screen = address.screen,
           UNCHANGED <<autoLoadsNewEntries, visits>>
    PROVE  ViewInv'
<1>1. /\ dashboards' \in [Visits -> Components]
      /\ \A w \in Visits : Good(dashboards'[w])
      /\ \A w \in Visits : dashboards'[w].left = dashboards[w].left
  BY BecomesKeeps
<1>2. MountedOne'
  BY <1>1 DEF ViewInv, MountedOne, On
<1>. QED
  BY <1>1, <1>2 DEF ViewInv, Visits, Good, Components, Distinct, AsksForSelection, Newest

LEMMA MountedIsNotLeft ==
    ASSUME ViewInv, NEW v \in Visits, Mounted(v)
    PROVE  /\ dashboards[v].left = "no" /\ address.screen = "dashboard"
           /\ dashboards[v] \in Components /\ Distinct(dashboards[v])
  BY DEF ViewInv, Mounted, MountedOne, On, Good

LEMMA SelectKeeps ==
    ASSUME ViewInv, NEW v \in Visits, Mounted(v), NEW scope \in AllScopes,
           SelectScope(v, scope), address' = [address EXCEPT !.query = ScopeQuery(scope)],
           UNCHANGED <<autoLoadsNewEntries, visits>>
    PROVE  ViewInv'
<1>. DEFINE d == [dashboards[v] EXCEPT !.selectedClassification = scope]
<1>1. /\ dashboards[v].left = "no" /\ dashboards[v] \in Components
      /\ Distinct(dashboards[v])
  BY MountedIsNotLeft
<1>2. d \in Components /\ Distinct(d) /\ d.left = "no"
  BY <1>1 DEF Components, Distinct
<1>3. PICK n \in Free(d) : Becomes(v, RefreshNow(d, n))
  BY DEF SelectScope
<1>. HIDE DEF d
<1>4. Good(RefreshNow(d, n)) /\ RefreshNow(d, n).left = "no"
  BY <1>2, RefreshIsGood
<1>5. address' \in Places /\ address'.screen = address.screen
  BY DEF ViewInv, Places, ScopeQuery, AllScopes
<1>. QED
  BY <1>1, <1>3, <1>4, <1>5, ComponentKeeps

LEMMA StepKeeps == ASSUME ViewInv, DashboardStep PROVE ViewInv'
<1>1. address \in Places
  BY DEF ViewInv
<1>2. ASSUME NEW v \in Visits, Tick(v) PROVE ViewInv'
  <2>1. PICK n \in Free(dashboards[v]) :
           Becomes(v, RefreshStatsPeriodically(dashboards[v], n))
    BY <1>2 DEF Tick
  <2>2. /\ dashboards[v] \in Components /\ Distinct(dashboards[v])
        /\ dashboards[v].left # "quiet"
        /\ dashboards[v].ready => dashboards[v].stats = dashboards[v].selectedClassification
    BY <1>2 DEF ViewInv, Good, Tick
  <2>. QED
    BY <1>1, <1>2, <2>1, <2>2, LoadIsGood, ComponentKeeps DEF Tick
<1>3. ASSUME NEW v \in Visits, RefreshButton(v) PROVE ViewInv'
  <2>1. PICK n \in Free(dashboards[v]) : Becomes(v, RefreshNow(dashboards[v], n))
    BY <1>3 DEF RefreshButton
  <2>2. /\ dashboards[v] \in Components /\ Distinct(dashboards[v])
        /\ dashboards[v].left # "quiet"
    BY <1>3, MountedIsNotLeft DEF RefreshButton
  <2>. QED
    BY <1>1, <1>3, <2>1, <2>2, RefreshIsGood, ComponentKeeps DEF RefreshButton
<1>4. ASSUME NEW v \in Visits, ClearClassification(v) PROVE ViewInv'
  <2>1. address' = [address EXCEPT !.query = ScopeQuery(All)] /\ All \in AllScopes
    BY <1>4 DEF ClearClassification, ScopeQuery, AllScopes
  <2>. QED
    BY <1>4, <2>1, SelectKeeps DEF ClearClassification
<1>5. ASSUME NEW v \in Visits, NEW scope \in AllScopes, ChangeClassification(v, scope)
      PROVE  ViewInv'
  BY <1>5, SelectKeeps DEF ChangeClassification
<1>6. ASSUME NEW v \in Visits, NEW q \in dashboards[v].reads, StatsAnswered(v, q)
      PROVE  ViewInv'
  <2>1. Good(dashboards[v]) /\ autoLoadsNewEntries \in BOOLEAN
    BY DEF ViewInv
  <2>2. /\ Good(Answered(dashboards[v], q))
        /\ Answered(dashboards[v], q).left = dashboards[v].left
    BY <2>1, AnsweredIsGood
  <2>. QED
    BY <1>1, <1>6, <2>2, ComponentKeeps DEF StatsAnswered
<1>7. ASSUME NEW v \in Visits, NEW q \in dashboards[v].reads, StatsFailed(v, q)
      PROVE  ViewInv'
  <2>1. Good(dashboards[v])
    BY DEF ViewInv
  <2>2. /\ Good(Failed(dashboards[v], q))
        /\ Failed(dashboards[v], q).left = dashboards[v].left
    BY <2>1, FailedIsGood
  <2>. QED
    BY <1>1, <1>7, <2>2, ComponentKeeps DEF StatsFailed
<1>. QED
  BY <1>2, <1>3, <1>4, <1>5, <1>6, <1>7 DEF DashboardStep, AllScopes

LEMMA FollowsKeeps ==
    ASSUME ViewInv, NEW a \in Addresses, address' = a, DashboardFollows(a),
           UNCHANGED autoLoadsNewEntries
    PROVE  ViewInv'
<1>1. a \in Places /\ (a.screen = "dashboard" => ScopeOf(a.query) \in AllScopes)
  BY CatalogAssumption DEF Addresses, DashboardAddresses, CatalogAddresses, Places, Screens,
                           ScopeOf, AllScopes
<1>2. CASE Arrives("dashboard", a) /\ visits < MaxVisits /\ visits' = visits + 1
           /\ LET d == [NoDashboard EXCEPT !.selectedClassification = ScopeOf(a.query)]
              IN  \E n \in Free(d) : Becomes(visits + 1, RefreshStatsPeriodically(d, n))
  <2>. DEFINE d == [NoDashboard EXCEPT !.selectedClassification = ScopeOf(a.query)]
  <2>1. d \in Components /\ Distinct(d) /\ d.left = "no" /\ d.ready = FALSE
    BY <1>1, <1>2 DEF Arrives, NoDashboard, Components, AllScopes, Distinct
  <2>2. PICK n \in Free(d) : Becomes(visits + 1, RefreshStatsPeriodically(d, n))
    BY <1>2
  <2>. HIDE DEF d
  <2>3. /\ Good(RefreshStatsPeriodically(d, n))
        /\ RefreshStatsPeriodically(d, n).left = "no"
    BY <2>1, LoadIsGood
  <2>4. visits + 1 \in Visits /\ visits' = visits + 1
    BY <1>2, DashboardAssumption DEF ViewInv, MountedOne, Visits
  <2>5. /\ dashboards' \in [Visits -> Components]
        /\ \A w \in Visits : Good(dashboards'[w])
        /\ dashboards'[visits'].left = "no"
    BY <2>2, <2>3, <2>4, BecomesKeeps
  <2>6. MountedOne'
    BY <2>4, <2>5, DashboardAssumption DEF MountedOne, Visits
  <2>. QED
    BY <1>1, <2>5, <2>6 DEF ViewInv
<1>3. CASE /\ Leaves("dashboard", a)
           /\ Becomes(visits, Unmounted(dashboards[visits])) /\ UNCHANGED visits
  <2>1. visits \in Visits /\ Good(dashboards[visits])
    BY <1>3 DEF Leaves, ViewInv, MountedOne, On
  <2>2. Good(Unmounted(dashboards[visits]))
    BY <2>1, UnmountedIsGood
  <2>3. /\ dashboards' \in [Visits -> Components]
        /\ \A w \in Visits : Good(dashboards'[w])
    BY <1>3, <2>1, <2>2, BecomesKeeps
  <2>4. MountedOne'
    BY <1>3 DEF Leaves, ViewInv, MountedOne, On
  <2>. QED
    BY <1>1, <2>3, <2>4 DEF ViewInv
<1>4. CASE /\ UNCHANGED <<dashboards, visits>>
           /\ \/ address.screen # "dashboard" /\ a.screen # "dashboard"
              \/ Stays("dashboard", a)
  <2>1. MountedOne'
    BY <1>4 DEF Stays, ViewInv, MountedOne, On
  <2>. QED
    BY <1>1, <1>4, <2>1 DEF ViewInv
<1>. QED
  BY <1>2, <1>3, <1>4 DEF DashboardFollows
-----------------------------------------------------------------------------
(***************************************************************************)
(* The catalog: what the address says of the controls.                     *)
(***************************************************************************)
CallFilters ==
    [scope : CallScopes, status : Words, status_bucket : Words, outcome : Words,
     outcome_bucket : Words]

\* A specific choice and its bucket are never both made.
Single(f) ==
    /\ f.status # None => f.status_bucket = None
    /\ f.outcome # None => f.outcome_bucket = None

\* The settings of the controls.
Controls(c) ==
    /\ c \in [tab : Tabs, filters : CallFilters, page : Nat \ {0}]
    /\ Single(c.filters)

Lists ==
    [requested : [tab : Tabs, page : Nat, filters : CallFilters,
                  endpoint_id : Words, service_id : Words, operation_id : Words],
     awaited : BOOLEAN, superseded : Nat, loading : BOOLEAN, error : BOOLEAN,
     rows : {"none", "newest", "older"}, current_page : Nat, last_page : Nat]

\* The settings an address can tell: filters of another tab are forgotten.
Told(c) == IF c.tab = "calls" THEN c ELSE [c EXCEPT !.filters = NoFilters]

LEMMA ExclusiveIsSingle ==
    ASSUME NEW f \in CallFilters
    PROVE  Exclusive(f) \in CallFilters /\ Single(Exclusive(f))
<1>. DEFINE sb == IF f.status # None THEN None ELSE f.status_bucket
            ob == IF f.outcome # None THEN None ELSE f.outcome_bucket
<1>1. sb \in Words /\ ob \in Words
  BY CatalogAssumption DEF CallFilters
<1>2. Exclusive(f) = [f EXCEPT !.status_bucket = sb, !.outcome_bucket = ob]
  BY DEF Exclusive, CallFilters
<1>3. (f.status # None => sb = None) /\ (f.outcome # None => ob = None)
  OBVIOUS
<1>. HIDE DEF sb, ob
<1>4. Exclusive(f) \in CallFilters
  BY <1>1, <1>2 DEF CallFilters
<1>5. /\ Exclusive(f).status = f.status /\ Exclusive(f).outcome = f.outcome
      /\ Exclusive(f).status_bucket = sb /\ Exclusive(f).outcome_bucket = ob
  BY <1>2 DEF CallFilters
<1>. QED
  BY <1>3, <1>4, <1>5 DEF Single

LEMMA SingleIsExclusive ==
    ASSUME NEW f \in CallFilters, Single(f)
    PROVE  Exclusive(f) = f
  BY DEF CallFilters, Single, Exclusive

LEMMA NoFiltersTyped == NoFilters \in CallFilters /\ Single(NoFilters)
  BY CatalogAssumption DEF NoFilters, CallFilters, Single

LEMMA BareQueryTyped == BareQuery \in CatalogQueries
  BY CatalogAssumption DEF BareQuery, CatalogQueries

\* The filters routeState reads, before a specific choice hides its bucket.
FiltersOf(query) ==
    [scope          |-> IF query.scope \in CallScopes THEN query.scope ELSE "relevant",
     status         |-> query.status,
     status_bucket  |-> Otherwise(query.status_bucket, query.bucket),
     outcome        |-> query.outcome,
     outcome_bucket |-> query.outcome_bucket]

LEMMA RouteStateFields ==
    ASSUME NEW query \in CatalogQueries
    PROVE  /\ FiltersOf(query) \in CallFilters
           /\ RouteState(query) = [tab |-> IF query.tab \in Tabs THEN query.tab ELSE "calls",
                                   filters |-> Exclusive(FiltersOf(query)),
                                   page |-> IF query.page > 0 THEN query.page ELSE 1]
<1>1. FiltersOf(query) \in CallFilters
  BY CatalogAssumption DEF FiltersOf, CatalogQueries, CallFilters, Otherwise
<1>. QED
  BY <1>1 DEF RouteState, FiltersOf

\* Whatever a query says, the controls are set to something they can show.
LEMMA RouteStateTyped ==
    ASSUME NEW query \in CatalogQueries
    PROVE  Controls(RouteState(query))
<1>. DEFINE tab == IF query.tab \in Tabs THEN query.tab ELSE "calls"
            page == IF query.page > 0 THEN query.page ELSE 1
            f == Exclusive(FiltersOf(query))
<1>1. f \in CallFilters /\ Single(f)
  BY RouteStateFields, ExclusiveIsSingle
<1>2. tab \in Tabs
  BY DEF Tabs
<1>3. page \in Nat \ {0}
  BY DEF CatalogQueries
<1>4. RouteState(query) = [tab |-> tab, filters |-> f, page |-> page]
  BY RouteStateFields
<1>. HIDE DEF tab, page, f
<1>. QED
  BY <1>1, <1>2, <1>3, <1>4 DEF Controls

\* The query a control writes, key by key.
LEMMA SyncFields ==
    ASSUME NEW query \in CatalogQueries, NEW c, Controls(c)
    PROVE  LET calls == c.tab = "calls"
           IN  SyncRouteQuery(query, c) =
                  [tab |-> c.tab,
                   scope |-> IF calls THEN c.filters.scope ELSE None,
                   status |-> IF calls THEN c.filters.status ELSE None,
                   status_bucket |-> IF calls THEN c.filters.status_bucket ELSE None,
                   bucket |-> None,
                   outcome |-> IF calls THEN c.filters.outcome ELSE None,
                   outcome_bucket |-> IF calls THEN c.filters.outcome_bucket ELSE None,
                   endpoint_id |-> query.endpoint_id, service_id |-> query.service_id,
                   operation_id |-> query.operation_id,
                   page |-> IF c.page > 1 THEN c.page ELSE 0]
  BY DEF SyncRouteQuery

LEMMA SyncTyped ==
    ASSUME NEW query \in CatalogQueries, NEW c, Controls(c)
    PROVE  SyncRouteQuery(query, c) \in CatalogQueries
<1>1. /\ c.tab \in Words /\ c.filters \in CallFilters /\ c.page \in Nat
      /\ c.filters.scope \in Words
  BY CatalogAssumption DEF Controls, CallFilters
<1>. QED
  BY <1>1, SyncFields, CatalogAssumption DEF CatalogQueries, CallFilters

\* The address keeps what the controls say: reading the written query again
\* sets the controls as they were, but for the filters of calls on other tabs.
LEMMA RoundTrip ==
    ASSUME NEW query \in CatalogQueries, NEW c, Controls(c)
    PROVE  RouteState(SyncRouteQuery(query, c)) = Told(c)
<1>. DEFINE q == SyncRouteQuery(query, c)
<1>1. q \in CatalogQueries
  BY SyncTyped
<1>2. c.tab \in Tabs /\ c.page \in Nat \ {0} /\ c.filters \in CallFilters /\ Single(c.filters)
      /\ c = [tab |-> c.tab, filters |-> c.filters, page |-> c.page]
  BY DEF Controls
<1>3. q.tab = c.tab /\ (IF q.page > 0 THEN q.page ELSE 1) = c.page
  BY <1>2, SyncFields
<1>4. FiltersOf(q) = Told(c).filters
  <2>1. CASE c.tab = "calls"
    <3>1. /\ q.scope = c.filters.scope /\ q.status = c.filters.status
          /\ q.status_bucket = c.filters.status_bucket /\ q.bucket = None
          /\ q.outcome = c.filters.outcome /\ q.outcome_bucket = c.filters.outcome_bucket
      BY <2>1, SyncFields
    <3>. HIDE DEF q
    <3>. QED
      BY <1>2, <2>1, <3>1 DEF FiltersOf, Told, Otherwise, CallFilters
  <2>2. CASE c.tab # "calls"
    <3>1. /\ q.scope = None /\ q.status = None /\ q.status_bucket = None /\ q.bucket = None
          /\ q.outcome = None /\ q.outcome_bucket = None
      BY <2>2, SyncFields
    <3>. HIDE DEF q
    <3>2. None \notin CallScopes
      BY CatalogAssumption
    <3>3. FiltersOf(q) = NoFilters
      BY <3>1, <3>2 DEF FiltersOf, Otherwise, NoFilters
    <3>. QED
      BY <1>2, <2>2, <3>3 DEF Told
  <2>. QED
    BY <2>1, <2>2
<1>5. Exclusive(Told(c).filters) = Told(c).filters
  BY <1>2, NoFiltersTyped, SingleIsExclusive DEF Told
<1>6. RouteState(q) = [tab |-> c.tab, filters |-> Told(c).filters, page |-> c.page]
  <2>. HIDE DEF q
  <2>. QED
    BY <1>1, <1>2, <1>3, <1>4, <1>5, RouteStateFields
<1>. QED
  BY <1>2, <1>6 DEF Told
-----------------------------------------------------------------------------
(***************************************************************************)
(* The catalog: what each step leaves in the address, the controls and the *)
(* list.                                                                   *)
(***************************************************************************)
CatalogInv ==
    /\ Controls(catalog)
    /\ list \in Lists
    /\ On("services") => address.query \in CatalogQueries \cup {NoQuery}
    /\ CatalogAnswersChoice

Requests ==
    [tab : Tabs, page : Nat, filters : CallFilters,
     endpoint_id : Words, service_id : Words, operation_id : Words]

LEMMA QueryOfTyped ==
    ASSUME NEW a, a.query \in CatalogQueries \cup {NoQuery}
    PROVE  QueryOf(a) \in CatalogQueries
  BY BareQueryTyped DEF QueryOf

LEMMA ParamsTyped ==
    ASSUME NEW query \in CatalogQueries, NEW c, Controls(c)
    PROVE  ListParams(query, c) \in Requests
<1>1. /\ c.tab \in Tabs /\ c.page \in Nat /\ c.filters \in CallFilters
      /\ None \in Words /\ NoFilters \in CallFilters
      /\ query.endpoint_id \in Words /\ query.service_id \in Words
      /\ query.operation_id \in Words
  BY CatalogAssumption, NoFiltersTyped DEF Controls, CatalogQueries
<1>. QED
  BY <1>1 DEF ListParams, Requests

LEMMA LoadDataReads ==
    ASSUME NEW l \in Lists, NEW params \in Requests
    PROVE  /\ LoadData(l, params) \in Lists
           /\ LoadData(l, params).requested = params
           /\ LoadData(l, params).awaited = TRUE
<1>. DEFINE superseded == IF l.awaited THEN l.requested.page ELSE l.superseded
            rows == IF l.rows = "newest" THEN "older" ELSE l.rows
<1>1. superseded \in Nat /\ rows \in {"none", "newest", "older"}
  BY DEF Lists, Requests
<1>2. LoadData(l, params) =
         [l EXCEPT !.superseded = superseded, !.requested = params, !.awaited = TRUE,
                   !.loading = TRUE, !.error = FALSE, !.rows = rows]
  BY DEF LoadData, Lists
<1>. HIDE DEF superseded, rows
<1>. QED
  BY <1>1, <1>2 DEF Lists, Requests

LEMMA CatalogInitEstablishes == AppInit /\ CatalogInit => CatalogInv
<1>. SUFFICES ASSUME AppInit, CatalogInit PROVE CatalogInv
  OBVIOUS
<1>1. Controls(catalog)
  BY BareQueryTyped, RouteStateTyped DEF CatalogInit
<1>2. ListParams(BareQuery, RouteState(BareQuery)) \in Requests
  BY BareQueryTyped, RouteStateTyped, ParamsTyped
<1>3. list \in Lists
  BY <1>2 DEF CatalogInit, NoList, Lists, Requests
<1>4. ~On("services")
  BY DEF AppInit, On
<1>. QED
  BY <1>1, <1>3, <1>4 DEF CatalogInv, CatalogAnswersChoice

\* The address a is read anew: controls, list and choice are all its own.
LEMMA ApplyKeeps ==
    ASSUME CatalogInv, NEW a, a.query \in CatalogQueries \cup {NoQuery}, address' = a,
           NEW c, NEW d, ApplyRouteState(a, c, d), chosen' = RouteState(QueryOf(a))
    PROVE  CatalogInv'
<1>. DEFINE query == QueryOf(a)
<1>1. query \in CatalogQueries
  BY QueryOfTyped
<1>2. /\ Controls(RouteState(query))
      /\ ListParams(query, RouteState(query)) \in Requests
  BY <1>1, RouteStateTyped, ParamsTyped
<1>3. /\ catalog' = RouteState(query)
      /\ list' = LoadData(list, ListParams(query, RouteState(query)))
  BY DEF ApplyRouteState
<1>4. /\ list' \in Lists /\ list'.awaited = TRUE
      /\ list'.requested = ListParams(query, RouteState(query))
  BY <1>2, <1>3, LoadDataReads DEF CatalogInv
<1>5. Controls(catalog')
  BY <1>2, <1>3
<1>. HIDE DEF query
<1>6. (On("services") => address.query \in CatalogQueries \cup {NoQuery})'
  OBVIOUS
<1>7. CatalogAnswersChoice'
  BY <1>3, <1>4 DEF CatalogAnswersChoice, query
<1>. QED
  BY <1>4, <1>5, <1>6, <1>7 DEF CatalogInv, Controls

\* A control that sets the component to c: whether the address changes or not,
\* it says what the controls say.
LEMMA WrittenKeeps ==
    ASSUME CatalogInv, address \in Places, NEW c, Controls(c),
           c.tab = "calls" \/ c.filters = catalog.filters, Written(c)
    PROVE  /\ CatalogInv' /\ address' \in Places /\ address'.screen = address.screen
           /\ UNCHANGED autoLoadsNewEntries
<1>. DEFINE here == QueryOf(address)
            query == SyncRouteQuery(here, c)
<1>1. here \in CatalogQueries /\ On("services")
  BY QueryOfTyped DEF Written, CatalogInv
<1>2. query \in CatalogQueries /\ RouteState(query) = Told(c)
  BY <1>1, SyncTyped, RoundTrip
<1>3. /\ chosen' = Told(c) /\ address' = [address EXCEPT !.query = query]
      /\ UNCHANGED autoLoadsNewEntries
  BY DEF Written, Told, Elsewhere
<1>4. address' \in Places /\ address'.screen = address.screen /\ address'.query = query
  BY <1>2, <1>3 DEF Places
<1>5. QueryOf(address') = query
  BY <1>2, <1>4, CatalogAssumption DEF QueryOf
<1>6. CASE here = query
  <2>1. catalog' = c /\ UNCHANGED list
    BY <1>6 DEF Written
  <2>2. catalog = Told(c)
    BY <1>1, <1>2, <1>6 DEF CatalogInv, CatalogAnswersChoice
  <2>3. c = Told(c)
    BY <2>2 DEF Told, Controls
  <2>4. overtaken' = overtaken
    BY DEF Written, Elsewhere
  <2>5. QueryOf(address) = query
    BY <1>6
  <2>. HIDE DEF query, here
  <2>6. CatalogAnswersChoice'
    BY <1>1, <1>2, <1>3, <1>4, <1>5, <2>1, <2>2, <2>3, <2>4, <2>5
       DEF CatalogInv, CatalogAnswersChoice, On
  <2>. QED
    BY <1>2, <1>3, <1>4, <2>1, <2>6 DEF CatalogInv
<1>7. CASE here # query
  <2>1. ApplyRouteState(address', c, CloseDetail(detail))
    BY <1>7 DEF Written
  <2>. HIDE DEF query, here
  <2>. QED
    BY <1>2, <1>3, <1>4, <1>5, <2>1, ApplyKeeps
<1>. QED
  BY <1>3, <1>4, <1>6, <1>7

\* What every step of the catalog keeps; the rest of the application sees no
\* more of it than a query of the address.
StaysInCatalog ==
    /\ CatalogInv' /\ address' \in Places /\ address'.screen = address.screen
    /\ UNCHANGED autoLoadsNewEntries

LEMMA FirstPage == 1 \in Nat \ {0}
  OBVIOUS

LEMMA ControlsSet ==
    ASSUME NEW c, Controls(c), NEW tab \in Tabs, NEW f \in CallFilters, Single(f),
           NEW page \in Nat \ {0}
    PROVE  /\ Controls([c EXCEPT !.tab = tab, !.page = page])
           /\ Controls([c EXCEPT !.filters = f, !.page = page])
           /\ Controls([c EXCEPT !.page = page])
  BY DEF Controls

LEMMA ControlsKeep ==
    ASSUME CatalogInv, address \in Places,
           \/ \E tab \in Tabs : SetTab(tab)
           \/ ChangeFilter
           \/ \E f \in Presets : ApplyCallPreset(f)
           \/ \E page \in Pages : GoToPage(page)
    PROVE  StaysInCatalog
<1>1. /\ catalog \in [tab : Tabs, filters : CallFilters, page : Nat \ {0}]
      /\ Single(catalog.filters) /\ catalog.filters \in CallFilters
  BY DEF CatalogInv, Controls
<1>2. ASSUME NEW tab \in Tabs, SetTab(tab) PROVE StaysInCatalog
  <2>. DEFINE c == [catalog EXCEPT !.tab = tab, !.page = 1]
  <2>1. Controls(c) /\ c.filters = catalog.filters
    BY <1>1, ControlsSet, FirstPage DEF CatalogInv
  <2>2. Written(c)
    BY <1>2 DEF SetTab
  <2>. QED
    BY <2>1, <2>2, WrittenKeeps DEF StaysInCatalog
<1>3. ASSUME NEW f \in CallFilters, Select(f) PROVE StaysInCatalog
  <2>. DEFINE c == [catalog EXCEPT !.filters = Exclusive(f), !.page = 1]
  <2>1. Exclusive(f) \in CallFilters /\ Single(Exclusive(f))
    BY ExclusiveIsSingle
  <2>2. Controls(c) /\ c.tab = "calls"
    BY <1>1, <1>3, <2>1, ControlsSet, FirstPage DEF CatalogInv, Select
  <2>3. Written(c)
    BY <1>3 DEF Select
  <2>. QED
    BY <2>2, <2>3, WrittenKeeps DEF StaysInCatalog
<1>4. CASE ChangeFilter
  <2>. DEFINE f == catalog.filters
  <2>1. /\ \A s \in CallScopes : [f EXCEPT !.scope = s] \in CallFilters
        /\ \A s \in Words : /\ [f EXCEPT !.status = s] \in CallFilters
                            /\ [f EXCEPT !.status_bucket = s] \in CallFilters
                            /\ [f EXCEPT !.outcome = s] \in CallFilters
                            /\ [f EXCEPT !.outcome_bucket = s] \in CallFilters
    BY <1>1 DEF CallFilters
  <2>2. /\ Statuses \cup {None} \subseteq Words /\ StatusBuckets \cup {None} \subseteq Words
        /\ Outcomes \cup {None} \subseteq Words /\ OutcomeBuckets \cup {None} \subseteq Words
    BY CatalogAssumption
  <2>3. PICK g \in CallFilters : Select(g)
    BY <1>4, <2>1, <2>2 DEF ChangeFilter
  <2>. QED
    BY <1>3, <2>3
<1>5. ASSUME NEW f \in Presets, ApplyCallPreset(f) PROVE StaysInCatalog
  <2>1. f \in Filters /\ Select(f)
    BY <1>5 DEF ApplyCallPreset
  <2>2. /\ Statuses \cup {None} \subseteq Words /\ StatusBuckets \cup {None} \subseteq Words
        /\ Outcomes \cup {None} \subseteq Words /\ OutcomeBuckets \cup {None} \subseteq Words
    BY CatalogAssumption
  <2>3. f \in CallFilters
    BY <2>1, <2>2 DEF Filters, CallFilters
  <2>. QED
    BY <1>3, <2>1, <2>3
<1>6. ASSUME NEW page \in Pages, GoToPage(page) PROVE StaysInCatalog
  <2>. DEFINE c == [catalog EXCEPT !.page = page]
  <2>1. list.last_page \in Nat /\ page \in 1..list.last_page
    BY <1>6 DEF GoToPage, CatalogInv, Lists
  <2>2. page \in Nat \ {0}
    BY <2>1
  <2>3. Controls(c) /\ c.filters = catalog.filters
    BY <1>1, <2>2 DEF Controls
  <2>4. Written(c)
    BY <1>6 DEF GoToPage
  <2>. QED
    BY <2>3, <2>4, WrittenKeeps DEF StaysInCatalog
<1>. QED
  BY <1>2, <1>4, <1>5, <1>6

LEMMA RefreshCatalogKeeps ==
    ASSUME CatalogInv, address \in Places, Refresh
    PROVE  StaysInCatalog
<1>. DEFINE params == ListParams(QueryOf(address), catalog)
<1>1. On("services") /\ QueryOf(address) \in CatalogQueries
  BY QueryOfTyped DEF Refresh, CatalogInv
<1>2. params \in Requests
  BY <1>1, ParamsTyped DEF CatalogInv
<1>3. /\ list' = LoadData(list, params)
      /\ UNCHANGED <<address, catalog, chosen, autoLoadsNewEntries>>
  BY DEF Refresh, Elsewhere
<1>4. list' \in Lists /\ list'.awaited = TRUE /\ list'.requested = params
  BY <1>2, <1>3, LoadDataReads DEF CatalogInv
<1>5. params' = params
  BY <1>3 DEF QueryOf
<1>6. /\ catalog' = chosen' /\ catalog' = RouteState(QueryOf(address'))
      /\ list'.requested = ListParams(QueryOf(address'), catalog')
  BY <1>1, <1>3, <1>4 DEF CatalogInv, CatalogAnswersChoice
<1>. HIDE DEF params
<1>7. CatalogAnswersChoice'
  BY <1>4, <1>6 DEF CatalogAnswersChoice
<1>. QED
  BY <1>3, <1>4, <1>7 DEF CatalogInv, StaysInCatalog, Controls, On

\* The ids of a list and its page are taken out of the address.
LEMMA ClearFiltersKeeps ==
    ASSUME CatalogInv, address \in Places, ClearCatalogFilters
    PROVE  StaysInCatalog
<1>. DEFINE here == QueryOf(address)
            query == [here EXCEPT !.endpoint_id = None, !.service_id = None,
                                  !.operation_id = None, !.page = 0]
<1>1. here \in CatalogQueries /\ catalog = RouteState(here)
  BY QueryOfTyped DEF ClearCatalogFilters, CatalogInv, CatalogAnswersChoice
<1>2. /\ address' = [address EXCEPT !.query = query]
      /\ chosen' = [catalog EXCEPT !.page = 1]
      /\ ApplyRouteState(address', catalog, detail)
      /\ UNCHANGED autoLoadsNewEntries
  BY DEF ClearCatalogFilters, Elsewhere
<1>3. /\ query \in CatalogQueries
      /\ query.tab = here.tab /\ FiltersOf(query) = FiltersOf(here) /\ query.page = 0
  BY <1>1, CatalogAssumption DEF CatalogQueries, FiltersOf
<1>. HIDE DEF query, here
<1>4. address' \in Places /\ address'.screen = address.screen /\ address'.query = query
  BY <1>2, <1>3 DEF Places
<1>5. QueryOf(address') = query
  BY <1>3, <1>4, CatalogAssumption DEF QueryOf
<1>6. RouteState(query) = [RouteState(here) EXCEPT !.page = 1]
  BY <1>1, <1>3, RouteStateFields
<1>7. CatalogInv'
  BY <1>1, <1>2, <1>3, <1>4, <1>5, <1>6, ApplyKeeps
<1>. QED
  BY <1>2, <1>4, <1>7 DEF StaysInCatalog

LEMMA BrowseKeeps ==
    ASSUME CatalogInv, address \in Places, NEW tab \in Tabs, NEW id \in CatalogIds,
           BrowseRelated(tab, id)
    PROVE  StaysInCatalog
<1>. DEFINE endpoint == IF detail.type = "endpoints" THEN id ELSE None
            service == IF detail.type = "endpoints" THEN None ELSE id
            query == [BareQuery EXCEPT !.tab = tab, !.endpoint_id = endpoint,
                                       !.service_id = service]
<1>1. tab \in Words /\ endpoint \in Words /\ service \in Words
  BY CatalogAssumption
<1>2. query \in CatalogQueries
  <2>. HIDE DEF endpoint, service
  <2>. QED
    BY <1>1, BareQueryTyped DEF CatalogQueries
<1>3. /\ address' = [address EXCEPT !.query = query]
      /\ IF query = QueryOf(address)
         THEN UNCHANGED <<catalog, list, detail, chosen>>
         ELSE ApplyRouteState(address', catalog, detail) /\ chosen' = RouteState(query)
      /\ UNCHANGED <<autoLoadsNewEntries, overtaken>> /\ On("services")
  BY DEF BrowseRelated, Elsewhere
<1>. HIDE DEF query
<1>4. address' \in Places /\ address'.screen = address.screen /\ address'.query = query
  BY <1>2, <1>3 DEF Places
<1>5. QueryOf(address') = query
  BY <1>2, <1>4, CatalogAssumption DEF QueryOf
<1>6. CASE query = QueryOf(address)
  <2>1. UNCHANGED <<catalog, list, chosen, overtaken>> /\ QueryOf(address') = QueryOf(address)
    BY <1>3, <1>5, <1>6
  <2>2. CatalogAnswersChoice'
    BY <1>3, <2>1 DEF CatalogInv, CatalogAnswersChoice
  <2>. QED
    BY <1>2, <1>3, <1>4, <2>1, <2>2 DEF CatalogInv, StaysInCatalog, Controls
<1>7. CASE query # QueryOf(address)
  <2>1. CatalogInv'
    BY <1>2, <1>3, <1>4, <1>5, <1>7, ApplyKeeps
  <2>. QED
    BY <1>3, <1>4, <2>1 DEF StaysInCatalog
<1>. QED
  BY <1>6, <1>7

LEMMA SettlesKeep ==
    ASSUME CatalogInv, address \in Places, NEW newest \in BOOLEAN,
           ListAnswered(newest) \/ ListFailed(newest)
    PROVE  StaysInCatalog
<1>1. /\ UNCHANGED <<address, autoLoadsNewEntries, catalog, chosen>>
      /\ On("services")
  BY DEF ListAnswered, ListFailed
<1>2. /\ list' \in Lists /\ list'.requested = list.requested
      /\ list'.awaited = (list.awaited /\ ~newest)
      /\ list'.loading = FALSE
      /\ newest => list'.rows = "newest" \/ list'.error
      /\ overtaken' = (~newest /\ ~list.awaited)
  <2>1. list \in Lists /\ list.requested.page \in Nat /\ LastPages \subseteq Nat
    BY CatalogAssumption DEF CatalogInv, Lists
  <2>2. CASE ListAnswered(newest)
    <3>. DEFINE rows == IF newest THEN "newest" ELSE "older"
                current == IF newest THEN list.requested.page ELSE list.superseded
                awaited == list.awaited /\ ~newest
                superseded == IF newest THEN list.superseded ELSE 0
    <3>1. PICK last \in LastPages :
             list' = [list EXCEPT !.awaited = awaited, !.superseded = superseded,
                                  !.loading = FALSE, !.rows = rows, !.current_page = current,
                                  !.last_page = last]
      BY <2>1, <2>2 DEF ListAnswered, Lists
    <3>2. /\ rows \in {"none", "newest", "older"} /\ current \in Nat /\ superseded \in Nat
          /\ last \in Nat
      BY <2>1 DEF Lists
    <3>3. awaited \in BOOLEAN
      OBVIOUS
    <3>4. newest => rows = "newest"
      OBVIOUS
    <3>. HIDE DEF rows, current, awaited, superseded
    <3>5. /\ list' \in Lists /\ list'.requested = list.requested /\ list'.awaited = awaited
          /\ list'.loading = FALSE /\ list'.rows = rows
      BY <2>1, <3>1, <3>2, <3>3 DEF Lists
    <3>. QED
      BY <2>2, <3>4, <3>5 DEF ListAnswered, awaited
  <2>3. CASE ListFailed(newest)
    <3>. DEFINE awaited == list.awaited /\ ~newest
                superseded == IF newest THEN list.superseded ELSE 0
    <3>1. list' = [list EXCEPT !.awaited = awaited, !.superseded = superseded,
                               !.loading = FALSE, !.error = TRUE, !.rows = "none",
                               !.current_page = 0, !.last_page = 0]
      BY <2>1, <2>3 DEF ListFailed, Lists
    <3>2. superseded \in Nat
      BY <2>1 DEF Lists
    <3>3. awaited \in BOOLEAN
      OBVIOUS
    <3>. HIDE DEF awaited, superseded
    <3>5. /\ list' \in Lists /\ list'.requested = list.requested /\ list'.awaited = awaited
          /\ list'.loading = FALSE /\ list'.error = TRUE
      BY <2>1, <3>1, <3>2, <3>3 DEF Lists
    <3>. QED
      BY <2>3, <3>5 DEF ListFailed, awaited
  <2>. QED
    BY <2>2, <2>3
<1>3. /\ catalog' = chosen' /\ catalog' = RouteState(QueryOf(address'))
      /\ list'.requested = ListParams(QueryOf(address'), catalog')
  BY <1>1, <1>2 DEF CatalogInv, CatalogAnswersChoice
<1>4. list'.awaited \/ overtaken' \/ list'.rows = "newest" \/ list'.error
  <2>1. CASE newest
    BY <1>2, <2>1
  <2>2. CASE ~newest
    BY <1>2, <2>2 DEF CatalogInv, Lists
  <2>. QED
    BY <2>1, <2>2
<1>5. CatalogAnswersChoice'
  BY <1>2, <1>3, <1>4 DEF CatalogAnswersChoice
<1>. QED
  BY <1>1, <1>2, <1>5 DEF CatalogInv, StaysInCatalog, Controls, On

LEMMA CatalogStepKeeps ==
    ASSUME CatalogInv, address \in Places, CatalogStep
    PROVE  StaysInCatalog
<1>1. ASSUME UNCHANGED <<address, catalog, list, chosen, overtaken, autoLoadsNewEntries>>
      PROVE  StaysInCatalog
  BY <1>1 DEF StaysInCatalog, CatalogInv, CatalogAnswersChoice, Controls, QueryOf, On
<1>2. CASE OpenDetail \/ CloseButton \/ \E newest, answered \in BOOLEAN : DetailSettled(newest, answered)
  BY <1>1, <1>2 DEF OpenDetail, CloseButton, DetailSettled, Elsewhere
<1>. QED
  BY <1>2, ControlsKeep, RefreshCatalogKeeps, ClearFiltersKeeps, BrowseKeeps, SettlesKeep
     DEF CatalogStep

LEMMA CatalogFollowsKeeps ==
    ASSUME CatalogInv, address \in Places, NEW a \in Addresses, address' = a,
           CatalogFollows(a)
    PROVE  CatalogInv'
<1>1. a \in Places /\ (a.screen = "services" => a.query \in CatalogQueries \cup {NoQuery})
  BY CatalogAssumption DEF Addresses, DashboardAddresses, CatalogAddresses, Places, Screens
<1>2. ASSUME a.screen = "services", NEW c, NEW d, ApplyRouteState(a, c, d),
             chosen' = RouteState(QueryOf(a))
      PROVE  CatalogInv'
  BY <1>1, <1>2, ApplyKeeps
<1>3. CASE Leaves("services", a) /\ catalog' = RouteState(BareQuery) /\ list' = NoList
  <2>1. Controls(RouteState(BareQuery)) /\ ListParams(BareQuery, RouteState(BareQuery)) \in Requests
    BY BareQueryTyped, RouteStateTyped, ParamsTyped
  <2>2. list' \in Lists
    BY <1>3, <2>1 DEF NoList, Lists, Requests
  <2>. QED
    BY <1>3, <2>1, <2>2 DEF Leaves, CatalogInv, CatalogAnswersChoice, On
<1>4. CASE ~On("services") /\ a.screen # "services" /\ UNCHANGED catalogVars
  BY <1>4 DEF catalogVars, CatalogInv, CatalogAnswersChoice, On, Controls
<1>5. CASE a = address /\ UNCHANGED catalogVars
  BY <1>5 DEF catalogVars, CatalogInv, CatalogAnswersChoice, On, Controls
<1>. QED
  BY <1>2, <1>3, <1>4, <1>5 DEF CatalogFollows, Arrives, Stays, Leaves
-----------------------------------------------------------------------------
(***************************************************************************)
(* The application.                                                        *)
(***************************************************************************)
IInv == ViewInv /\ CatalogInv

LEMMA ConsoleInitEstablishes == ConsoleInit => IInv
  BY InitEstablishes, CatalogInitEstablishes DEF ConsoleInit, IInv

LEMMA ConsoleNextKeeps == IInv /\ [ConsoleNext]_consoleVars => IInv'
<1>. SUFFICES ASSUME IInv, [ConsoleNext]_consoleVars PROVE IInv'
  OBVIOUS
<1>1. ViewInv /\ CatalogInv /\ address \in Places
  BY DEF IInv, ViewInv
<1>2. CASE DashboardStep /\ UNCHANGED catalogVars
  <2>1. ViewInv'
    BY <1>1, <1>2, StepKeeps
  <2>2. UNCHANGED address \/ (address.screen = "dashboard" /\ address'.screen = "dashboard")
    BY <1>1, <1>2 DEF DashboardStep, Tick, RefreshButton, ClearClassification, StatsAnswered,
                      ChangeClassification, StatsFailed, Mounted, On, Places
  <2>3. CatalogInv'
    BY <1>1, <1>2, <2>2 DEF catalogVars, CatalogInv, CatalogAnswersChoice, On, Controls, QueryOf
  <2>. QED
    BY <2>1, <2>3 DEF IInv
<1>3. CASE WorkersStep /\ UNCHANGED <<dashboardVars, catalogVars>>
  <2>1. UNCHANGED <<address, autoLoadsNewEntries>>
    BY <1>3 DEF WorkersStep, PreferencesSettled, RefreshHealth, HealthAnswered, HealthGivenUp
  <2>. QED
    BY <1>1, <1>3, <2>1 DEF dashboardVars, catalogVars, IInv, ViewInv, MountedOne, CatalogInv,
                            CatalogAnswersChoice, On, Controls, QueryOf
<1>4. CASE CatalogStep /\ UNCHANGED <<dashboardVars, workersVars>>
  <2>1. StaysInCatalog
    BY <1>1, <1>4, CatalogStepKeeps
  <2>2. ViewInv'
    BY <1>1, <1>4, <2>1 DEF StaysInCatalog, dashboardVars, ViewInv, MountedOne, On
  <2>. QED
    BY <2>1, <2>2 DEF StaysInCatalog, IInv
<1>5. CASE ThrowSwitch
  <2>1. /\ UNCHANGED <<address, dashboardVars, catalogVars>>
        /\ autoLoadsNewEntries' = ~autoLoadsNewEntries
    BY <1>5 DEF ThrowSwitch, AutoLoadNewEntries
  <2>. QED
    BY <1>1, <2>1 DEF dashboardVars, catalogVars, IInv, ViewInv, MountedOne, CatalogInv,
                      CatalogAnswersChoice, On, Controls, QueryOf
<1>6. ASSUME NEW a \in Addresses, Navigate(a) PROVE IInv'
  BY <1>1, <1>6, FollowsKeeps, CatalogFollowsKeeps DEF Navigate, IInv
<1>7. CASE UNCHANGED consoleVars
  BY <1>1, <1>7 DEF consoleVars, dashboardVars, catalogVars, IInv, ViewInv, MountedOne, CatalogInv,
                    CatalogAnswersChoice, On, Controls, QueryOf
<1>. QED
  BY <1>2, <1>3, <1>4, <1>5, <1>6, <1>7 DEF ConsoleNext, ScreenStep

\* The invariant of the application around its screens: of the dashboard, that
\* the newest read asks for the selection and no two reads carry one number; of
\* the catalog, that address, controls and newest request say the same.
THEOREM Invariance == ConsoleSafeSpec => []IInv
<1>1. ConsoleInit => IInv
  BY ConsoleInitEstablishes
<1>2. IInv /\ [ConsoleNext]_consoleVars => IInv'
  BY ConsoleNextKeeps
<1>. QED
  BY <1>1, <1>2, PTL DEF ConsoleSafeSpec

\* However visits, choices of a classification, refreshes, the timer and late
\* answers interleave, the figures on display are those of the selection, the
\* timer runs only while nothing is awaited, and a dashboard left with nothing
\* awaited stays quiet.
THEOREM SelectionShown == ConsoleSafeSpec => []FiguresOfSelection
<1>1. IInv => FiguresOfSelection
  BY DEF IInv, ViewInv, Good, FiguresOfSelection, MountedOne, Mounted
<1>. QED
  BY <1>1, Invariance, PTL

\* However controls, links, Back and late answers interleave, the catalog's
\* controls, the address and the newest request say what was last chosen.
THEOREM ChoiceAnswered == ConsoleSafeSpec => []CatalogAnswersChoice
<1>1. IInv => CatalogAnswersChoice
  BY DEF IInv, CatalogInv
<1>. QED
  BY <1>1, Invariance, PTL
-----------------------------------------------------------------------------
(***************************************************************************)
(* The page buttons.                                                       *)
(***************************************************************************)
\* The three parts the buttons are put together of: where each begins and what
\* each holds.
LEMMA ButtonsAre ==
    ASSUME NEW here \in Nat \ {0}, NEW total \in Nat \ {0, 1}
    PROVE  LET first == IF here > 4 THEN 2 ELSE 1
               from == IF here > 4 THEN here - 2 ELSE 2
               to == IF here + 2 < total THEN here + 2 ELSE total - 1
               many == IF to < from THEN 0 ELSE to - from + 1
               more == here + 2 < total - 1
               b == VisiblePages(here, total)
           IN  /\ b \in Seq(Nat)
               /\ Len(b) = first + many + (IF more THEN 2 ELSE 1)
               /\ b[1] = 1
               /\ here > 4 => b[2] = Ellipsis
               /\ \A i \in 1..many : b[first + i] = from + i - 1
               /\ more => b[first + many + 1] = Ellipsis /\ b[first + many + 2] = total
               /\ ~more => b[first + many + 1] = total
<1>. DEFINE first == IF here > 4 THEN 2 ELSE 1
            from == IF here > 4 THEN here - 2 ELSE 2
            to == IF here + 2 < total THEN here + 2 ELSE total - 1
            many == IF to < from THEN 0 ELSE to - from + 1
            more == here + 2 < total - 1
            head == IF here > 4 THEN <<1, Ellipsis>> ELSE <<1>>
            middle == IF to < from THEN <<>> ELSE [i \in 1..(to - from + 1) |-> from + i - 1]
            tail == IF more THEN <<Ellipsis, total>>
                    ELSE IF total > 1 THEN <<total>> ELSE <<>>
            leading == head \o middle
            b == VisiblePages(here, total)
<1>1. b = leading \o tail
  BY DEF VisiblePages
<1>2. /\ head \in Seq(Nat) /\ Len(head) = first /\ head[1] = 1
      /\ here > 4 => head[2] = Ellipsis
  BY DEF Ellipsis
<1>3. /\ tail \in Seq(Nat) /\ Len(tail) = (IF more THEN 2 ELSE 1)
      /\ more => tail[1] = Ellipsis /\ tail[2] = total
      /\ ~more => tail[1] = total
  BY DEF Ellipsis
<1>4. first \in 1..2 /\ from \in Nat /\ to \in Nat /\ many \in Nat
  OBVIOUS
<1>5. /\ middle \in Seq(Nat) /\ Len(middle) = many
      /\ \A i \in 1..many : middle[i] = from + i - 1
  <2>1. CASE to < from
    BY <2>1
  <2>2. CASE ~(to < from)
    <3>. HIDE DEF from, to
    <3>1. \A i \in 1..(to - from + 1) : from + i - 1 \in Nat
      BY <1>4
    <3>2. to - from + 1 \in Nat
      BY <1>4, <2>2
    <3>. QED
      BY <2>2, <3>1, <3>2
  <2>. QED
    BY <2>1, <2>2
<1>. HIDE DEF first, from, to, many, head, middle, tail, b, more
<1>6. /\ leading \in Seq(Nat) /\ Len(leading) = first + many
      /\ \A i \in 1..(first + many) :
            leading[i] = IF i <= first THEN head[i] ELSE middle[i - first]
  BY <1>2, <1>5, ConcatProperties
<1>. HIDE DEF leading
<1>7. /\ b \in Seq(Nat) /\ Len(b) = first + many + Len(tail)
      /\ \A i \in 1..(first + many + Len(tail)) :
            b[i] = IF i <= first + many THEN leading[i] ELSE tail[i - (first + many)]
  <2>1. /\ b \in Seq(Nat) /\ Len(b) = Len(leading) + Len(tail)
        /\ \A i \in 1..(Len(leading) + Len(tail)) :
              b[i] = IF i <= Len(leading) THEN leading[i] ELSE tail[i - Len(leading)]
    BY <1>1, <1>3, <1>6, ConcatProperties
  <2>. QED
    BY <1>6, <2>1
<1>8. b[1] = 1 /\ (here > 4 => b[2] = Ellipsis)
  <2>1. here > 4 => first = 2
    BY DEF first
  <2>2. Len(tail) \in Nat
    BY <1>3
  <2>. QED
    BY <1>2, <1>4, <1>6, <1>7, <2>1, <2>2
<1>9. ASSUME NEW i \in 1..many PROVE b[first + i] = from + i - 1
  <2>1. /\ first + i \in 1..(first + many) /\ ~(first + i <= first)
        /\ (first + i) - first = i
    BY <1>4
  <2>2. leading[first + i] = middle[i]
    <3>. DEFINE j == first + i
    <3>1. j \in 1..(first + many) /\ ~(j <= first) /\ j - first = i
      BY <2>1
    <3>. HIDE DEF j
    <3>2. leading[j] = middle[i]
      BY <1>6, <3>1
    <3>. QED
      BY <3>2 DEF j
  <2>3. b[first + i] = leading[first + i]
    BY <1>3, <1>4, <1>7, <2>1
  <2>. QED
    BY <1>5, <2>2, <2>3
<1>10. /\ more => b[first + many + 1] = Ellipsis /\ b[first + many + 2] = total
       /\ ~more => b[first + many + 1] = total
  BY <1>3, <1>4, <1>7
<1>. QED
  BY <1>3, <1>7, <1>8, <1>9, <1>10 DEF first, from, to, many, b, more

\* Whatever the page and the number of pages: the buttons rise from the first
\* page to the last, an ellipsis stands for at least one page, and a page that
\* exists has its own button and those of its neighbours.
THEOREM EveryPageInReach ==
    ASSUME NEW here \in Nat \ {0}, NEW total \in Nat \ {0, 1}
    PROVE  PagesInReach(here, total)
<1>. DEFINE first == IF here > 4 THEN 2 ELSE 1
            from == IF here > 4 THEN here - 2 ELSE 2
            to == IF here + 2 < total THEN here + 2 ELSE total - 1
            many == IF to < from THEN 0 ELSE to - from + 1
            more == here + 2 < total - 1
            b == VisiblePages(here, total)
<1>1. /\ b \in Seq(Nat)
      /\ Len(b) = first + many + (IF more THEN 2 ELSE 1)
      /\ b[1] = 1
      /\ here > 4 => b[2] = Ellipsis
      /\ \A i \in 1..many : b[first + i] = from + i - 1
      /\ more => b[first + many + 1] = Ellipsis /\ b[first + many + 2] = total
      /\ ~more => b[first + many + 1] = total
  BY ButtonsAre
<1>2. /\ first \in Nat /\ from \in Nat /\ to \in Nat /\ many \in Nat
      /\ IF here > 4 THEN first = 2 /\ from = here - 2 ELSE first = 1 /\ from = 2
      /\ many > 0 => from + many - 1 = to
      /\ here <= total /\ here > 4 => many > 0
      /\ many = 0 /\ here <= 4 => total = 2
      /\ more => many > 0 /\ to = here + 2
      /\ ~more /\ many > 0 => to = total - 1
  OBVIOUS
<1>. HIDE DEF first, from, to, many, b
<1>3. b[Len(b)] = total
  BY <1>1, <1>2
<1>4. ASSUME NEW i \in 1..(Len(b) - 1)
      PROVE  \/ b[i + 1] = b[i] + 1
             \/ b[i] = Ellipsis
             \/ b[i + 1] = Ellipsis /\ (here <= total => b[i + 2] > b[i] + 1)
  <2>1. CASE i = 1 /\ here > 4
    <3>1. many > 0 => b[first + 1] = from + 1 - 1
      BY <1>1, <1>2
    <3>2. first + 1 = 3 /\ from + 1 - 1 = from
      BY <1>2, <2>1
    <3>. QED
      BY <1>1, <1>2, <2>1, <3>1, <3>2
  <2>2. CASE i = first
    <3>1. many > 0 => b[first + 1] = from
      BY <1>1, <1>2
    <3>. QED
      BY <1>1, <1>2, <2>2, <3>1
  <2>3. CASE i > first /\ i < first + many
    <3>. DEFINE k == i - first
    <3>1. k \in 1..many /\ k + 1 \in 1..many /\ i = first + k /\ i + 1 = first + (k + 1)
      BY <1>2, <2>3
    <3>2. b[first + k] = from + k - 1 /\ b[first + (k + 1)] = from + (k + 1) - 1
      BY <1>1, <3>1
    <3>. HIDE DEF k
    <3>. QED
      BY <1>2, <3>1, <3>2
  <2>4. CASE i = first + many /\ many > 0
    <3>1. b[i] = to
      <4>1. b[first + many] = from + many - 1
        BY <1>1, <1>2, <2>4
      <4>. QED
        BY <1>2, <2>4, <4>1
    <3>2. CASE more
      <4>1. b[i + 1] = Ellipsis /\ b[i + 2] = total
        BY <1>1, <1>2, <2>4, <3>2
      <4>. QED
        BY <1>2, <3>1, <3>2, <4>1
    <3>3. CASE ~more
      <4>1. b[i + 1] = total
        BY <1>1, <1>2, <2>4, <3>3
      <4>. QED
        BY <1>2, <2>4, <3>1, <3>3, <4>1
    <3>. QED
      BY <3>2, <3>3
  <2>5. CASE i = first + many + 1 /\ more
    BY <1>1, <2>5
  <2>. QED
    BY <1>1, <1>2, <2>1, <2>2, <2>3, <2>4, <2>5
<1>5. ASSUME here <= total, NEW p \in {here - 1, here, here + 1} \cap 1..total
      PROVE  \E i \in DOMAIN b : b[i] = p
  <2>1. DOMAIN b = 1..Len(b) /\ Len(b) \in Nat /\ 1 \in 1..Len(b) /\ Len(b) \in 1..Len(b)
    BY <1>1, <1>2
  <2>2. CASE p = 1
    BY <1>1, <2>1, <2>2
  <2>3. CASE p = total
    BY <1>3, <2>1, <2>3
  <2>4. CASE p \in 2..(total - 1)
    <3>. DEFINE k == p - from + 1
    <3>1. from <= p /\ p <= to
      BY <1>5, <2>4 DEF from, to
    <3>2. k \in 1..many /\ first + k \in 1..Len(b)
      BY <1>1, <1>2, <2>4, <3>1 DEF many
    <3>3. b[first + k] = from + k - 1
      BY <1>1, <3>2
    <3>4. from + k - 1 = p
      BY <1>2, <2>4
    <3>. QED
      BY <2>1, <3>2, <3>3, <3>4
  <2>. QED
    BY <2>2, <2>3, <2>4
<1>. QED
  BY <1>1, <1>3, <1>4, <1>5 DEF PagesInReach, b

\* The run displays page numbers of this kind beside the catalog.
THEOREM CatalogReached == MCSafeSpec => []CatalogInReach
<1>. DEFINE ButtonsReach == answer.of = "pages" => PagesInReach(answer.current, answer.last)
<1>1. \A x \in Answers : x.of = "pages" => PagesInReach(x.current, x.last)
  <2>1. \A x \in [of : {"pages"}, current : 1..9, last : 2..8] :
           PagesInReach(x.current, x.last)
    BY EveryPageInReach
  <2>. QED
    BY <2>1 DEF Answers
<1>2. MCInit => IInv /\ ButtonsReach
  BY ConsoleInitEstablishes DEF MCInit, Blank
<1>3. IInv /\ ButtonsReach /\ [MCNext]_<<consoleVars, study, answer>> => IInv' /\ ButtonsReach'
  <2>. SUFFICES ASSUME IInv, ButtonsReach, [MCNext]_<<consoleVars, study, answer>>
                PROVE  IInv' /\ ButtonsReach'
    OBVIOUS
  <2>1. [ConsoleNext]_consoleVars
    BY DEF MCNext, ScreensNext, FiguresNext
  <2>2. answer' \in Answers \cup {Blank} \/ answer' = answer
    BY DEF MCNext, ScreensNext, FiguresNext
  <2>3. ButtonsReach'
    BY <1>1, <2>2 DEF Blank
  <2>. QED
    BY <2>1, <2>3, ConsoleNextKeeps
<1>4. IInv /\ ButtonsReach => CatalogInReach
  BY DEF IInv, CatalogInv, CatalogInReach
<1>. HIDE DEF ButtonsReach
<1>. QED
  BY <1>2, <1>3, <1>4, PTL DEF MCSafeSpec
-----------------------------------------------------------------------------
(***************************************************************************)
(* What the dashboard makes of an answer, whatever figures it has.         *)
(***************************************************************************)
\* Figures are counts, or a number that stands for what a count cannot be.
Reported(m) == \A k \in DOMAIN m : m[k] \in Int

LEMMA FigureIsInteger ==
    ASSUME NEW m, Reported(m), NEW section, NEW key
    PROVE  Figure(m, section, key) \in Int
  BY DEF Reported, Figure, Missing

LEMMA SumOfCounts ==
    ASSUME NEW a \in Int, NEW b \in Int, NEW c \in Int, NEW d \in Int, NEW e \in Int,
           a >= 0, b >= 0, c >= 0, d >= 0, e >= 0, a + b + c + d + e = 0
    PROVE  a = 0 /\ b = 0 /\ c = 0 /\ d = 0 /\ e = 0
  OBVIOUS

LEMMA AuditsCounted == ASSUME NEW m, Reported(m) PROVE AuditsAreCounted(m)
<1>. DEFINE Asked(group) == Figure(m, group, "needs_rebuild")
            Count(group) == ProjectionMetric(m, group, "needs_rebuild")
            total == OverviewTiles(m).rebuilds
<1>1. \A group \in Projections :
         /\ Asked(group) \in Int
         /\ Count(group) = IF Asked(group) >= 0 THEN Asked(group) ELSE Unknown
  BY FigureIsInteger DEF ProjectionMetric
<1>2. total = ProjectionRebuildTotal(m)
  BY DEF OverviewTiles
<1>3. ProjectionRebuildTotal(m) =
         IF \E group \in Projections : Count(group) = Unknown
         THEN Unknown
         ELSE Count("run_summaries") + Count("run_waits") + Count("run_timeline_entries")
                 + Count("run_timer_entries") + Count("run_lineage_entries")
  BY DEF ProjectionRebuildTotal
<1>. HIDE DEF Asked, Count, total
<1>4. total # Unknown =>
         /\ \A group \in Projections : Asked(group) >= 0 /\ Count(group) = Asked(group)
         /\ total = Asked("run_summaries") + Asked("run_waits")
                      + Asked("run_timeline_entries") + Asked("run_timer_entries")
                      + Asked("run_lineage_entries")
  BY <1>1, <1>2, <1>3 DEF Unknown, Projections
<1>5. total = 0 => \A group \in Projections : Asked(group) = 0
  <2>. SUFFICES ASSUME total = 0 PROVE \A group \in Projections : Asked(group) = 0
    OBVIOUS
  <2>1. total # Unknown
    BY DEF Unknown
  <2>2. \A group \in Projections : Asked(group) \in Int /\ Asked(group) >= 0
    BY <1>1, <1>4, <2>1
  <2>3. Asked("run_summaries") + Asked("run_waits") + Asked("run_timeline_entries")
           + Asked("run_timer_entries") + Asked("run_lineage_entries") = 0
    BY <1>4, <2>1
  <2>. DEFINE a == Asked("run_summaries")
              b == Asked("run_waits")
              c == Asked("run_timeline_entries")
              d == Asked("run_timer_entries")
              e == Asked("run_lineage_entries")
  <2>4. /\ a \in Int /\ b \in Int /\ c \in Int /\ d \in Int /\ e \in Int
        /\ a >= 0 /\ b >= 0 /\ c >= 0 /\ d >= 0 /\ e >= 0
    BY <2>2 DEF Projections
  <2>5. /\ Asked("run_summaries") = 0 /\ Asked("run_waits") = 0
        /\ Asked("run_timeline_entries") = 0 /\ Asked("run_timer_entries") = 0
        /\ Asked("run_lineage_entries") = 0
    <3>1. a + b + c + d + e = 0
      BY <2>3
    <3>. HIDE DEF a, b, c, d, e
    <3>2. a = 0 /\ b = 0 /\ c = 0 /\ d = 0 /\ e = 0
      BY <2>4, <3>1, SumOfCounts
    <3>. QED
      BY <3>2 DEF a, b, c, d, e
  <2>. QED
    BY <2>5 DEF Projections
<1>6. \A group \in DOMAIN ProjectionHealth(m) :
         ProjectionHealth(m)[group] = ProjectionMetric(m, group, "rows")
  BY DEF ProjectionHealth
<1>7. \A group \in DOMAIN ProjectionHealth(m) :
         ProjectionHealth(m)[group] # Unknown =>
            ProjectionHealth(m)[group] = Figure(m, group, "rows")
  BY <1>6 DEF ProjectionMetric
<1>. QED
  BY <1>4, <1>5, <1>7 DEF AuditsAreCounted, Asked, total

HonestAges(age) == IF age > 0 THEN {age} ELSE {Unknown, Dash}

\* The lines of a part of the screen and the ages printed agree.
Agree(m, offered, printed) ==
    \A line \in DOMAIN offered \cap DOMAIN printed :
       Available(m, offered[line]) =>
          /\ Figure(m, offered[line][1], offered[line][3]) # Missing
          /\ printed[line] \in HonestAges(Figure(m, offered[line][1], offered[line][3]))

LEMMA AgeIsHonest ==
    ASSUME NEW m, Reported(m), NEW section, NEW key
    PROVE  /\ OperatorDuration(m, section, key) \in HonestAges(Figure(m, section, key))
           /\ ProjectionDuration(m, section, key) \in HonestAges(Figure(m, section, key))
<1>. DEFINE age == Figure(m, section, key)
<1>1. age \in Int
  BY FigureIsInteger
<1>2. /\ OperatorMetric(m, section, key) = OrZero(age)
      /\ ProjectionMetric(m, section, key) = IF age >= 0 THEN age ELSE Unknown
  BY DEF OperatorMetric, ProjectionMetric
<1>. HIDE DEF age
<1>3. AgeLabel(OrZero(age)) \in HonestAges(age)
  BY <1>1 DEF AgeLabel, OrZero, HonestAges, Missing, Empty
<1>4. (IF ProjectionMetric(m, section, key) = Unknown
       THEN Unknown
       ELSE AgeLabel(ProjectionMetric(m, section, key))) \in HonestAges(age)
  BY <1>1, <1>2 DEF AgeLabel, HonestAges, Unknown
<1>. QED
  BY <1>2, <1>3, <1>4 DEF OperatorDuration, ProjectionDuration, age

LEMMA AgesReported == ASSUME NEW m, Reported(m) PROVE AgesAreReported(m)
<1>1. Agree(m, OverdueTaskAges, GridAges(m))
  BY AgeIsHonest DEF Agree, OverdueTaskAges, GridAges, Available
<1>2. Agree(m, FailedTaskAges, GridAges(m))
  BY AgeIsHonest DEF Agree, FailedTaskAges, GridAges, Available
<1>3. Agree(m, RunAges, GridAges(m))
  BY AgeIsHonest DEF Agree, RunAges, GridAges, Available
<1>4. Agree(m, StartAges, GridAges(m))
  BY AgeIsHonest DEF Agree, StartAges, GridAges, Available
<1>5. Agree(m, OverdueTaskAges, SectionAges(m)) /\ Agree(m, FailedTaskAges, SectionAges(m))
  BY DEF Agree, OverdueTaskAges, FailedTaskAges, SectionAges
<1>6. Agree(m, RunAges, SectionAges(m))
  BY AgeIsHonest DEF Agree, RunAges, SectionAges, Available
<1>7. Agree(m, StartAges, SectionAges(m))
  BY AgeIsHonest DEF Agree, StartAges, SectionAges, Available
<1>. QED
  BY <1>1, <1>2, <1>3, <1>4, <1>5, <1>6, <1>7 DEF AgesAreReported, Agree, HonestAges

LEMMA FiguresAgree == ASSUME NEW m PROVE DashboardAgrees(m)
<1>. DEFINE Same(shown, again) ==
              \A name \in DOMAIN shown \cap DOMAIN again : shown[name] = again[name]
<1>1. /\ \A shown : Same(shown, shown)
      /\ \A shown, again : Same(shown, again) => Same(again, shown)
  OBVIOUS
<1>2. Same(SummaryTiles(m), OverviewTiles(m))
  BY DEF SummaryTiles, OverviewTiles
<1>3. Same(SummaryTiles(m), FleetTables(m))
  BY DEF SummaryTiles, FleetTables
<1>4. Same(SummaryTiles(m), OperatorGrid(m))
  BY DEF SummaryTiles, OperatorGrid
<1>5. Same(OverviewTiles(m), FleetTables(m)) /\ Same(OverviewTiles(m), OperatorGrid(m))
  BY DEF OverviewTiles, FleetTables, OperatorGrid
<1>6. Same(FleetTables(m), OperatorGrid(m))
  BY DEF FleetTables, OperatorGrid
<1>7. \A shown, again \in {SummaryTiles(m), OverviewTiles(m), FleetTables(m), OperatorGrid(m)} :
         Same(shown, again)
  <2>. HIDE DEF Same
  <2>. QED
    BY <1>1, <1>2, <1>3, <1>4, <1>5, <1>6
<1>. QED
  BY <1>7 DEF DashboardAgrees

LEMMA FiguresAreReported ==
    ASSUME NEW m \in AuditAnswers \cup AgeAnswers \cup TileAnswers
    PROVE  Reported(m)
<1>1. CASE m \in AuditAnswers
  <2>1. PICK counts \in [Projections -> {Missing, Empty, Invalid, 0, 2}], rows \in {Missing, 1} :
           m = AuditAnswer(counts, rows)
    BY <1>1 DEF AuditAnswers
  <2>2. {Missing, Empty, Invalid, 0, 2} \subseteq Int /\ rows \in Int
    BY DEF Missing, Empty, Invalid
  <2>3. \A k \in Projections \X {"needs_rebuild", "rows"} : k[1] \in Projections
    OBVIOUS
  <2>. QED
    BY <2>1, <2>2, <2>3 DEF Reported, AuditAnswer
<1>2. CASE m \in AgeAnswers
  <2>1. PICK ages \in {OverdueTaskAges, FailedTaskAges, RunAges, StartAges} :
           \E l \in DOMAIN ages, count \in {Missing, Empty, Invalid, 0, 3},
              age \in {Missing, Empty, Invalid, 0, 7} : m = AgeAnswer(ages[l], count, age)
    BY <1>2 DEF AgeAnswers
  <2>2. PICK l \in DOMAIN ages, count \in {Missing, Empty, Invalid, 0, 3},
             age \in {Missing, Empty, Invalid, 0, 7} : m = AgeAnswer(ages[l], count, age)
    BY <2>1
  <2>3. count \in Int /\ age \in Int
    BY DEF Missing, Empty, Invalid
  <2>. QED
    BY <2>2, <2>3 DEF Reported, AgeAnswer
<1>3. CASE m \in TileAnswers
  <2>. DEFINE keys == {"current", "hour", "day"} \X {"running", "failed", "completed"}
                        \cup {"workers"} \X {"active_workers", "active_worker_scopes"}
                        \cup {<<"stats", "flows_past_hour">>}
  <2>1. PICK odd \in keys, figure \in {Missing, Empty, Invalid, 0, 5} :
           m = [k \in keys |-> IF k = odd THEN figure ELSE 1]
    BY <1>3 DEF TileAnswers
  <2>2. figure \in Int
    BY DEF Missing, Empty, Invalid
  <2>. HIDE DEF keys
  <2>. QED
    BY <2>1, <2>2 DEF Reported
<1>. QED
  BY <1>1, <1>2, <1>3

\* Whatever figures are missing, no number or zero: no audit is shown that was
\* not counted, no age that was not reported, and no figure in two values.
THEOREM AnswerTold == MCSafeSpec => []DashboardTellsTheAnswer
<1>1. \A x \in Answers : x.of = "dashboard" =>
         /\ AuditsAreCounted(x.figures)
         /\ AgesAreReported(x.figures)
         /\ DashboardAgrees(x.figures)
  <2>1. \A x \in [of : {"dashboard"}, figures : AuditAnswers \cup AgeAnswers \cup TileAnswers] :
           /\ AuditsAreCounted(x.figures)
           /\ AgesAreReported(x.figures)
           /\ DashboardAgrees(x.figures)
    BY FiguresAreReported, AuditsCounted, AgesReported, FiguresAgree
  <2>. QED
    BY <2>1 DEF Answers
<1>2. MCInit => DashboardTellsTheAnswer
  BY DEF MCInit, Blank, DashboardTellsTheAnswer
<1>3. DashboardTellsTheAnswer /\ [MCNext]_<<consoleVars, study, answer>>
         => DashboardTellsTheAnswer'
  <2>. SUFFICES ASSUME DashboardTellsTheAnswer, [MCNext]_<<consoleVars, study, answer>>
                PROVE  DashboardTellsTheAnswer'
    OBVIOUS
  <2>1. answer' \in Answers \cup {Blank} \/ answer' = answer
    BY DEF MCNext, ScreensNext, FiguresNext
  <2>2. CASE answer' \in Answers
    BY <1>1, <2>2 DEF DashboardTellsTheAnswer
  <2>3. CASE answer' = Blank
    BY <2>3 DEF Blank, DashboardTellsTheAnswer
  <2>4. CASE answer' = answer
    BY <2>4 DEF DashboardTellsTheAnswer
  <2>. QED
    BY <2>1, <2>2, <2>3, <2>4
<1>. QED
  BY <1>2, <1>3, PTL DEF MCSafeSpec
-----------------------------------------------------------------------------
(***************************************************************************)
(* What the workers screen makes of an answer, whatever it holds.          *)
(***************************************************************************)
Ids(observations) == {observations[i].id : i \in DOMAIN observations}

LEMMA IdsAreFinite ==
    ASSUME NEW Seen, NEW observations \in Seq(Seen)
    PROVE  IsFiniteSet(Ids(observations))
<1>. DEFINE T == Ids(observations)
            f == [i \in 1..Len(observations) |-> observations[i].id]
<1>1. DOMAIN observations = 1..Len(observations) /\ Len(observations) \in Nat
  OBVIOUS
<1>2. f \in Surjection(1..Len(observations), T)
  BY <1>1 DEF Surjection, Ids
<1>3. IsFiniteSet(1..Len(observations))
  BY <1>1, FS_Interval
<1>. HIDE DEF f, T
<1>4. IsFiniteSet(T)
  BY <1>2, <1>3, FS_Surjection
<1>. QED
  BY <1>4 DEF T

LEMMA DisjointCounts ==
    ASSUME NEW S, NEW T, IsFiniteSet(S), IsFiniteSet(T), S \cap T = {}
    PROVE  /\ Cardinality(S \cup T) = Cardinality(S) + Cardinality(T)
           /\ Cardinality(S) \in Nat /\ Cardinality(T) \in Nat
<1>1. Cardinality(S \cap T) = 0
  BY FS_EmptySet
<1>2. Cardinality(S) \in Nat /\ Cardinality(T) \in Nat
  BY FS_CardinalityType
<1>3. Cardinality(S \cup T) = Cardinality(S) + Cardinality(T) - Cardinality(S \cap T)
  BY FS_Union
<1>. QED
  BY <1>1, <1>2, <1>3

\* However often a worker was observed, and in whichever list, it is counted
\* once and shown once: for rosters of any length.
THEOREM WorkersCountedOnce ==
    ASSUME NEW Seen, NEW registrations \in Seq(Seen), NEW stale \in Seq(Seen)
    PROVE  RosterCountsWorkersOnce(registrations, stale)
<1>. DEFINE roster == Roster(registrations, stale)
            snapshot == Counted(roster)
            observed == Ids(registrations) \cup Ids(stale)
            general == IndexByIdentity(registrations)
<1>1. DOMAIN general = Ids(registrations) /\ DOMAIN IndexByIdentity(stale) = Ids(stale)
  BY DEF IndexByIdentity, Ids
<1>2. /\ Ids(stale) \subseteq roster.stale
      /\ roster.stale \subseteq observed
      /\ roster.active = Ids(registrations) \ roster.stale
  <2>. HIDE DEF general
  <2>1. roster = [active |-> DOMAIN general \ (DOMAIN IndexByIdentity(stale)
                                \cup {id \in DOMAIN general : general[id] = "stale"}),
                  stale  |-> DOMAIN IndexByIdentity(stale)
                                \cup {id \in DOMAIN general : general[id] = "stale"}]
    BY DEF Roster, general
  <2>. QED
    BY <1>1, <2>1
<1>3. IsFiniteSet(Ids(registrations)) /\ IsFiniteSet(Ids(stale)) /\ IsFiniteSet(observed)
  BY IdsAreFinite, FS_Union
<1>. HIDE DEF roster
<1>4. IsFiniteSet(roster.active) /\ IsFiniteSet(roster.stale)
  BY <1>2, <1>3, FS_Subset
<1>5. roster.active \cup roster.stale = observed /\ roster.active \cap roster.stale = {}
  BY <1>2
<1>6. /\ Cardinality(observed) = Cardinality(roster.active) + Cardinality(roster.stale)
      /\ Cardinality(roster.active) \in Nat /\ Cardinality(roster.stale) \in Nat
  BY <1>4, <1>5, DisjointCounts
<1>7. /\ Counts(snapshot)
      /\ RegistrationCount(snapshot) = Cardinality(roster.active) + Cardinality(roster.stale)
      /\ ActiveRegistrationCount(snapshot) = Cardinality(roster.active)
      /\ StaleRegistrationCount(snapshot) = Cardinality(roster.stale)
      /\ snapshot.workers =
            {[id |-> id, status |-> "active", fresh |-> TRUE] : id \in roster.active}
  BY DEF Counted, Counts, RegistrationCount, ActiveRegistrationCount, StaleRegistrationCount
<1>. HIDE DEF snapshot
<1>8. Cardinality(snapshot.workers) = Cardinality(roster.active)
  <2>. DEFINE f == [id \in roster.active |-> [id |-> id, status |-> "active", fresh |-> TRUE]]
              T == snapshot.workers
  <2>1. f \in Bijection(roster.active, T)
    BY <1>7 DEF Bijection, Injection, Surjection, IsInjective
  <2>. HIDE DEF f, T
  <2>2. Cardinality(T) = Cardinality(roster.active)
    BY <1>4, <2>1, FS_Bijection DEF ExistsBijection
  <2>. QED
    BY <2>2 DEF T
<1>9. \A w \in snapshot.workers : \A i \in DOMAIN stale : stale[i].id # w.id
  BY <1>2, <1>7 DEF Ids
<1>10. EmptyState(snapshot) = "No-workers-registered" <=> observed = {}
  <2>1. snapshot.workers = {} <=> roster.active = {}
    BY <1>7
  <2>2. StaleRegistrationCount(snapshot) > 0 <=> roster.stale # {}
    BY <1>4, <1>6, <1>7, FS_EmptySet
  <2>. QED
    BY <1>5, <2>1, <2>2 DEF EmptyState
<1>. QED
  BY <1>6, <1>7, <1>8, <1>9, <1>10 DEF RosterCountsWorkersOnce, snapshot, roster, Ids

\* A fleet that is only listed: the three counts add up, and while every
\* heartbeat is fresh each worker is counted once.
THEOREM FleetAddsUp ==
    ASSUME NEW listed, IsFiniteSet(listed), NEW Names,
           listed \subseteq [id : Names, fresh : BOOLEAN, supports : BOOLEAN]
    PROVE  FleetCountsAddUp(listed)
<1>. DEFINE Row(w) == [id |-> w.id, fresh |-> w.fresh,
                       status |-> IF w.supports THEN "active" ELSE "incompatible"]
            rows == {Row(w) : w \in listed}
            snapshot == Listed(listed)
<1>1. snapshot.workers = rows /\ ~Counts(snapshot)
  BY DEF Listed, Counts
<1>2. IsFiniteSet(rows) /\ Cardinality(rows) = Cardinality(listed)
  <2>. DEFINE f == [w \in listed |-> Row(w)]
              T == rows
  <2>1. f \in Bijection(listed, T)
    BY DEF Bijection, Injection, Surjection, IsInjective
  <2>. HIDE DEF f, T
  <2>2. IsFiniteSet(T) /\ Cardinality(T) = Cardinality(listed)
    BY <2>1, FS_Bijection DEF ExistsBijection
  <2>. QED
    BY <2>2 DEF T
<1>3. {w \in rows : w.status = "stale"} = {}
  OBVIOUS
<1>. DEFINE late == {w \in rows : ~w.fresh}
<1>4. /\ Cardinality(rows) \in Nat /\ Cardinality(late) \in Nat
      /\ Cardinality(late) <= Cardinality(rows)
  BY <1>2, FS_Subset, FS_CardinalityType
<1>5. (\A w \in listed : w.fresh) => late = {}
  OBVIOUS
<1>. HIDE DEF rows, snapshot, late
<1>6. StaleRegistrationCount(snapshot) = Cardinality(late)
  BY <1>1 DEF StaleRegistrationCount, late
<1>7. RegistrationCount(snapshot) = Cardinality(rows) + Cardinality(late)
  <2>1. {w \in snapshot.workers : w.status = "stale"} = {}
    BY <1>1, <1>3
  <2>2. Cardinality({w \in snapshot.workers : w.status = "stale"}) = 0
    BY <2>1, FS_EmptySet
  <2>. DEFINE missing == Cardinality(late) - 0
  <2>3. RegistrationCount(snapshot) =
           Cardinality(rows) + (IF missing > 0 THEN missing ELSE 0)
    BY <1>1, <1>6, <2>2 DEF RegistrationCount
  <2>. QED
    BY <1>4, <2>3
<1>8. ActiveRegistrationCount(snapshot) = Cardinality(rows)
  BY <1>1, <1>4, <1>6, <1>7 DEF ActiveRegistrationCount
<1>9. (\A w \in listed : w.fresh) => Cardinality(late) = 0
  BY <1>5, FS_EmptySet
<1>10. /\ RegistrationCount(snapshot)
             = ActiveRegistrationCount(snapshot) + StaleRegistrationCount(snapshot)
       /\ (\A w \in listed : w.fresh) => RegistrationCount(snapshot) = Cardinality(listed)
  BY <1>2, <1>4, <1>6, <1>7, <1>8, <1>9
<1>. QED
  BY <1>10 DEF FleetCountsAddUp, snapshot

\* Max of a set is its greatest element, where there is one.
LEMMA MaxIsGreatest ==
    ASSUME NEW S \in SUBSET Int, NEW n \in S, \A k \in S : k <= n
    PROVE  Max(S) = n
<1>1. Max(S) \in S /\ \A k \in S : Max(S) >= k
  <2>1. \E x \in S : \A k \in S : x >= k
    OBVIOUS
  <2>. QED
    BY <2>1 DEF Max
<1>2. Max(S) >= n /\ Max(S) <= n /\ Max(S) \in Int /\ n \in Int
  BY <1>1
<1>. QED
  BY <1>2

WorstOf(some) == Max({Severity[c.status] : c \in some} \cup {0})

LEMMA StatusIsWorst ==
    ASSUME NEW some, \A c \in some : c.status \in DOMAIN Severity
    PROVE  /\ HealthStatus(some) \in DOMAIN Severity
           /\ Severity[HealthStatus(some)] = WorstOf(some)
           /\ \A c \in some : Severity[c.status] <= Severity[HealthStatus(some)]
<1>. DEFINE S == {Severity[c.status] : c \in some} \cup {0}
            n == Severity[HealthStatus(some)]
<1>1. /\ DOMAIN Severity = {"ok", "warning", "error"}
      /\ Severity["ok"] = 0 /\ Severity["warning"] = 1 /\ Severity["error"] = 2
  BY DEF Severity
<1>2. \A c \in some : c.status \in {"ok", "warning", "error"}
  BY <1>1
<1>3. HealthStatus(some) \in {"ok", "warning", "error"}
  BY DEF HealthStatus
<1>4. S \in SUBSET Int
  BY <1>1, <1>2
<1>5. n \in S
  BY <1>1, <1>2 DEF HealthStatus
<1>6. \A c \in some : Severity[c.status] <= n
  BY <1>1, <1>2 DEF HealthStatus
<1>7. 0 <= n
  BY <1>1, <1>3
<1>. HIDE DEF n
<1>8. \A k \in S : k <= n
  BY <1>6, <1>7
<1>. HIDE DEF S
<1>9. Max(S) = n
  BY <1>4, <1>5, <1>8, MaxIsGreatest
<1>. QED
  BY <1>1, <1>3, <1>6, <1>9 DEF WorstOf, S, n

\* What is said of the fleet as a whole is the worst of what is listed below
\* it, for any number of checks and alerts.  engine_source has no category.
THEOREM HealthRollsUp ==
    ASSUME NEW checks, NEW queues,
           \A c \in checks : /\ c.status \in DOMAIN Severity
                             /\ IF c.name = "engine_source" THEN c.category = NoCategory
                                ELSE c.category \in Categories,
           \A q \in queues : q.status \in DOMAIN Severity
    PROVE  HealthAgrees(checks, queues)
<1>. DEFINE summary == HealthSummary(checks)
            alerts == CoordinationAlerts(checks, queues)
<1>1. ASSUME NEW category \in Categories
      PROVE  Severity[RollupForCategory(summary, category)]
                = WorstOf(CategorizedChecks(checks, category))
  <2>1. NoCategory \notin Categories
    BY DEF NoCategory, Categories
  <2>2. CategorizedChecks(checks, category) = {c \in checks : c.category = category}
    BY <2>1 DEF CategorizedChecks, CategoryForCheck
  <2>3. RollupForCategory(summary, category)
           = HealthStatus({c \in checks : c.category = category})
    BY DEF RollupForCategory, HealthSummary
  <2>. DEFINE some == {c \in checks : c.category = category}
  <2>4. \A c \in some : c.status \in DOMAIN Severity
    OBVIOUS
  <2>. HIDE DEF some
  <2>5. Severity[HealthStatus(some)] = WorstOf(some)
    BY <2>4, StatusIsWorst
  <2>. QED
    BY <2>2, <2>3, <2>5 DEF some
<1>2. Severity[summary.status] = WorstOf(checks) /\ summary.status = HealthStatus(checks)
  BY StatusIsWorst DEF HealthSummary
<1>3. \A a \in alerts : a.status \in DOMAIN Severity
  BY DEF CoordinationAlerts
<1>. HIDE DEF alerts
<1>4. /\ Severity[CoordinationAlertRollup(alerts)] = WorstOf(alerts)
      /\ \A a \in alerts : Severity[a.status] <= Severity[CoordinationAlertRollup(alerts)]
      /\ CoordinationAlertRollup(alerts) \in DOMAIN Severity
  BY <1>3, StatusIsWorst DEF CoordinationAlertRollup
<1>5. Severity[CoordinationAlertRollup(alerts)] >= Severity[summary.status]
  <2>1. /\ DOMAIN Severity = {"ok", "warning", "error"}
        /\ Severity["ok"] = 0 /\ Severity["warning"] = 1 /\ Severity["error"] = 2
    BY DEF Severity
  <2>2. CASE HealthStatus(checks) = "ok"
    BY <1>2, <1>4, <2>1, <2>2
  <2>3. CASE HealthStatus(checks) # "ok"
    <3>1. PICK c \in checks : c.status = HealthStatus(checks)
      BY <2>3 DEF HealthStatus
    <3>2. [key |-> c.name, status |-> c.status] \in alerts
      BY <2>3, <3>1 DEF alerts, CoordinationAlerts
    <3>3. Severity[c.status] <= Severity[CoordinationAlertRollup(alerts)]
      BY <1>4, <3>2
    <3>. QED
      BY <1>2, <1>4, <2>1, <3>1, <3>3
  <2>. QED
    BY <2>2, <2>3
<1>. QED
  BY <1>1, <1>2, <1>4, <1>5 DEF HealthAgrees, WorstOf, alerts

\* An age is never overstated, nor understated by its smallest unit.
LEMMA DurationsTold ==
    ASSUME NEW halves \in Int
    PROVE  LET label == DurationLabel(halves)
               told == CASE Len(label) = 2 -> label[2]
                         [] Len(label) = 3 -> 60 * label[2] + label[3]
                         [] Len(label) = 4 -> 3600 * label[2] + 60 * label[3] + label[4]
                         [] OTHER -> 0
           IN  /\ 2 * told <= halves \/ halves < 0
               /\ halves < 2 * told + 2
               /\ label = <<"fresh">> <=> halves <= 0
               /\ Len(label) = 3 => label[3] < 60
               /\ Len(label) = 4 => label[3] < 60 /\ label[4] < 60
<1>. DEFINE label == DurationLabel(halves)
            told == CASE Len(label) = 2 -> label[2]
                      [] Len(label) = 3 -> 60 * label[2] + label[3]
                      [] Len(label) = 4 -> 3600 * label[2] + 60 * label[3] + label[4]
                      [] OTHER -> 0
            s == halves \div 2
<1>1. s \in Int /\ 2 * s <= halves /\ halves < 2 * s + 2
  OBVIOUS
<1>2. label = IF halves <= 0 THEN <<"fresh">>
              ELSE IF s = 0 THEN <<"<1s">>
              ELSE IF s < 60 THEN <<"s", s>>
              ELSE IF s < 3600 THEN <<"ms", s \div 60, s % 60>>
              ELSE <<"hms", s \div 3600, (s % 3600) \div 60, s % 60>>
  BY DEF DurationLabel
<1>. HIDE DEF s, label
<1>3. CASE halves <= 0
  <2>1. label = <<"fresh">> /\ Len(label) = 1
    BY <1>2, <1>3
  <2>. QED
    BY <1>3, <2>1 DEF label
<1>4. CASE halves > 0 /\ s = 0
  <2>1. label = <<"<1s">> /\ Len(label) = 1 /\ label # <<"fresh">>
    BY <1>2, <1>4
  <2>. QED
    BY <1>1, <1>4, <2>1 DEF label
<1>5. CASE halves > 0 /\ s # 0 /\ s < 60
  <2>1. label = <<"s", s>> /\ Len(label) = 2 /\ label # <<"fresh">> /\ label[2] = s
    BY <1>2, <1>5
  <2>. QED
    BY <1>1, <1>5, <2>1 DEF label
<1>6. CASE halves > 0 /\ ~(s < 60) /\ s < 3600
  <2>. DEFINE minutes == s \div 60
              rest == s % 60
  <2>1. label = <<"ms", minutes, rest>>
    BY <1>1, <1>2, <1>6
  <2>2. minutes \in Int /\ rest \in Int /\ rest < 60 /\ 60 * minutes + rest = s
    BY <1>1, <1>6
  <2>. HIDE DEF minutes, rest
  <2>3. Len(label) = 3 /\ label # <<"fresh">> /\ label[2] = minutes /\ label[3] = rest
    BY <2>1
  <2>. QED
    BY <1>1, <1>6, <2>2, <2>3 DEF label
<1>7. CASE halves > 0 /\ ~(s < 3600)
  <2>. DEFINE hours == s \div 3600
              minutes == (s % 3600) \div 60
              rest == s % 60
  <2>1. label = <<"hms", hours, minutes, rest>>
    BY <1>1, <1>2, <1>7
  <2>2. /\ hours \in Int /\ minutes \in Int /\ rest \in Int
        /\ minutes < 60 /\ rest < 60 /\ 3600 * hours + 60 * minutes + rest = s
    BY <1>1, <1>7
  <2>. HIDE DEF hours, minutes, rest
  <2>3. /\ Len(label) = 4 /\ label # <<"fresh">>
        /\ label[2] = hours /\ label[3] = minutes /\ label[4] = rest
    BY <2>1
  <2>. QED
    BY <1>1, <1>7, <2>2, <2>3 DEF label
<1>. QED
  BY <1>1, <1>3, <1>4, <1>5, <1>6, <1>7

\* A row is red exactly when its heartbeat is older than five minutes, and the
\* age printed beside it says so too: for every age, and every duration.
THEOREM AgesTold ==
    ASSUME NEW worker, Has(worker, "age") => worker.age \in Nat, NEW halves \in Int
    PROVE  AgesAreTold(worker, halves)
<1>. DEFINE ago == FormatHeartbeat(worker)
            age == worker.age
<1>1. /\ HeartbeatClass(worker) = "text-danger" <=> WorkerRowClass(worker) = "stale"
      /\ HeartbeatClass(worker) = "text-danger" <=> IsHeartbeatStale(worker)
      /\ HeartbeatClass(worker) = "text-success" <=> ~IsHeartbeatStale(worker)
  BY DEF HeartbeatClass, WorkerRowClass
<1>2. /\ ago \in {<<"never">>, <<"date">>} => IsHeartbeatStale(worker)
      /\ Len(ago) = 2 =>
            /\ ago[1] * ago[2] <= age /\ age < (ago[1] + 1) * ago[2]
            /\ IsHeartbeatStale(worker) => ago[1] * ago[2] >= StaleAfter
            /\ ~IsHeartbeatStale(worker) => ago[1] * ago[2] <= StaleAfter
  <2>1. CASE ~Has(worker, "age")
    <3>1. ago = <<"never">> /\ Len(ago) = 1 /\ IsHeartbeatStale(worker)
      BY <2>1 DEF FormatHeartbeat, IsHeartbeatStale
    <3>. QED
      BY <3>1
  <2>2. CASE Has(worker, "age")
    <3>. DEFINE minutes == age \div 60
                hours == age \div 3600
    <3>1. age \in Nat /\ (IsHeartbeatStale(worker) <=> age > 300)
      BY <2>2 DEF IsHeartbeatStale, StaleAfter
    <3>2. /\ minutes \in Nat /\ 60 * minutes <= age /\ age < 60 * (minutes + 1)
          /\ hours \in Nat /\ 3600 * hours <= age /\ age < 3600 * (hours + 1)
      BY <3>1
    <3>3. ago = IF age < 60 THEN <<age, 1>>
                ELSE IF age < 3600 THEN <<minutes, 60>>
                ELSE IF age < 86400 THEN <<hours, 3600>>
                ELSE <<"date">>
      BY <2>2 DEF FormatHeartbeat
    <3>. HIDE DEF age, minutes, hours, ago
    <3>4. CASE age < 60
      <4>1. ago = <<age, 1>>
        BY <3>3, <3>4
      <4>2. Len(ago) = 2 /\ ago[1] = age /\ ago[2] = 1
        BY <4>1
      <4>. QED
        BY <3>1, <3>4, <4>2 DEF StaleAfter
    <3>5. CASE ~(age < 60) /\ age < 3600
      <4>1. ago = <<minutes, 60>>
        BY <3>3, <3>5
      <4>2. Len(ago) = 2 /\ ago[1] = minutes /\ ago[2] = 60
        BY <4>1
      <4>. QED
        BY <3>1, <3>2, <3>5, <4>2 DEF StaleAfter
    <3>6. CASE ~(age < 3600) /\ age < 86400
      <4>1. ago = <<hours, 3600>>
        BY <3>1, <3>3, <3>6
      <4>2. Len(ago) = 2 /\ ago[1] = hours /\ ago[2] = 3600
        BY <4>1
      <4>. QED
        BY <3>1, <3>2, <3>6, <4>2 DEF StaleAfter
    <3>7. CASE ~(age < 86400)
      <4>1. ago = <<"date">> /\ Len(ago) = 1
        BY <3>1, <3>3, <3>7
      <4>. QED
        BY <3>1, <3>7, <4>1
    <3>. QED
      BY <3>1, <3>4, <3>5, <3>6, <3>7
  <2>. QED
    BY <2>1, <2>2
<1>. QED
  BY <1>1, <1>2, DurationsTold DEF AgesAreTold

\* A badge has the colour of what it says, of every queue and build: the word
\* for a build no worker can take is none of the engine's rollout statuses
\* (queueToneClass, queueStatusLabel, buildIdToneClass, buildIdStatusLabel).
THEOREM TonesAgree ==
    ASSUME NEW queue, \A f \in DOMAIN queue : queue[f] \in Nat,
           NEW build, build.rollout # "no-compatible-worker"
    PROVE  TonesFollowLabels(queue, build)
<1>. DEFINE CountOf(f) == IntegerLabel(queue, f)
<1>1. \A f : CountOf(f) \in Nat
  BY DEF IntegerLabel, Has
<1>. HIDE DEF CountOf
<1>2. QueueStatusLabel(queue) = "healthy" <=>
         ~(CountOf("candidates") > 0) /\ ~Unpolled(queue) /\ ~(CountOf("stale") > 0)
  BY DEF QueueStatusLabel, CountOf
<1>3. QueueToneClass(queue) = "is-ok" <=>
         ~(CountOf("candidates") > 0) /\ ~Unpolled(queue) /\ ~(CountOf("stale") > 0)
  BY DEF QueueToneClass, CountOf
<1>4. QueueStatusLabel(queue) = "stale-pollers" <=> QueueToneClass(queue) = "is-info"
  BY DEF QueueStatusLabel, QueueToneClass
<1>5. Unpolled(queue) => QueueToneClass(queue) = "is-warning"
  BY DEF QueueToneClass
<1>6. BuildIdToneClass(build) = "is-error" <=> BuildIdStatusLabel(build) = "no-compatible-worker"
  <2>. DEFINE tone == BuildIdToneClass(build)
              word == BuildIdStatusLabel(build)
  <2>1. CASE build.pending = "no_compatible_worker"
    BY <2>1 DEF BuildIdToneClass, BuildIdStatusLabel
  <2>2. CASE build.pending # "no_compatible_worker"
    <3>1. word \in {"selected", "observed", build.rollout}
      BY <2>2 DEF BuildIdStatusLabel
    <3>2. tone \in {"is-ok", "is-warning", "is-muted"}
      BY <2>2 DEF BuildIdToneClass
    <3>. QED
      BY <3>1, <3>2
  <2>. QED
    BY <2>1, <2>2
<1>. QED
  BY <1>2, <1>3, <1>4, <1>5, <1>6 DEF TonesFollowLabels

\* A build's warning is in the colour of an error where no worker can take its
\* tasks, and its badge says selected only with the line below it.
LEMMA BuildsWarn ==
    ASSUME NEW build, build.total \in Nat, build.new_start_selected \in BOOLEAN,
           build.rollout # "selected"
    PROVE  BuildsAreWarnedOf(build)
<1>. DEFINE warning == BuildIdPendingLabel(build)
<1>1. warning # <<>> /\ warning[2] = "without-an-active-compatible-worker"
         => BuildIdToneClass(build) = "is-error"
  BY DEF BuildIdPendingLabel, BuildIdToneClass
<1>2. warning # <<>> => warning[1] > 0
  BY DEF BuildIdPendingLabel
<1>3. BuildIdStatusLabel(build) = "selected" => BuildIdRolloutMeta(build) # {}
  <2>. SUFFICES ASSUME ~build.new_start_selected
                PROVE  BuildIdStatusLabel(build) # "selected"
    BY DEF BuildIdRolloutMeta, When
  <2>1. BuildIdStatusLabel(build) \in {"no-compatible-worker", "observed", build.rollout}
    BY DEF BuildIdStatusLabel
  <2>. QED
    BY <2>1
<1>. QED
  BY <1>1, <1>2, <1>3 DEF BuildsAreWarnedOf

\* The badge of a queue says what its card shows, whichever figures are left
\* out (queueStatusLabel, the template's cards).
LEMMA BadgesReadCards ==
    ASSUME NEW queue, \A f \in DOMAIN queue : queue[f] \in Nat, NEW visibility,
           Has(visibility, "task_queues") => visibility.task_queues # <<"No-task-queues-observed">>
    PROVE  BadgeReadsCard(queue, visibility)
<1>. DEFINE card == QueueCard(queue)
            panel == QueuePanel(visibility)
            CountOf(f) == IntegerLabel(queue, f)
<1>1. \A f : CountOf(f) \in Nat
  BY DEF IntegerLabel, Has
<1>2. /\ card.candidates = CountOf("candidates") /\ card.backlog = CountOf("backlog")
      /\ card.active = CountOf("active") /\ card.stale = CountOf("stale")
  BY DEF QueueCard
<1>3. Unpolled(queue) <=> CountOf("backlog") > 0 /\ CountOf("active") = 0
  BY DEF Unpolled
<1>. HIDE DEF card, CountOf
<1>4. QueueStatusLabel(queue) = "healthy" <=>
         ~(CountOf("candidates") > 0) /\ ~Unpolled(queue) /\ ~(CountOf("stale") > 0)
  BY DEF QueueStatusLabel, CountOf
<1>5. QueueStatusLabel(queue) = "no-active-pollers" => Unpolled(queue)
  BY DEF QueueStatusLabel
<1>6. panel = <<"No-task-queues-observed">> => Is(visibility, "available", TRUE)
  BY DEF QueuePanel, Rows
<1>7. /\ CountOf("candidates") \in Nat /\ CountOf("backlog") \in Nat
      /\ CountOf("active") \in Nat /\ CountOf("stale") \in Nat
  BY <1>1
<1>8. QueueStatusLabel(queue) = "healthy" <=>
         /\ card.candidates = 0 /\ card.stale = 0
         /\ card.backlog = 0 \/ card.active > 0
  <2>1. /\ CountOf("candidates") > 0 <=> CountOf("candidates") # 0
        /\ CountOf("stale") > 0 <=> CountOf("stale") # 0
        /\ CountOf("active") > 0 <=> CountOf("active") # 0
        /\ CountOf("backlog") > 0 <=> CountOf("backlog") # 0
    BY <1>7
  <2>. QED
    BY <1>2, <1>3, <1>4, <2>1
<1>. QED
  BY <1>2, <1>3, <1>5, <1>6, <1>8 DEF BadgeReadsCard, card

\* The two badges of a worker made of a compatibility heartbeat agree.
LEMMA EntriesAgree == ASSUME NEW entry PROVE FleetEntriesAgree(entry)
<1>. DEFINE worker == FleetEntryToWorker(entry)
            cell == CompatibilityCell(worker)
            supports == Is(entry, "supports_required", TRUE)
<1>1. /\ supports \in BOOLEAN /\ worker.supports_required = supports
      /\ Has(worker, "supports_required") /\ Has(worker, "status")
      /\ worker.status = IF supports THEN "active" ELSE "incompatible"
  BY DEF FleetEntryToWorker, Has, Is
<1>2. cell # <<>> => cell.word = IF supports THEN <<"is-ok", "Supports-required-marker">>
                                 ELSE <<"is-warning", "Does-not-support-required-marker">>
  BY <1>1 DEF CompatibilityCell
<1>. HIDE DEF worker, cell, supports
<1>3. CASE supports
  <2>1. WorkerStatusToneClass(worker) = "is-ok"
    BY <1>1, <1>3 DEF WorkerStatusToneClass, IsIn, StatusTones
  <2>. QED
    BY <1>2, <1>3, <2>1 DEF FleetEntriesAgree, worker, cell
<1>4. CASE ~supports
  <2>1. WorkerStatusToneClass(worker) = "is-warning"
    BY <1>1, <1>4 DEF WorkerStatusToneClass, IsIn, StatusTones
  <2>. QED
    BY <1>2, <1>4, <2>1 DEF FleetEntriesAgree, worker, cell
<1>. QED
  BY <1>3, <1>4

\* Free slots are told of every kind, none as zero and not as unknown, for any
\* worker and any choice of columns (slotsCell, formatSlotPair).
LEMMA SlotsTold == ASSUME NEW worker, NEW preferences PROVE SlotsAreTold(worker, preferences)
<1>. DEFINE cells == WorkerCells(worker, preferences)
            enabled == EnabledColumns(preferences)
<1>1. "worker_id" \in enabled
  BY DEF EnabledColumns, WorkersListColumns
<1>2. /\ "slots" \in DOMAIN cells <=> "slots" \in enabled
      /\ "slots" \in DOMAIN cells => cells.slots = SlotsCell(worker)
  BY DEF WorkerCells
<1>3. ASSUME NEW kind \in Kinds
      PROVE  /\ SlotAvailable(worker, kind) # <<>> => kind \in DOMAIN SlotsCell(worker)
             /\ kind \in DOMAIN SlotsCell(worker) =>
                   SlotsCell(worker)[kind]
                      = FormatSlotPair(SlotAvailable(worker, kind), SlotCapacity(worker, kind))
  BY DEF SlotsCell, HasSlotData
<1>4. \A free, of : /\ FormatSlotPair(free, of).free = free
                    /\ FormatSlotPair(free, of).of # <<>> => FormatSlotPair(free, of).of = of
  BY DEF FormatSlotPair
<1>. HIDE DEF cells, enabled
<1>. QED
  BY <1>1, <1>2, <1>3, <1>4 DEF SlotsAreTold, cells, enabled

\* The heading counts what is listed, in the colour of the worst of it.
LEMMA HeadingCounts ==
    ASSUME NEW alerts, IsFiniteSet(alerts), \A a \in alerts : a.status \in {"error", "warning"}
    PROVE  HeadingCountsAlerts(alerts)
<1>. DEFINE errors == {a \in alerts : a.status = "error"}
            warnings == {a \in alerts : a.status = "warning"}
            heading == AlertHeading(alerts)
<1>1. IsFiniteSet(errors) /\ IsFiniteSet(warnings)
  BY FS_Subset
<1>2. alerts = errors \cup warnings /\ errors \cap warnings = {}
  OBVIOUS
<1>3. /\ heading.errors = Cardinality(errors) /\ heading.warnings = Cardinality(warnings)
      /\ heading.open = Cardinality(alerts)
      /\ heading.tone = StatusTones[HealthStatus(alerts)]
  BY DEF AlertHeading, CoordinationAlertRollup
<1>4. HealthStatus(alerts) = IF errors # {} THEN "error"
                             ELSE IF warnings # {} THEN "warning" ELSE "ok"
  BY DEF HealthStatus
<1>. HIDE DEF errors, warnings, heading
<1>5. /\ Cardinality(alerts) = Cardinality(errors) + Cardinality(warnings)
      /\ Cardinality(errors) \in Nat /\ Cardinality(warnings) \in Nat
  BY <1>1, <1>2, DisjointCounts
<1>6. /\ Cardinality(errors) = 0 <=> errors = {}
      /\ Cardinality(warnings) = 0 <=> warnings = {}
  BY <1>1, FS_EmptySet
<1>7. heading.tone = IF errors # {} THEN "is-error"
                     ELSE IF warnings # {} THEN "is-warning" ELSE "is-ok"
  BY <1>3, <1>4 DEF StatusTones
<1>8. /\ heading.tone = "is-error" <=> errors # {}
      /\ heading.tone = "is-ok" <=> errors = {} /\ warnings = {}
  BY <1>7
<1>9. /\ heading.errors > 0 <=> errors # {}
      /\ heading.open = 0 <=> errors = {} /\ warnings = {}
      /\ heading.errors + heading.warnings = heading.open
  BY <1>3, <1>5, <1>6
<1>. QED
  BY <1>8, <1>9 DEF HeadingCountsAlerts, heading

IsFigures(of, fields) == \A f \in Shown(of, fields) : of[f] \in Nat

\* What the engine says of routing: counts and ages, and drains in a record of
\* their own.
IsRoutingFacts(facts) ==
    /\ IsFigures(facts, DOMAIN RoutingFactWords \cup BlockedAges
                           \cup {"active_workers", "active_workers_supporting_required"})
    /\ Has(facts, "routing_drains") => /\ DOMAIN facts.routing_drains \subseteq Drains
                                       /\ IsFigures(facts.routing_drains, Drains)

\* A count is told exactly when there is something to count.
LEMMA TellIs ==
    ASSUME NEW of, NEW words, IsFigures(of, DOMAIN words),
           \A f, g \in DOMAIN words : words[f] = words[g] => f = g,
           NEW f \in DOMAIN words, NEW v
    PROVE  <<words[f], v>> \in Tell(of, words) <=> Has(of, f) /\ v = of[f] /\ v # 0
<1>1. \A g \in DOMAIN words : Positive(of, g) <=> Has(of, g) /\ of[g] # 0
  BY DEF Positive, IsFigures, Shown, Has
<1>2. \A g, u : <<words[f], v>> = <<words[g], u>> <=> words[f] = words[g] /\ v = u
  OBVIOUS
<1>3. <<words[f], v>> \in Tell(of, words) <=>
         \E g \in DOMAIN words : Positive(of, g) /\ words[f] = words[g] /\ v = of[g]
  BY <1>2 DEF Tell
<1>. QED
  BY <1>1, <1>3

LEMMA RoutingWordsDiffer ==
    /\ \A f, g \in DOMAIN RoutingFactWords : RoutingFactWords[f] = RoutingFactWords[g] => f = g
    /\ \A f \in DOMAIN RoutingFactWords :
          RoutingFactWords[f] \notin {"matching_shape", "task_dispatch_mode", "wake-enabled",
              "wake-disabled", "no-fleet-coverage-for", "workers-support-required-marker",
              "max-age"}
  BY DEF RoutingFactWords

LEMMA QueueWordsDiffer ==
    /\ \A f, g \in DOMAIN QueueFactWords : QueueFactWords[f] = QueueFactWords[g] => f = g
    /\ \A f \in DOMAIN QueueFactWords : QueueFactWords[f] \notin {"no-fleet-coverage-for", "max-age"}
  BY DEF QueueFactWords

LEMMA TellsPairs ==
    ASSUME NEW of, NEW words, NEW fact \in Tell(of, words)
    PROVE  /\ Len(fact) = 2
           /\ \E f \in DOMAIN words : fact = <<words[f], of[f]>> /\ fact[1] = words[f]
  BY DEF Tell

\* The parts of a routing alert's facts, and what each looks like.
LabelFacts(facts) ==
    {<<label, facts[label]>> : label \in Shown(facts, {"matching_shape", "task_dispatch_mode"})}
WakeFacts(facts) ==
    When(Is(facts, "queue_wake_enabled", TRUE), {<<"wake-enabled">>})
        \cup When(Is(facts, "queue_wake_enabled", FALSE), {<<"wake-disabled">>})
CoverFacts(facts) ==
    When(Is(facts, "fleet_supports_required", FALSE),
         {<<"no-fleet-coverage-for", FirstOf(facts, <<"required_compatibility">>)>>})
ShareFacts(facts) ==
    LET supporting == IntegerLabel(facts, "active_workers_supporting_required")
        active == IntegerLabel(facts, "active_workers")
    IN  When(active > 0 /\ supporting < active,
             {<<"workers-support-required-marker", supporting, active>>})
AgeFacts(facts) ==
    LET ages == {facts[age] : age \in Shown(facts, BlockedAges)}
        Oldest == CHOOSE age \in ages : \A other \in ages : other <= age
    IN  When(\E age \in ages : age > 0, {<<"max-age", DurationLabel(Oldest)>>})

LEMMA RoutingFactsAre ==
    ASSUME NEW facts
    PROVE  RoutingHealthAlertFacts(facts)
              = Tell(WithDrains(facts), RoutingFactWords) \cup LabelFacts(facts)
                   \cup WakeFacts(facts) \cup CoverFacts(facts) \cup ShareFacts(facts)
                   \cup AgeFacts(facts)
<1>1. FleetCoverage(facts) = CoverFacts(facts) \cup ShareFacts(facts)
  BY DEF FleetCoverage, CoverFacts, ShareFacts
<1>. DEFINE tell == Tell(WithDrains(facts), RoutingFactWords)
<1>2. RoutingHealthAlertFacts(facts)
         = tell \cup LabelFacts(facts)
              \cup When(Is(facts, "queue_wake_enabled", TRUE), {<<"wake-enabled">>})
              \cup When(Is(facts, "queue_wake_enabled", FALSE), {<<"wake-disabled">>})
              \cup FleetCoverage(facts) \cup AgeFacts(facts)
  BY DEF RoutingHealthAlertFacts, LabelFacts, AgeFacts
<1>. HIDE DEF tell
<1>3. RoutingHealthAlertFacts(facts)
         = tell \cup LabelFacts(facts) \cup WakeFacts(facts) \cup CoverFacts(facts)
              \cup ShareFacts(facts) \cup AgeFacts(facts)
  BY <1>1, <1>2 DEF WakeFacts
<1>. QED
  BY <1>3 DEF tell

LEMMA PartsAre ==
    ASSUME NEW facts
    PROVE  /\ \A x \in LabelFacts(facts) :
                 x[1] \in {"matching_shape", "task_dispatch_mode"} /\ Len(x) = 2
           /\ \A x \in WakeFacts(facts) : x[1] \in {"wake-enabled", "wake-disabled"} /\ Len(x) = 1
           /\ \A x \in CoverFacts(facts) : x[1] = "no-fleet-coverage-for" /\ Len(x) = 2
           /\ CoverFacts(facts) # {} <=> Is(facts, "fleet_supports_required", FALSE)
           /\ \A x \in ShareFacts(facts) : /\ x[1] = "workers-support-required-marker"
                                           /\ x[2] < x[3] /\ x[3] = facts.active_workers
           /\ \A x \in AgeFacts(facts) : x[1] = "max-age" /\ Len(x) = 2
           /\ AgeFacts(facts) # {} <=> \E a \in BlockedAges : Positive(facts, a)
<1>1. \A x \in LabelFacts(facts) :
         x[1] \in {"matching_shape", "task_dispatch_mode"} /\ Len(x) = 2
  BY DEF LabelFacts, Shown
<1>2. \A x \in WakeFacts(facts) : x[1] \in {"wake-enabled", "wake-disabled"} /\ Len(x) = 1
  <2>1. WakeFacts(facts) \subseteq {<<"wake-enabled">>, <<"wake-disabled">>}
    BY DEF WakeFacts, When
  <2>. QED
    BY <2>1
<1>3. /\ \A x \in CoverFacts(facts) : x[1] = "no-fleet-coverage-for" /\ Len(x) = 2
      /\ CoverFacts(facts) # {} <=> Is(facts, "fleet_supports_required", FALSE)
  <2>. DEFINE lost == Is(facts, "fleet_supports_required", FALSE)
              fact == <<"no-fleet-coverage-for", FirstOf(facts, <<"required_compatibility">>)>>
  <2>1. CoverFacts(facts) = IF lost THEN {fact} ELSE {}
    BY DEF CoverFacts, When
  <2>2. fact[1] = "no-fleet-coverage-for" /\ Len(fact) = 2
    OBVIOUS
  <2>. HIDE DEF lost, fact
  <2>3. /\ \A x \in CoverFacts(facts) : x[1] = "no-fleet-coverage-for" /\ Len(x) = 2
        /\ CoverFacts(facts) # {} <=> lost
    <3>1. CASE lost
      BY <2>1, <2>2, <3>1
    <3>2. CASE ~lost
      BY <2>1, <3>2
    <3>. QED
      BY <3>1, <3>2
  <2>. QED
    BY <2>3 DEF lost
<1>4. \A x \in ShareFacts(facts) : /\ x[1] = "workers-support-required-marker"
                                   /\ x[2] < x[3] /\ x[3] = facts.active_workers
  <2>. DEFINE Supporting == IntegerLabel(facts, "active_workers_supporting_required")
              Active == IntegerLabel(facts, "active_workers")
  <2>1. Active > 0 => Active = facts.active_workers
    BY DEF IntegerLabel, Has
  <2>2. ShareFacts(facts) = IF Active > 0 /\ Supporting < Active
                            THEN {<<"workers-support-required-marker", Supporting, Active>>} ELSE {}
    BY DEF ShareFacts, When
  <2>. HIDE DEF Active, Supporting
  <2>. QED
    BY <2>1, <2>2
<1>5. /\ \A x \in AgeFacts(facts) : x[1] = "max-age" /\ Len(x) = 2
      /\ AgeFacts(facts) # {} <=> \E a \in BlockedAges : Positive(facts, a)
  <2>. DEFINE ages == {facts[a] : a \in Shown(facts, BlockedAges)}
              oldest == DurationLabel(CHOOSE a \in ages : \A other \in ages : other <= a)
              some == \E a \in ages : a > 0
              fact == <<"max-age", oldest>>
  <2>1. AgeFacts(facts) = IF some THEN {fact} ELSE {}
    BY DEF AgeFacts, When
  <2>2. some <=> \E a \in BlockedAges : Positive(facts, a)
    BY DEF Positive, Shown, Has
  <2>. HIDE DEF oldest, some
  <2>3. fact[1] = "max-age" /\ Len(fact) = 2
    OBVIOUS
  <2>. HIDE DEF fact
  <2>4. /\ \A x \in AgeFacts(facts) : x[1] = "max-age" /\ Len(x) = 2
        /\ AgeFacts(facts) # {} <=> some
    <3>1. CASE some
      BY <2>1, <2>3, <3>1
    <3>2. CASE ~some
      BY <2>1, <3>2
    <3>. QED
      BY <3>1, <3>2
  <2>. QED
    BY <2>2, <2>4
<1>. QED
  BY <1>1, <1>2, <1>3, <1>4, <1>5

LEMMA DrainsAreFigures ==
    ASSUME NEW facts, IsRoutingFacts(facts)
    PROVE  LET all == WithDrains(facts)
               drains == Rows(facts, "routing_drains")
           IN  /\ IsFigures(all, DOMAIN RoutingFactWords)
               /\ \A f : Has(all, f) <=> Has(facts, f) \/ Has(drains, f)
               /\ \A f : Has(facts, f) => all[f] = facts[f]
               /\ \A f : Has(drains, f) /\ ~Has(facts, f) => all[f] = drains[f]
<1>. DEFINE all == WithDrains(facts)
            drains == Rows(facts, "routing_drains")
<1>1. Shown(drains, Drains) = DOMAIN drains /\ IsFigures(drains, Drains)
  BY DEF Rows, IsRoutingFacts, Shown, IsFigures
<1>. HIDE DEF drains
<1>2. all = [f \in DOMAIN facts \cup DOMAIN drains |->
                IF Has(facts, f) THEN facts[f] ELSE drains[f]]
  BY <1>1 DEF WithDrains, drains
<1>3. IsFigures(all, DOMAIN RoutingFactWords)
  <2>. SUFFICES ASSUME NEW f \in DOMAIN RoutingFactWords, f \in DOMAIN all
                PROVE  all[f] \in Nat
    BY DEF IsFigures, Shown
  <2>. HIDE DEF all
  <2>1. CASE Has(facts, f)
    BY <1>2, <2>1 DEF IsRoutingFacts, IsFigures, Shown, Has
  <2>2. CASE ~Has(facts, f)
    BY <1>1, <1>2, <2>2 DEF IsFigures, Shown, Has
  <2>. QED
    BY <2>1, <2>2
<1>. HIDE DEF all
<1>. QED
  BY <1>2, <1>3 DEF all, drains, Has

ToldOf(told, words, f) == {fact[2] : fact \in {other \in told : other[1] = words[f]}}

\* Facts told once of figures that are not zero: the heads of the others are
\* not among the words.
LEMMA TellReports ==
    ASSUME NEW of, NEW words, IsFigures(of, DOMAIN words),
           \A f, g \in DOMAIN words : words[f] = words[g] => f = g,
           NEW others, \A x \in others : \A f \in DOMAIN words : x[1] # words[f],
           NEW f \in DOMAIN words
    PROVE  ToldOf(Tell(of, words) \cup others, words, f)
              = (IF Has(of, f) THEN {of[f]} ELSE {}) \ {0}
<1>. DEFINE told == Tell(of, words) \cup others
            here == {other \in told : other[1] = words[f]}
<1>1. \A x \in here : Has(of, f) /\ of[f] # 0 /\ x[2] = of[f]
  <2>. SUFFICES ASSUME NEW x \in here PROVE Has(of, f) /\ of[f] # 0 /\ x[2] = of[f]
    OBVIOUS
  <2>1. x \in Tell(of, words) /\ x[1] = words[f]
    OBVIOUS
  <2>2. PICK g \in DOMAIN words : x = <<words[g], of[g]>> /\ x[1] = words[g]
    BY <2>1, TellsPairs
  <2>3. g = f
    BY <2>1, <2>2
  <2>. QED
    BY <2>1, <2>2, <2>3, TellIs
<1>2. ASSUME Has(of, f), of[f] # 0 PROVE <<words[f], of[f]>> \in here
  <2>1. <<words[f], of[f]>> \in Tell(of, words)
    BY <1>2, TellIs
  <2>. QED
    BY <2>1
<1>3. CASE Has(of, f) /\ of[f] # 0
  <2>. HIDE DEF here
  <2>. DEFINE x == <<words[f], of[f]>>
  <2>1. x \in here /\ x[2] = of[f]
    BY <1>2, <1>3
  <2>. HIDE DEF x
  <2>2. {fact[2] : fact \in here} = {of[f]}
    BY <1>1, <2>1
  <2>. QED
    BY <1>3, <2>2 DEF here, ToldOf
<1>4. CASE ~(Has(of, f) /\ of[f] # 0)
  <2>. HIDE DEF here
  <2>1. here = {}
    BY <1>1, <1>4
  <2>2. (IF Has(of, f) THEN {of[f]} ELSE {}) \ {0} = {}
    BY <1>4
  <2>. QED
    BY <2>1, <2>2 DEF here, ToldOf
<1>. QED
  BY <1>3, <1>4

\* The queues an alert names and those it counts are all of them.
LEMMA QueuesAreCounted ==
    ASSUME NEW Names, NEW alert, Rows(alert, "queues") \in Seq(Names)
    PROVE  LET queues == CoordinationAlertQueues(alert)
           IN  Len(queues.named) + queues.more = Len(Rows(alert, "queues"))
<1>. DEFINE queues == Rows(alert, "queues")
            named == SubSeq(queues, 1, IF Len(queues) > NamedQueues THEN NamedQueues ELSE Len(queues))
<1>1. CoordinationAlertQueues(alert) = [named |-> named, more |-> Len(queues) - Len(named)]
  BY DEF CoordinationAlertQueues
<1>. HIDE DEF queues
<1>2. Len(queues) \in Nat /\ Len(named) \in Nat
  BY DEF NamedQueues, queues
<1>. HIDE DEF named
<1>. QED
  BY <1>1, <1>2 DEF queues

TellsFigures(told, words, figures) ==
    LET drains == Rows(figures, "routing_drains")
        Said(f) == {figures[g] : g \in Shown(figures, {f})}
                      \cup {drains[g] : g \in Shown(drains, {f} \ DOMAIN figures)}
    IN  \A f \in DOMAIN words : ToldOf(told, words, f) = Said(f) \ {0}

TellsRouting(told, facts) ==
    /\ (\E fact \in told : fact[1] = "no-fleet-coverage-for")
          <=> Is(facts, "fleet_supports_required", FALSE)
    /\ \A fact \in told : Len(fact) = 3 => fact[2] < fact[3] /\ fact[3] = facts.active_workers
    /\ (\E fact \in told : fact[1] = "max-age")
          <=> \E age \in BlockedAges : Positive(facts, age)

LEMMA RoutingReported ==
    ASSUME NEW facts, IsRoutingFacts(facts)
    PROVE  /\ TellsFigures(RoutingHealthAlertFacts(facts), RoutingFactWords, facts)
           /\ TellsRouting(RoutingHealthAlertFacts(facts), facts)
<1>. DEFINE told == RoutingHealthAlertFacts(facts)
            words == RoutingFactWords
            drains == Rows(facts, "routing_drains")
            all == WithDrains(facts)
            tell == Tell(all, words)
            labels == LabelFacts(facts)
            wakes == WakeFacts(facts)
            cover == CoverFacts(facts)
            share == ShareFacts(facts)
            age == AgeFacts(facts)
            others == labels \cup wakes \cup cover \cup share \cup age
<1>1. told = tell \cup others
  BY RoutingFactsAre
<1>2. /\ IsFigures(all, DOMAIN words)
      /\ \A f : Has(all, f) <=> Has(facts, f) \/ Has(drains, f)
      /\ \A f : Has(facts, f) => all[f] = facts[f]
      /\ \A f : Has(drains, f) /\ ~Has(facts, f) => all[f] = drains[f]
  BY DrainsAreFigures
<1>3. \A x \in others : \A f \in DOMAIN words : x[1] # words[f]
  BY PartsAre, RoutingWordsDiffer
<1>4. \A x \in told : x[1] = "no-fleet-coverage-for" <=> x \in cover
  <2>1. \A x \in tell \cup labels \cup wakes \cup share \cup age : x[1] # "no-fleet-coverage-for"
    <3>1. \A x \in tell : x[1] # "no-fleet-coverage-for"
      BY TellsPairs, RoutingWordsDiffer
    <3>2. \A x \in labels : x[1] # "no-fleet-coverage-for"
      BY PartsAre
    <3>3. \A x \in wakes : x[1] # "no-fleet-coverage-for"
      BY PartsAre
    <3>4. \A x \in share \cup age : x[1] # "no-fleet-coverage-for"
      BY PartsAre
    <3>. HIDE DEF tell, labels, wakes, share, age
    <3>. QED
      BY <3>1, <3>2, <3>3, <3>4
  <2>2. \A x \in cover : x[1] = "no-fleet-coverage-for"
    BY PartsAre
  <2>. HIDE DEF told, tell, labels, wakes, cover, share, age
  <2>. QED
    BY <1>1, <2>1, <2>2
<1>41. \A x \in told : x[1] = "max-age" <=> x \in age
  <2>1. \A x \in tell \cup labels \cup wakes \cup cover \cup share : x[1] # "max-age"
    <3>1. \A x \in tell : x[1] # "max-age"
      BY TellsPairs, RoutingWordsDiffer
    <3>2. \A x \in labels : x[1] # "max-age"
      BY PartsAre
    <3>3. \A x \in wakes : x[1] # "max-age"
      BY PartsAre
    <3>4. \A x \in cover \cup share : x[1] # "max-age"
      BY PartsAre
    <3>. HIDE DEF tell, labels, wakes, cover, share
    <3>. QED
      BY <3>1, <3>2, <3>3, <3>4
  <2>2. \A x \in age : x[1] = "max-age"
    BY PartsAre
  <2>. HIDE DEF told, tell, labels, wakes, cover, share, age
  <2>. QED
    BY <1>1, <2>1, <2>2
<1>42. \A x \in told : Len(x) = 3 => x \in share
  <2>1. \A x \in tell : Len(x) # 3
    BY TellsPairs
  <2>2. \A x \in labels : Len(x) = 2
    BY PartsAre
  <2>3. \A x \in wakes : Len(x) = 1
    BY PartsAre
  <2>4. \A x \in cover : Len(x) = 2
    BY PartsAre
  <2>5. \A x \in age : Len(x) = 2
    BY PartsAre
  <2>. HIDE DEF told, tell, labels, wakes, cover, share, age
  <2>. QED
    BY <1>1, <2>1, <2>2, <2>3, <2>4, <2>5
<1>5. ASSUME NEW f \in DOMAIN words
      PROVE  ToldOf(told, words, f)
                = ({facts[g] : g \in Shown(facts, {f})}
                     \cup {drains[g] : g \in Shown(drains, {f} \ DOMAIN facts)}) \ {0}
  <2>. HIDE DEF all, words, others, told, drains
  <2>1. ToldOf(told, words, f)
           = (IF Has(all, f) THEN {all[f]} ELSE {}) \ {0}
    <3>1. /\ IsFigures(all, DOMAIN words)
          /\ \A g, h \in DOMAIN words : words[g] = words[h] => g = h
          /\ \A x \in others : \A g \in DOMAIN words : x[1] # words[g]
          /\ f \in DOMAIN words
      BY <1>2, <1>3, RoutingWordsDiffer DEF words
    <3>2. ToldOf(Tell(all, words) \cup others, words, f)
             = (IF Has(all, f) THEN {all[f]} ELSE {}) \ {0}
      BY <3>1, TellReports
    <3>. QED
      BY <1>1, <3>2
  <2>2. (IF Has(all, f) THEN {all[f]} ELSE {})
           = {facts[g] : g \in Shown(facts, {f})}
                \cup {drains[g] : g \in Shown(drains, {f} \ DOMAIN facts)}
    <3>1. CASE Has(facts, f)
      BY <1>2, <3>1 DEF Has, Shown
    <3>2. CASE ~Has(facts, f) /\ Has(drains, f)
      BY <1>2, <3>2 DEF Has, Shown
    <3>3. CASE ~Has(facts, f) /\ ~Has(drains, f)
      BY <1>2, <3>3 DEF Has, Shown
    <3>. QED
      BY <3>1, <3>2, <3>3
  <2>. QED
    BY <2>1, <2>2
<1>6. (\E fact \in told : fact[1] = "no-fleet-coverage-for")
         <=> Is(facts, "fleet_supports_required", FALSE)
  <2>1. cover # {} <=> Is(facts, "fleet_supports_required", FALSE)
    BY PartsAre
  <2>2. (\E fact \in told : fact[1] = "no-fleet-coverage-for") <=> cover # {}
    <3>1. cover \subseteq told
      BY <1>1
    <3>. HIDE DEF told, cover
    <3>. QED
      BY <1>4, <3>1
  <2>. QED
    BY <2>1, <2>2, Zenon
<1>7. \A fact \in told :
         Len(fact) = 3 => fact[2] < fact[3] /\ fact[3] = facts.active_workers
  <2>1. \A x \in share : x[2] < x[3] /\ x[3] = facts.active_workers
    BY PartsAre
  <2>. HIDE DEF told, share
  <2>. QED
    BY <1>42, <2>1
<1>8. (\E fact \in told : fact[1] = "max-age") <=> \E a \in BlockedAges : Positive(facts, a)
  <2>1. age # {} <=> \E a \in BlockedAges : Positive(facts, a)
    BY PartsAre
  <2>2. (\E fact \in told : fact[1] = "max-age") <=> age # {}
    <3>1. age \subseteq told
      BY <1>1
    <3>. HIDE DEF told, age
    <3>. QED
      BY <1>41, <3>1
  <2>. QED
    BY <2>1, <2>2, Zenon
<1>9. TellsFigures(told, words, facts)
  <2>. HIDE DEF told, words
  <2>. QED
    BY <1>5 DEF TellsFigures
<1>. QED
  BY <1>6, <1>7, <1>8, <1>9 DEF TellsRouting

\* What an alert tells was reported, for any figures: each fact is a figure of
\* the answer that is not zero, each figure that is not zero is told, and all
\* queues are named or counted (coordinationAlertFacts, routingHealthAlertFacts).
THEOREM FactsTold ==
    ASSUME NEW Names, NEW alert, Rows(alert, "queues") \in Seq(Names),
           IF IsRouting(alert) THEN Has(alert, "facts") /\ IsRoutingFacts(alert.facts)
           ELSE IsFigures(alert, DOMAIN QueueFactWords) /\ ~Has(alert, "routing_drains")
    PROVE  FactsAreReported(alert)
<1>1. LET queues == CoordinationAlertQueues(alert)
      IN  Len(queues.named) + queues.more = Len(Rows(alert, "queues"))
  BY QueuesAreCounted
<1>. DEFINE told == CoordinationAlertFacts(alert)
            words == IF IsRouting(alert) THEN RoutingFactWords ELSE QueueFactWords
            figures == IF IsRouting(alert) THEN alert.facts ELSE alert
<1>2. ASSUME TellsFigures(told, words, figures), IsRouting(alert) => TellsRouting(told, figures)
      PROVE  FactsAreReported(alert)
  BY <1>1, <1>2 DEF FactsAreReported, TellsFigures, TellsRouting, ToldOf
<1>3. CASE IsRouting(alert)
  <2>1. /\ told = RoutingHealthAlertFacts(alert.facts)
        /\ words = RoutingFactWords /\ figures = alert.facts
    BY <1>3 DEF CoordinationAlertFacts
  <2>2. IsRoutingFacts(alert.facts)
    BY <1>3
  <2>. HIDE DEF told, words, figures
  <2>3. TellsFigures(told, words, figures) /\ TellsRouting(told, figures)
    BY <2>1, <2>2, RoutingReported
  <2>. QED
    BY <1>2, <2>3
<1>4. CASE ~IsRouting(alert)
  <2>. DEFINE fact == <<"max-age", DurationLabel(alert.max_age)>>
              others == When(Positive(alert, "max_age"), {fact})
  <2>1. /\ told = Tell(alert, QueueFactWords) \cup others
        /\ words = QueueFactWords /\ figures = alert
    BY <1>4 DEF CoordinationAlertFacts
  <2>2. \A x \in others : \A f \in DOMAIN QueueFactWords : x[1] # QueueFactWords[f]
    <3>1. fact[1] = "max-age"
      OBVIOUS
    <3>. HIDE DEF fact
    <3>2. \A x \in others : x[1] = "max-age"
      BY <3>1 DEF When
    <3>. QED
      BY <3>2, QueueWordsDiffer
  <2>3. IsFigures(alert, DOMAIN QueueFactWords) /\ ~Has(alert, "routing_drains")
    BY <1>4
  <2>. HIDE DEF told, words, figures, others
  <2>. DEFINE all == Tell(alert, QueueFactWords) \cup others
  <2>4. ASSUME NEW f \in DOMAIN QueueFactWords
        PROVE  ToldOf(all, QueueFactWords, f)
                  = (IF Has(alert, f) THEN {alert[f]} ELSE {}) \ {0}
    <3>. DEFINE given == QueueFactWords
    <3>1. /\ IsFigures(alert, DOMAIN given)
          /\ \A g, h \in DOMAIN given : given[g] = given[h] => g = h
          /\ \A x \in others : \A g \in DOMAIN given : x[1] # given[g]
          /\ f \in DOMAIN given
      BY <2>2, <2>3, QueueWordsDiffer
    <3>. HIDE DEF given
    <3>2. ToldOf(Tell(alert, given) \cup others, given, f)
             = (IF Has(alert, f) THEN {alert[f]} ELSE {}) \ {0}
      BY <3>1, TellReports
    <3>. QED
      BY <3>2 DEF given
  <2>. DEFINE drains == Rows(alert, "routing_drains")
  <2>5. drains = <<>>
    BY <2>3 DEF Rows
  <2>. HIDE DEF all, drains
  <2>6. ASSUME NEW f
        PROVE  (IF Has(alert, f) THEN {alert[f]} ELSE {})
                  = {alert[g] : g \in Shown(alert, {f})}
                       \cup {drains[g] : g \in Shown(drains, {f} \ DOMAIN alert)}
    <3>1. Shown(drains, {f} \ DOMAIN alert) = {}
      BY <2>5 DEF Shown
    <3>. QED
      BY <3>1 DEF Has, Shown
  <2>7. TellsFigures(all, QueueFactWords, alert)
    <3>. SUFFICES ASSUME NEW f \in DOMAIN QueueFactWords
                  PROVE  ToldOf(all, QueueFactWords, f)
                            = ({alert[g] : g \in Shown(alert, {f})}
                                 \cup {drains[g] : g \in Shown(drains, {f} \ DOMAIN alert)}) \ {0}
      BY DEF TellsFigures, drains
    <3>. QED
      BY <2>4, <2>6
  <2>8. TellsFigures(told, words, figures)
    BY <2>1, <2>7 DEF all
  <2>. QED
    BY <1>2, <1>4, <2>8
<1>. QED
  BY <1>3, <1>4
-----------------------------------------------------------------------------
(***************************************************************************)
(* The answers of the model are such answers, so every one of them is told *)
(* as it is.                                                               *)
(***************************************************************************)
Gives(record, given) ==
    /\ DOMAIN given = {f \in DOMAIN record : record[f] # <<>>}
    /\ \A f \in DOMAIN given : given[f] = record[f][1]

LEMMA PartialIs ==
    ASSUME NEW records, NEW given \in Partial(records)
    PROVE  \E r \in records : Gives(r, given)
  BY DEF Partial, Gives

LEMMA MaybeIs ==
    ASSUME NEW values, NEW some \in Maybe(values), some # <<>>
    PROVE  some[1] \in values
  BY DEF Maybe

LEMMA FleetsAreFinite == IsFiniteSet(Fleets)
<1>. DEFINE Code(w) == (IF w.id = "w1" THEN 0 ELSE 4) + (IF w.fresh THEN 0 ELSE 2)
                          + (IF w.supports THEN 0 ELSE 1)
            code == [w \in Fleets |-> Code(w)]
<1>1. code \in Injection(Fleets, 0..7)
  <2>1. \A w \in Fleets : Code(w) \in 0..7
    BY DEF Fleets
  <2>2. \A v, w \in Fleets : Code(v) = Code(w) => v = w
    BY DEF Fleets
  <2>. QED
    BY <2>1, <2>2 DEF Injection, IsInjective
<1>2. IsFiniteSet(0..7)
  <2>1. 0 \in Int /\ 7 \in Int
    OBVIOUS
  <2>. QED
    BY <2>1, FS_Interval
<1>. HIDE DEF code
<1>. QED
  BY <1>1, <1>2, FS_Injection

LEMMA ChecksAreFinite == IsFiniteSet(Checks)
<1>. DEFINE Code(c) == (IF c.name = "routing_health" THEN 0
                        ELSE IF c.name = "engine_source" THEN 6 ELSE 12)
                          + (IF c.category = "correctness" THEN 0 ELSE 3) + Severity[c.status]
            code == [c \in Checks |-> Code(c)]
<1>0. /\ Severity["ok"] = 0 /\ Severity["warning"] = 1 /\ Severity["error"] = 2
      /\ DOMAIN Severity = {"ok", "warning", "error"}
      /\ Categories = {"correctness", "acceleration"}
  BY DEF Severity, Categories
<1>1. code \in Injection(Checks, 0..17)
  <2>1. \A c \in Checks : Code(c) \in 0..17
    BY <1>0 DEF Checks
  <2>2. \A c, d \in Checks : Code(c) = Code(d) => c = d
    BY <1>0 DEF Checks
  <2>. QED
    BY <2>1, <2>2 DEF Injection, IsInjective
<1>2. IsFiniteSet(0..17)
  <2>1. 0 \in Int /\ 17 \in Int
    OBVIOUS
  <2>. QED
    BY <2>1, FS_Interval
<1>. HIDE DEF code
<1>. QED
  BY <1>1, <1>2, FS_Injection

LEMMA QueuesAre == ASSUME NEW q \in Queues PROVE \A f \in DOMAIN q : q[f] \in Nat
<1>. DEFINE records == [candidates : Maybe(0..1), backlog : Maybe(0..1),
                        active : Maybe(0..1), stale : Maybe(0..1)]
<1>0. q \in Partial(records)
  BY DEF Queues
<1>. HIDE DEF records
<1>1. PICK r \in records : Gives(r, q)
  BY <1>0, PartialIs
<1>. USE DEF records
<1>2. ASSUME NEW f \in DOMAIN q PROVE q[f] \in Nat
  <2>1. r[f] \in Maybe(0..1) /\ r[f] # <<>> /\ q[f] = r[f][1]
    BY <1>1, <1>2 DEF Gives
  <2>2. q[f] \in 0..1
    BY <2>1, MaybeIs
  <2>. QED
    BY <2>2
<1>. QED
  BY <1>2

LEMMA VisibilitiesAre ==
    ASSUME NEW v \in Visibilities, Has(v, "task_queues")
    PROVE  v.task_queues \in {<<>>, <<"q">>}
<1>. DEFINE records == [available : Maybe(BOOLEAN), task_queues : Maybe({<<>>, <<"q">>})]
<1>0. v \in Partial(records)
  BY DEF Visibilities
<1>. HIDE DEF records
<1>1. PICK r \in records : Gives(r, v)
  BY <1>0, PartialIs
<1>. USE DEF records
<1>2. /\ r.task_queues \in Maybe({<<>>, <<"q">>}) /\ r.task_queues # <<>>
      /\ v.task_queues = r.task_queues[1]
  BY <1>1 DEF Has, Gives
<1>. QED
  BY <1>2, MaybeIs

LEMMA DrainFactsAre ==
    ASSUME NEW d \in DrainFacts
    PROVE  DOMAIN d \subseteq Drains /\ IsFigures(d, Drains)
<1>. DEFINE records == [queues_with_drains : Maybe({0, 3})]
<1>0. d \in Partial(records)
  BY DEF DrainFacts
<1>. HIDE DEF records
<1>1. PICK r \in records : Gives(r, d)
  BY <1>0, PartialIs
<1>. USE DEF records
<1>2. DOMAIN d \subseteq {"queues_with_drains"} /\ "queues_with_drains" \in Drains
  BY <1>1 DEF Drains, Gives
<1>3. ASSUME NEW f \in DOMAIN d PROVE d[f] \in Nat
  <2>1. r[f] \in Maybe({0, 3}) /\ r[f] # <<>>
    BY <1>1, <1>3 DEF Gives
  <2>2. d[f] \in {0, 3}
    BY <1>1, <1>3, <2>1, MaybeIs DEF Gives
  <2>. QED
    BY <2>2
<1>. QED
  BY <1>2, <1>3 DEF IsFigures, Shown

LEMMA RoutingFactsTyped == ASSUME NEW facts \in RoutingFacts PROVE IsRoutingFacts(facts)
<1>. DEFINE records ==
              [claim_failed_tasks : Maybe({0, 1}), queues_with_drains : Maybe({0, 2}),
               routing_drains : Maybe(DrainFacts),
               max_dispatch_overdue_age : Maybe({0, 5}), max_claim_failed_age : Maybe({0, 200}),
               fleet_supports_required : Maybe(BOOLEAN), active_workers : Maybe({0, 2}),
               active_workers_supporting_required : Maybe(0..2)]
            counts == {"claim_failed_tasks", "queues_with_drains", "max_dispatch_overdue_age",
                       "max_claim_failed_age", "active_workers",
                       "active_workers_supporting_required"}
<1>0. facts \in Partial(records)
  BY DEF RoutingFacts
<1>. HIDE DEF records
<1>1. PICK r \in records : Gives(r, facts)
  BY <1>0, PartialIs
<1>. USE DEF records
<1>2. ASSUME NEW field \in DOMAIN facts, field \in counts PROVE facts[field] \in Nat
  <2>1. r[field] # <<>> /\ facts[field] = r[field][1]
    BY <1>1, <1>2 DEF Gives
  <2>2. \/ r[field] \in Maybe({0, 1}) \/ r[field] \in Maybe({0, 2})
        \/ r[field] \in Maybe({0, 5}) \/ r[field] \in Maybe({0, 200})
        \/ r[field] \in Maybe(0..2)
    BY <1>1, <1>2 DEF Gives
  <2>3. \/ r[field][1] \in {0, 1} \/ r[field][1] \in {0, 2} \/ r[field][1] \in {0, 5}
        \/ r[field][1] \in {0, 200} \/ r[field][1] \in 0..2
    BY <2>1, <2>2, MaybeIs
  <2>. QED
    BY <2>1, <2>3
<1>3. DOMAIN facts \subseteq counts \cup {"routing_drains", "fleet_supports_required"}
  BY <1>1 DEF Gives
<1>4. "routing_drains" \notin DOMAIN RoutingFactWords \cup BlockedAges
      /\ "fleet_supports_required" \notin DOMAIN RoutingFactWords \cup BlockedAges
  BY DEF RoutingFactWords, BlockedAges
<1>. HIDE DEF records
<1>5. IsFigures(facts, DOMAIN RoutingFactWords \cup BlockedAges
                          \cup {"active_workers", "active_workers_supporting_required"})
  BY <1>2, <1>3, <1>4 DEF IsFigures, Shown
<1>6. Has(facts, "routing_drains") => facts.routing_drains \in DrainFacts
  <2>. SUFFICES ASSUME Has(facts, "routing_drains") PROVE facts.routing_drains \in DrainFacts
    OBVIOUS
  <2>1. /\ r.routing_drains \in Maybe(DrainFacts) /\ r.routing_drains # <<>>
        /\ facts.routing_drains = r.routing_drains[1]
    BY <1>1 DEF Has, records, Gives
  <2>. QED
    BY <2>1, MaybeIs
<1>. QED
  BY <1>5, <1>6, DrainFactsAre DEF IsRoutingFacts

LEMMA QueueFactsAre ==
    ASSUME NEW alert \in QueueFacts
    PROVE  /\ ~IsRouting(alert) /\ ~Has(alert, "routing_drains")
           /\ IsFigures(alert, DOMAIN QueueFactWords)
           /\ Rows(alert, "queues") \in Seq({"q"})
<1>. DEFINE lists == {<<[i \in 1..n |-> "q"]>> : n \in 0..5}
            records == [source : {<<"queue_visibility">>}, queue_count : Maybe({0, 2}),
                        backlog_count : Maybe({0, 2}), candidate_count : Maybe({0, 1}),
                        max_age : Maybe({0, 100}), queues : lists]
<1>0. alert \in Partial(records)
  BY DEF QueueFacts
<1>. HIDE DEF records
<1>1. PICK r \in records : Gives(r, alert)
  BY <1>0, PartialIs
<1>. USE DEF records
<1>2. alert.source = "queue_visibility"
  <2>1. "source" \in DOMAIN r /\ r.source = <<"queue_visibility">>
    BY <1>1 DEF Gives
  <2>2. r.source # <<>> /\ r.source[1] = "queue_visibility"
    BY <2>1
  <2>. QED
    BY <1>1, <2>1, <2>2 DEF Gives
<1>3. \A l \in lists : l # <<>> /\ l[1] \in Seq({"q"})
  <2>1. ASSUME NEW n \in 0..5
        PROVE  <<[i \in 1..n |-> "q"]>> # <<>> /\ <<[i \in 1..n |-> "q"]>>[1] \in Seq({"q"})
    <3>. DEFINE names == [i \in 1..n |-> "q"]
    <3>1. names \in Seq({"q"})
      OBVIOUS
    <3>. HIDE DEF names
    <3>2. <<names>> # <<>> /\ <<names>>[1] = names
      OBVIOUS
    <3>. QED
      BY <3>1, <3>2 DEF names
  <2>. QED
    BY <2>1
<1>4. Rows(alert, "queues") \in Seq({"q"})
  <2>1. "queues" \in DOMAIN r /\ r.queues \in lists
    BY <1>1 DEF Gives
  <2>2. r.queues # <<>> /\ r.queues[1] \in Seq({"q"})
    BY <1>3, <2>1
  <2>. QED
    BY <1>1, <2>1, <2>2 DEF Rows, Has, Gives
<1>5. ~Has(alert, "routing_drains")
  BY <1>1 DEF Has, Gives
<1>6. ~IsRouting(alert)
  BY <1>2 DEF IsRouting, Is
<1>7. ASSUME NEW field \in {"queue_count", "backlog_count", "candidate_count"},
             field \in DOMAIN alert
      PROVE  alert[field] \in Nat
  <2>1. r[field] # <<>> /\ alert[field] = r[field][1]
    BY <1>1, <1>7 DEF Gives
  <2>2. r[field] \in Maybe({0, 2}) \/ r[field] \in Maybe({0, 1})
    BY <1>1, <1>7 DEF Gives
  <2>3. r[field][1] \in {0, 2} \/ r[field][1] \in {0, 1}
    BY <2>1, <2>2, MaybeIs
  <2>. QED
    BY <2>1, <2>3
<1>8. DOMAIN alert \cap DOMAIN QueueFactWords
         \subseteq {"queue_count", "backlog_count", "candidate_count"}
  BY <1>1 DEF QueueFactWords, Gives
<1>. HIDE DEF records, lists
<1>. QED
  BY <1>4, <1>5, <1>6, <1>7, <1>8 DEF IsFigures, Shown

LEMMA AlertsAre == ASSUME NEW alert \in Alerts PROVE FactsAreReported(alert)
<1>1. CASE alert \in [source : {"health_check"}, key : {"routing_health"}, facts : RoutingFacts]
  <2>1. IsRouting(alert) /\ Has(alert, "facts") /\ alert.facts \in RoutingFacts
    BY <1>1 DEF IsRouting, Is, Has
  <2>2. IsRoutingFacts(alert.facts)
    BY <2>1, RoutingFactsTyped
  <2>3. Rows(alert, "queues") = <<>>
    BY <1>1 DEF Rows, Has
  <2>4. Rows(alert, "queues") \in Seq({"q"})
    BY <2>3, EmptySeq
  <2>. QED
    BY <2>1, <2>2, <2>4, FactsTold
<1>2. CASE alert \in QueueFacts
  BY <1>2, QueueFactsAre, FactsTold
<1>. QED
  BY <1>1, <1>2 DEF Alerts

HeartbeatAges == {0, 59, 60, 299, 300, 301, 359, 360, 3599, 3600, 86399, 86400}

HeartbeatRecords == [age : Maybe(HeartbeatAges)]

LEMMA HeartbeatsAre ==
    ASSUME NEW worker \in Partial(HeartbeatRecords), Has(worker, "age")
    PROVE  worker.age \in Nat
<1>1. PICK r \in HeartbeatRecords : Gives(r, worker)
  BY PartialIs
<1>2. r.age \in Maybe(HeartbeatAges) /\ r.age # <<>> /\ worker.age = r.age[1]
  BY <1>1 DEF Has, HeartbeatRecords, Gives
<1>3. worker.age \in HeartbeatAges
  BY <1>2, MaybeIs
<1>. QED
  BY <1>3 DEF HeartbeatAges

LEMMA AgesAre == ASSUME NEW given \in Ages PROVE AgesAreTold(given.worker, given.halves)
<1>1. given.worker \in Partial(HeartbeatRecords) /\ given.halves \in Int
  BY DEF Ages, HeartbeatAges, HeartbeatRecords
<1>2. Has(given.worker, "age") => given.worker.age \in Nat
  BY <1>1, HeartbeatsAre
<1>. QED
  BY <1>1, <1>2, AgesTold

LEMMA RostersAre ==
    ASSUME NEW given \in Rosters
    PROVE  RosterCountsWorkersOnce(given.registrations, given.stale)
<1>1. \A n \in 0..3 : [1..n -> Observations] \subseteq Seq(Observations)
  <2>. SUFFICES ASSUME NEW n \in 0..3, NEW s \in [1..n -> Observations]
                PROVE  s \in Seq(Observations)
    OBVIOUS
  <2>1. n \in Nat
    OBVIOUS
  <2>. QED
    BY <2>1
<1>2. \A n \in 0..1 : [1..n -> Observations] \subseteq Seq(Observations)
  BY <1>1
<1>3. given.registrations \in Seq(Observations) /\ given.stale \in Seq(Observations)
  BY <1>1, <1>2 DEF Rosters
<1>. QED
  BY <1>3, WorkersCountedOnce

LEMMA FleetsAre == ASSUME NEW some \in SUBSET Fleets PROVE FleetCountsAddUp(some)
<1>1. IsFiniteSet(some)
  BY FleetsAreFinite, FS_Subset
<1>2. some \subseteq [id : {"w1", "w2"}, fresh : BOOLEAN, supports : BOOLEAN]
  BY DEF Fleets
<1>. QED
  BY <1>1, <1>2, FleetAddsUp

LEMMA CheckListsAre ==
    ASSUME NEW checks \in CheckLists, NEW queues \in QueueAlerts
    PROVE  /\ HealthAgrees(checks, queues)
           /\ HeadingCountsAlerts(CoordinationAlerts(checks, queues))
<1>0. /\ DOMAIN Severity = {"ok", "warning", "error"}
      /\ checks \subseteq Checks
      /\ queues \subseteq {[key |-> "queue", status |-> "warning"]}
  BY DEF Severity, CheckLists, QueueAlerts
<1>1. \A c \in checks : /\ c.status \in {"ok", "warning", "error"}
                        /\ IF c.name = "engine_source" THEN c.category = NoCategory
                           ELSE c.category \in Categories
  BY <1>0 DEF Checks
<1>2. \A q \in queues : q.status = "warning"
  BY <1>0
<1>3. HealthAgrees(checks, queues)
  BY <1>0, <1>1, <1>2, HealthRollsUp
<1>. DEFINE failing == {c \in checks : c.status # "ok"}
            Alert(c) == [key |-> c.name, status |-> c.status]
            alert == [c \in failing |-> Alert(c)]
            rows == {Alert(c) : c \in failing}
            alerts == CoordinationAlerts(checks, queues)
<1>4. IsFiniteSet(failing)
  BY <1>0, ChecksAreFinite, FS_Subset
<1>5. alert \in Surjection(failing, rows)
  BY DEF Surjection
<1>6. IsFiniteSet(queues)
  <2>1. IsFiniteSet({[key |-> "queue", status |-> "warning"]})
    BY FS_Singleton
  <2>. QED
    BY <1>0, <2>1, FS_Subset
<1>7. alerts = rows \cup queues
  BY DEF CoordinationAlerts
<1>8. \A a \in rows : a.status \in {"error", "warning"}
  BY <1>1
<1>. HIDE DEF failing, alert, rows, alerts
<1>9. IsFiniteSet(rows)
  BY <1>4, <1>5, FS_Surjection
<1>10. IsFiniteSet(alerts) /\ \A a \in alerts : a.status \in {"error", "warning"}
  BY <1>2, <1>6, <1>7, <1>8, <1>9, FS_Union
<1>11. HeadingCountsAlerts(alerts)
  BY <1>10, HeadingCounts
<1>. QED
  BY <1>3, <1>11 DEF alerts

LEMMA BuildsAre ==
    ASSUME NEW build \in Builds
    PROVE  /\ build.total \in Nat /\ build.new_start_selected \in BOOLEAN
           /\ build.rollout # "selected" /\ build.rollout # "no-compatible-worker"
<1>1. /\ build.total \in 0..1 /\ build.new_start_selected \in BOOLEAN
      /\ build.rollout \in {"", "active", "draining", "stale_only"}
  BY Zenon DEF Builds
<1>2. build.rollout # "selected" /\ build.rollout # "no-compatible-worker"
  BY <1>1, Zenon
<1>3. build.total \in Nat
  <2>. DEFINE total == build.total
  <2>. HIDE DEF total
  <2>1. total \in 0..1
    BY <1>1, Zenon DEF total
  <2>2. total \in Nat
    BY <2>1
  <2>. QED
    BY <2>2 DEF total
<1>. QED
  BY <1>1, <1>2, <1>3, Zenon

\* What an answer is about, it holds.
LEMMA AnswersAre ==
    ASSUME NEW x \in Answers
    PROVE  /\ x.of = "roster" => x.roster \in Rosters
           /\ x.of = "checks" => x.checks \in CheckLists /\ x.queues \in QueueAlerts
           /\ x.of = "badges" => x.queue \in Queues /\ x.build \in Builds
           /\ x.of = "queues" => x.queue \in Queues /\ x.visibility \in Visibilities
           /\ x.of = "alert" => x.alert \in Alerts
           /\ x.of = "ages" => x.ages \in Ages
           /\ x.of = "fleet" => x.fleet \in SUBSET Fleets
  BY DEF Answers

TellsOf(x) ==
    /\ x.of = "roster" => RosterCountsWorkersOnce(x.roster.registrations, x.roster.stale)
    /\ x.of = "checks" =>
          /\ HealthAgrees(x.checks, x.queues)
          /\ HeadingCountsAlerts(CoordinationAlerts(x.checks, x.queues))
    /\ x.of = "badges" => TonesFollowLabels(x.queue, x.build) /\ BuildsAreWarnedOf(x.build)
    /\ x.of = "queues" => BadgeReadsCard(x.queue, x.visibility)
    /\ x.of = "alert" => FactsAreReported(x.alert)
    /\ x.of = "ages" => AgesAreTold(x.ages.worker, x.ages.halves)
    /\ x.of = "slots" => SlotsAreTold(x.worker, x.preferences)
    /\ x.of = "fleet" => FleetCountsAddUp(x.fleet)
    /\ x.of = "entry" => FleetEntriesAgree(x.entry)

LEMMA AnswersTell == ASSUME NEW x \in Answers PROVE TellsOf(x)
<1>1. x.of = "roster" => RosterCountsWorkersOnce(x.roster.registrations, x.roster.stale)
  BY AnswersAre, RostersAre
<1>2. x.of = "checks" => /\ HealthAgrees(x.checks, x.queues)
                         /\ HeadingCountsAlerts(CoordinationAlerts(x.checks, x.queues))
  BY AnswersAre, CheckListsAre
<1>3. x.of = "badges" => TonesFollowLabels(x.queue, x.build) /\ BuildsAreWarnedOf(x.build)
  <2>. SUFFICES ASSUME x.queue \in Queues, x.build \in Builds
                PROVE  TonesFollowLabels(x.queue, x.build) /\ BuildsAreWarnedOf(x.build)
    BY AnswersAre
  <2>. QED
    BY QueuesAre, BuildsAre, TonesAgree, BuildsWarn
<1>4. x.of = "queues" => BadgeReadsCard(x.queue, x.visibility)
  <2>. SUFFICES ASSUME x.queue \in Queues, x.visibility \in Visibilities
                PROVE  BadgeReadsCard(x.queue, x.visibility)
    BY AnswersAre
  <2>1. Has(x.visibility, "task_queues")
           => x.visibility.task_queues # <<"No-task-queues-observed">>
    BY VisibilitiesAre
  <2>. QED
    BY <2>1, QueuesAre, BadgesReadCards
<1>5. x.of = "alert" => FactsAreReported(x.alert)
  BY AnswersAre, AlertsAre
<1>6. x.of = "ages" => AgesAreTold(x.ages.worker, x.ages.halves)
  BY AnswersAre, AgesAre
<1>7. x.of = "slots" => SlotsAreTold(x.worker, x.preferences)
  BY SlotsTold
<1>8. x.of = "fleet" => FleetCountsAddUp(x.fleet)
  BY AnswersAre, FleetsAre
<1>9. x.of = "entry" => FleetEntriesAgree(x.entry)
  BY EntriesAgree
<1>. QED
  BY <1>1, <1>2, <1>3, <1>4, <1>5, <1>6, <1>7, <1>8, <1>9 DEF TellsOf

(***************************************************************************)
(* Whatever the engine says of its workers, checks, queues, builds and     *)
(* alerts, the workers screen counts every worker once, agrees with what   *)
(* is listed below each heading, and tells of an alert, a heartbeat or a   *)
(* worker's slots what was reported.                                       *)
(***************************************************************************)
THEOREM WorkersTold == MCSafeSpec => []WorkersTellTheFleet
<1>1. WorkersTellTheFleet <=> TellsOf(answer)
  BY DEF WorkersTellTheFleet, TellsOf
<1>2. TellsOf(Blank)
  BY DEF TellsOf, Blank
<1>3. MCInit => TellsOf(answer)
  BY <1>2 DEF MCInit
<1>4. TellsOf(answer) /\ [MCNext]_<<consoleVars, study, answer>> => TellsOf(answer')
  <2>. SUFFICES ASSUME TellsOf(answer), [MCNext]_<<consoleVars, study, answer>>
                PROVE  TellsOf(answer')
    OBVIOUS
  <2>1. answer' \in Answers \cup {Blank} \/ answer' = answer
    BY DEF MCNext, ScreensNext, FiguresNext
  <2>. QED
    BY <1>2, <2>1, AnswersTell
<1>5. TellsOf(answer)' <=> TellsOf(answer')
  BY DEF TellsOf
<1>. QED
  BY <1>1, <1>3, <1>4, <1>5, PTL DEF MCSafeSpec
=============================================================================
