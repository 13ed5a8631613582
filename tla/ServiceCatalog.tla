--------------------------- MODULE ServiceCatalog ---------------------------
(***************************************************************************)
(* The service catalog, resources/js/components/ServiceCatalogView.vue     *)
(* (mounted by screens/services.vue): tabs, filters and pages kept in the  *)
(* address, the list they ask for, and the detail of a row.                *)
(*                                                                         *)
(* A control changes the component and then the address; the watcher of    *)
(* the address sets the component from it again and reads the list.  A     *)
(* navigation to the address already shown changes nothing and reads       *)
(* nothing.  No answer is compared with what was asked since: a late one   *)
(* is displayed.  What the component held is gone when it is unmounted.    *)
(***************************************************************************)
EXTENDS AppShell, PageNumbers, FiniteSetsExt

CONSTANTS
    CallScopes,     \* offered scopes of calls; "relevant" is one of them
    Statuses, StatusBuckets, Outcomes, OutcomeBuckets,
    CatalogIds,     \* ids of endpoints, services and operations
    LastPages,      \* bound: the last pages the server may report
    Words,          \* what a key of a query may say
    CatalogLinks    \* queries of links and bookmarks to the catalog

None == ""

Tabs == {"calls", "endpoints", "services", "operations"}

\* Queries of the catalog: of the address, a link or a bookmark.
CatalogQueries ==
    [tab : Words, scope : Words, status : Words, status_bucket : Words, bucket : Words,
     outcome : Words, outcome_bucket : Words, endpoint_id : Words, service_id : Words,
     operation_id : Words, page : Nat]

ASSUME CatalogAssumption ==
    /\ "relevant" \in CallScopes
    /\ None \notin CallScopes \cup Statuses \cup StatusBuckets \cup Outcomes
                     \cup OutcomeBuckets \cup CatalogIds
    /\ CallScopes \cup Statuses \cup StatusBuckets \cup Outcomes \cup OutcomeBuckets
          \cup CatalogIds \cup Tabs \cup {None} \subseteq Words
    /\ LastPages \subseteq Nat \ {0} /\ LastPages # {}
    /\ CatalogLinks \subseteq CatalogQueries
    /\ NoQuery \notin CatalogQueries

VARIABLES
    catalog,    \* tab, filters and page as the controls show them
    list,       \* the list on display and the reads for it
    detail,     \* the detail on display and the reads for it
    chosen,     \* history: tab, filters and page last chosen, by control or link
    overtaken   \* history: the list on display was answered after a newer one

catalogVars == <<catalog, list, detail, chosen, overtaken>>
catalogScreen == <<address, autoLoadsNewEntries, catalogVars>>

Pages == 1..Max(LastPages)

Filters ==
    [scope : CallScopes, status : Statuses \cup {None},
     status_bucket : StatusBuckets \cup {None}, outcome : Outcomes \cup {None},
     outcome_bucket : OutcomeBuckets \cup {None}]

NoFilters ==
    [scope |-> "relevant", status |-> None, status_bucket |-> None, outcome |-> None,
     outcome_bucket |-> None]

\* An absent key reads as None, an absent page as 0.
BareQuery ==
    [tab |-> None, scope |-> None, status |-> None, status_bucket |-> None, bucket |-> None,
     outcome |-> None, outcome_bucket |-> None, endpoint_id |-> None, service_id |-> None,
     operation_id |-> None, page |-> 0]

QueryOf(a) == IF a.query = NoQuery THEN BareQuery ELSE a.query
-----------------------------------------------------------------------------
(***************************************************************************)
(* The address and the controls.                                           *)
(***************************************************************************)
Otherwise(value, default) == IF value = None THEN default ELSE value

\* The specific choice wins over the bucket.
Exclusive(f) ==
    [f EXCEPT !.status_bucket = IF f.status # None THEN None ELSE @,
              !.outcome_bucket = IF f.outcome # None THEN None ELSE @]

RouteState(query) ==
    [tab     |-> IF query.tab \in Tabs THEN query.tab ELSE "calls",
     filters |-> Exclusive(
        [scope          |-> IF query.scope \in CallScopes THEN query.scope ELSE "relevant",
         status         |-> query.status,
         status_bucket  |-> Otherwise(query.status_bucket, query.bucket),
         outcome        |-> query.outcome,
         outcome_bucket |-> query.outcome_bucket]),
     page    |-> IF query.page > 0 THEN query.page ELSE 1]

BugKeepsAlias(query, c) ==
    [query EXCEPT !.tab = c.tab, !.page = IF c.page > 1 THEN c.page ELSE 0,
                  !.scope = IF c.tab = "calls" THEN c.filters.scope ELSE None,
                  !.status = IF c.tab = "calls" THEN c.filters.status ELSE None,
                  !.status_bucket = IF c.tab = "calls" THEN c.filters.status_bucket ELSE None,
                  !.outcome = IF c.tab = "calls" THEN c.filters.outcome ELSE None,
                  !.outcome_bucket = IF c.tab = "calls" THEN c.filters.outcome_bucket ELSE None]

\* The query syncRouteQuery writes: filters of calls only, the old name of the
\* status bucket gone, everything else as it was.
SyncRouteQuery(query, c) ==
    LET Of(key) == IF c.tab = "calls" THEN c.filters[key] ELSE None
    IN  [tab            |-> c.tab,
         scope          |-> Of("scope"),
         status         |-> Of("status"),
         status_bucket  |-> Of("status_bucket"),
         bucket         |-> None,
         outcome        |-> Of("outcome"),
         outcome_bucket |-> Of("outcome_bucket"),
         endpoint_id    |-> query.endpoint_id,
         service_id     |-> query.service_id,
         operation_id   |-> query.operation_id,
         page           |-> IF c.page > 1 THEN c.page ELSE 0]

\* What is asked of the server: filters of calls only, and the ids a tab allows.
ListParams(query, c) ==
    [tab          |-> c.tab,
     page         |-> c.page,
     filters      |-> IF c.tab = "calls" THEN c.filters ELSE NoFilters,
     endpoint_id  |-> IF c.tab = "endpoints" THEN None ELSE query.endpoint_id,
     service_id   |-> IF c.tab \in {"endpoints", "services"} THEN None ELSE query.service_id,
     operation_id |-> IF c.tab = "calls" THEN query.operation_id ELSE None]

FilteredById(query) ==
    LET asked == ListParams(query, catalog)
    IN  ~(asked.endpoint_id = None /\ asked.service_id = None /\ asked.operation_id = None)
-----------------------------------------------------------------------------
(***************************************************************************)
(* The list.  requested are the parameters of the newest read, rows tells  *)
(* whose answer is on display.  At most one superseded read is in flight   *)
(* (a bound); of it only the page is kept.                                 *)
(***************************************************************************)
NoList ==
    [requested |-> ListParams(BareQuery, RouteState(BareQuery)), awaited |-> FALSE,
     superseded |-> 0, loading |-> TRUE, error |-> FALSE, rows |-> "none",
     current_page |-> 0, last_page |-> 0]

CanRead == ~(list.awaited /\ list.superseded # 0)

LoadData(l, params) ==
    [l EXCEPT !.superseded = IF l.awaited THEN l.requested.page ELSE @,
              !.requested = params, !.awaited = TRUE, !.loading = TRUE, !.error = FALSE,
              !.rows = IF @ = "newest" THEN "older" ELSE @]

\* Displayed once nothing is loading, unless there is but one page.
PageButtons ==
    IF ~list.loading /\ ~list.error /\ list.last_page > 1
    THEN VisiblePages(list.current_page, list.last_page)
    ELSE <<>>
-----------------------------------------------------------------------------
(***************************************************************************)
(* The detail of a row.  shown tells whether it is the row opened last.    *)
(***************************************************************************)
NoDetail == [type |-> None, awaited |-> FALSE, superseded |-> FALSE, loading |-> FALSE,
             error |-> FALSE, shown |-> "none"]

OpenedDetail(d, type) ==
    [NoDetail EXCEPT !.type = type, !.awaited = TRUE, !.loading = TRUE,
                     !.superseded = d.superseded \/ d.awaited]

\* A read under way is not given up: its answer will be displayed.
CloseDetail(d) == [NoDetail EXCEPT !.superseded = d.superseded \/ d.awaited]
-----------------------------------------------------------------------------
CatalogInit ==
    /\ catalog = RouteState(BareQuery)
    /\ list = NoList
    /\ detail = NoDetail
    /\ chosen = catalog
    /\ overtaken = FALSE

\* applyRouteState with the component at c and d: called on mounting, and by
\* the watcher of the query.
ApplyRouteState(a, c, d) ==
    LET state == RouteState(QueryOf(a))
    IN  /\ catalog' = state
        /\ detail' = IF state # c THEN CloseDetail(d) ELSE d
        /\ list' = LoadData(list, ListParams(QueryOf(a), state))

CatalogFollows(a) ==
    \/ /\ Arrives("services", a)
       /\ ApplyRouteState(a, catalog, detail)
       /\ chosen' = RouteState(QueryOf(a))
       /\ UNCHANGED overtaken
    \/ /\ Leaves("services", a)
       /\ catalog' = RouteState(BareQuery)
       /\ list' = NoList
       /\ detail' = NoDetail
       /\ chosen' = catalog'
       /\ overtaken' = FALSE
    \/ /\ Stays("services", a) /\ a.query # address.query
       /\ CanRead
       /\ ApplyRouteState(a, catalog, detail)
       /\ chosen' = RouteState(QueryOf(a))
       /\ UNCHANGED overtaken
    \/ /\ \/ ~On("services") /\ a.screen # "services"
          \/ Stays("services", a) /\ a = address
       /\ UNCHANGED catalogVars

Elsewhere == <<autoLoadsNewEntries, overtaken>>

\* A control has set the component to c and closed the detail: the query is
\* written, and the watcher sees it unless it is the one in the address.
Written(c) ==
    LET query == SyncRouteQuery(QueryOf(address), c)
    IN  /\ On("services") /\ CanRead
        /\ chosen' = IF c.tab = "calls" THEN c ELSE [c EXCEPT !.filters = NoFilters]
        /\ address' = [address EXCEPT !.query = query]
        /\ IF QueryOf(address) = query
           THEN catalog' = c /\ detail' = CloseDetail(detail) /\ UNCHANGED list
           ELSE ApplyRouteState(address', c, CloseDetail(detail))
        /\ UNCHANGED Elsewhere

SetTab(tab) ==
    /\ tab # catalog.tab
    /\ Written([catalog EXCEPT !.tab = tab, !.page = 1])

\* A select of the filters: scope, a status, a bucket of statuses (disabled
\* while a status is chosen), an outcome, a bucket of outcomes.
Select(f) ==
    /\ catalog.tab = "calls"
    /\ Written([catalog EXCEPT !.filters = Exclusive(f), !.page = 1])

ChangeFilter ==
    LET f == catalog.filters
    IN  \/ \E s \in CallScopes \ {f.scope} : Select([f EXCEPT !.scope = s])
        \/ \E s \in (Statuses \cup {None}) \ {f.status} : Select([f EXCEPT !.status = s])
        \/ \E o \in (Outcomes \cup {None}) \ {f.outcome} : Select([f EXCEPT !.outcome = o])
        \/ /\ f.status = None
           /\ \E b \in (StatusBuckets \cup {None}) \ {f.status_bucket} :
                 Select([f EXCEPT !.status_bucket = b])
        \/ /\ f.outcome = None
           /\ \E b \in (OutcomeBuckets \cup {None}) \ {f.outcome_bucket} :
                 Select([f EXCEPT !.outcome_bucket = b])

Presets ==
    {NoFilters,
     [NoFilters EXCEPT !.status_bucket = "open"], [NoFilters EXCEPT !.status_bucket = "failed"],
     [NoFilters EXCEPT !.outcome_bucket = "policy"],
     [NoFilters EXCEPT !.scope = "caller"], [NoFilters EXCEPT !.scope = "target"]}

ApplyCallPreset(f) == f \in Presets \cap Filters /\ Select(f)

\* A page button, Previous or Next.
GoToPage(page) ==
    /\ PageButtons # <<>>
    /\ page \in {PageButtons[i] : i \in DOMAIN PageButtons}
                   \cup {list.current_page - 1, list.current_page + 1}
    /\ page \in 1..list.last_page /\ page # list.current_page
    /\ Written([catalog EXCEPT !.page = page])

\* Refresh, or Retry.
Refresh ==
    /\ On("services") /\ CanRead
    /\ list' = LoadData(list, ListParams(QueryOf(address), catalog))
    /\ UNCHANGED <<address, catalog, detail, chosen, Elsewhere>>

\* clearCatalogFilters, offered while the list is filtered by an id.
ClearCatalogFilters ==
    /\ On("services") /\ CanRead
    /\ FilteredById(QueryOf(address))
    /\ address' = [address EXCEPT !.query =
                      [QueryOf(address) EXCEPT !.endpoint_id = None, !.service_id = None,
                                               !.operation_id = None, !.page = 0]]
    /\ chosen' = [catalog EXCEPT !.page = 1]
    /\ ApplyRouteState(address', catalog, detail)
    /\ UNCHANGED Elsewhere

\* browseRelated: the endpoint or service on display is taken for the type
\* that was opened last, whatever it is.
BrowseRelated(tab, id) ==
    LET query == [BareQuery EXCEPT
                    !.tab = tab,
                    !.endpoint_id = IF detail.type = "endpoints" THEN id ELSE None,
                    !.service_id = IF detail.type = "endpoints" THEN None ELSE id]
    IN  /\ On("services") /\ CanRead
        /\ ~list.loading /\ ~list.error
        /\ detail.shown # "none" /\ ~detail.loading /\ ~detail.error
        /\ tab \in {"services", "operations"}
        /\ detail.shown = "opened" =>
              \/ detail.type = "endpoints"
              \/ detail.type = "services" /\ tab = "operations"
        /\ address' = [address EXCEPT !.query = query]
        /\ IF query = QueryOf(address)
           THEN UNCHANGED <<catalog, list, detail, chosen>>
           ELSE ApplyRouteState(address', catalog, detail) /\ chosen' = RouteState(query)
        /\ UNCHANGED Elsewhere

ListAnswered(newest) ==
    /\ On("services")
    /\ IF newest THEN list.awaited ELSE list.superseded # 0
    /\ \E last \in LastPages :
          list' = [list EXCEPT !.awaited = @ /\ ~newest,
                               !.superseded = IF newest THEN @ ELSE 0,
                               !.loading = FALSE,
                               !.rows = IF newest THEN "newest" ELSE "older",
                               !.current_page = IF newest THEN list.requested.page
                                                ELSE list.superseded,
                               !.last_page = last]
    /\ overtaken' = (~newest /\ ~list.awaited)
    /\ UNCHANGED <<address, autoLoadsNewEntries, catalog, detail, chosen>>

ListFailed(newest) ==
    /\ On("services")
    /\ IF newest THEN list.awaited ELSE list.superseded # 0
    /\ list' = [list EXCEPT !.awaited = @ /\ ~newest,
                            !.superseded = IF newest THEN @ ELSE 0,
                            !.loading = FALSE, !.error = TRUE, !.rows = "none",
                            !.current_page = 0, !.last_page = 0]
    /\ overtaken' = (~newest /\ ~list.awaited)
    /\ UNCHANGED <<address, autoLoadsNewEntries, catalog, detail, chosen>>

OpenDetail ==
    /\ On("services")
    /\ ~list.loading /\ ~list.error /\ list.rows # "none"
    /\ ~(detail.awaited /\ detail.superseded)
    /\ detail' = OpenedDetail(detail, catalog.tab)
    /\ UNCHANGED <<address, catalog, list, chosen, Elsewhere>>

CloseButton ==
    /\ On("services")
    /\ detail.loading \/ detail.error \/ detail.shown # "none"
    /\ ~list.loading /\ ~list.error
    /\ detail' = CloseDetail(detail)
    /\ UNCHANGED <<address, catalog, list, chosen, Elsewhere>>

DetailSettled(newest, answered) ==
    /\ On("services")
    /\ IF newest THEN detail.awaited ELSE detail.superseded
    /\ detail' = [detail EXCEPT !.awaited = @ /\ ~newest,
                                !.superseded = @ /\ newest,
                                !.loading = FALSE,
                                !.error = @ \/ ~answered,
                                !.shown = IF ~answered THEN @
                                          ELSE IF newest THEN "opened" ELSE "other"]
    /\ UNCHANGED <<address, catalog, list, chosen, Elsewhere>>

CatalogStep ==
    \/ \E tab \in Tabs : SetTab(tab)
    \/ ChangeFilter
    \/ \E f \in Presets : ApplyCallPreset(f)
    \/ \E page \in Pages : GoToPage(page)
    \/ Refresh \/ ClearCatalogFilters
    \/ \E tab \in Tabs, id \in CatalogIds : BrowseRelated(tab, id)
    \/ \E newest \in BOOLEAN : ListAnswered(newest) \/ ListFailed(newest)
    \/ OpenDetail \/ CloseButton
    \/ \E newest, answered \in BOOLEAN : DetailSettled(newest, answered)

\* Every request is answered or given up by the browser's request budget.
CatalogFairness ==
    /\ \A newest \in BOOLEAN :
          WF_catalogScreen(ListAnswered(newest) \/ ListFailed(newest))
    /\ \A newest \in BOOLEAN :
          WF_catalogScreen(\E answered \in BOOLEAN : DetailSettled(newest, answered))
-----------------------------------------------------------------------------
\* The controls show what was last chosen, by themselves, a link or Back; the
\* address says the same; and the newest read asked for exactly that.  Once
\* every read has settled, the rows are its answer unless an older read settled
\* after it.
CatalogAnswersChoice ==
    On("services") =>
       /\ catalog = chosen
       /\ catalog = RouteState(QueryOf(address))
       /\ list.requested = ListParams(QueryOf(address), catalog)
       /\ ~list.awaited /\ list.superseded = 0 /\ ~overtaken =>
             ~list.loading /\ (list.rows = "newest" \/ list.error)

\* Loading ends: the list's, and the detail's.
CatalogSettles ==
    /\ list.loading /\ On("services") ~> ~list.loading \/ ~On("services")
    /\ detail.loading ~> ~detail.loading
=============================================================================
