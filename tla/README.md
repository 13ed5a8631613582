# Waterline, modelled and proved

Waterline is the operator console of Durable Workflow: a Vue application in the browser and a Laravel
package that serves its API. The package runs in one of two modes. *Embedded*, it calls the workflow
engine inside the same application and reads its tables; in *service mode* it forwards every request to
a standalone server over the SDK. In both, the engine is another repository.

This directory holds TLA+ modules of the parts of Waterline that have state and steps to get wrong, or
decisions whose parts must agree, the configurations TLC checks them with, and theorems with proofs TLAPS
checks. `PROJECT.json` maps every definition to the lines of `src/` it stands for.

    tlc -workers 2 -config Schedules.cfg MCSchedules.tla     # a run
    tlapm SchedulesProofs.tla                                # the proofs of a module

Contents: [the system](#the-system), [the modules](#the-modules), [the runs](#the-runs),
[fairness](#fairness), [the proofs](#the-proofs), [known disagreements](#known-disagreements),
[what is not modelled](#what-is-not-modelled), [the plan](#the-plan).

## The system

| Component | State it keeps | Operations | Interacts with |
|---|---|---|---|
| Run detail screen (`screens/flows/flow.vue`, `run-history.mjs`) | the run on display with its timeline and history cursor, the newest request's number, the path Retry repeats; tab, highlighted event and fragment being followed; the command dialog, the message prompts and the activity results | open a route, Retry, Open/Inspect complete details, Load more/older, follow a link, issue a command, send a signal, query or update, inspect a result | workflow API; the router; SweetAlert2 |
| Workflow list screen (`screens/flows/index.vue`) | rows, page, selected saved view and the views offered, applied filters, new-entries notice, pending flag | follow a route change, page, Retry, timer tick, edit filters, select/save/update/delete a view | workflow, saved-view and preference APIs; the router; the Auto refresh switch |
| Schedules view (`components/ScheduleView.vue`, `schedule-presenter.mjs`) | rows and page, pending rows, backfill form, detail and history dialogs | filter, page, refresh, tick, pause/resume/trigger/backfill, open/retry/page the dialogs | schedule API; SweetAlert2 |
| Dashboard (`screens/dashboard.vue`, `projection-metrics.mjs`) | figures, selected classification, newest request, timer | mount, leave, tick, Refresh, choose a classification | dashboard API; the router; the Auto refresh switch |
| Workers view (`components/WorkerHealth.vue`) | the snapshot of the fleet, loading and error | mount, leave, Refresh | health and preference APIs |
| Service catalog (`components/ServiceCatalogView.vue`) | tab, filters and page (also in the address), rows, detail | every control, link and Back; open/close a detail | service catalog API; the router |
| App shell (`WaterlineApp.vue`, `base.js`, the router) | the address, the Auto refresh switch | navigate, throw the switch | the screens |
| Operator preferences (`UserPreferencesController`, four screens) | one document per operator and surface; each screen's copy and effective values | read with the address's overrides, save | the `waterline_user_preferences` table |
| Saved views (`SavedViewsController`, `SavedWorkflowView`) | rows of `waterline_saved_views`, unique per scope, bucket and name | store, update, destroy | the database |
| Service mode lists (`CursorPageReplay`) | one request's replay: token, calls, time | replay next-page tokens up to page N | the standalone server |
| Workflow repositories (`HybridWorkflowRepository`, `V2WorkflowRepository`) | none; pages cut out of two engines' lists | a page of a bucket | both engines' tables |
| Health and worker roster (`V2HealthController`, `WorkerRegistrationRoster`) | none | merge observations, roll up checks, choose the HTTP status | the engine's checks |
| Workflow and schedule APIs (`WorkflowsController`, `V2SchedulesController`, `Remote*`) | none of their own | reads and commands | the engine or the standalone server |
| Error envelope (`RenderApiExceptionsAsJson`) | none | turn exceptions into what the browser interprets | `request-budget.mjs` |
| Decision tables, engine source, authorization, capacity evidence, dashboard statistics | none | one decision or query per request | |

**What is hard here.** Every screen is one component instance that outlives a route change and has
several requests in flight, each answered late, out of order, with a failure or never. What a handler
reads after an `await` may be another run's, another page's or another dialog's by then. Commands have an
unknown outcome when their answer is lost, and a retry must not do them twice. Timers read behind
whatever the operator does, and outlive the screen that set them. On the server, requests run one SQL
statement after another with no transaction, a list request replays a chain of remote calls within a time
budget, and a page is cut out of the lists of two engines. And the screens say one thing in several
places, from answers in which any field may be missing.

**What makes each part correct.**

* *Screens that read*: only the answer to the newest read is shown; whatever waits has the read in flight
  that ends it; every wait ends; what is shown is what the address or the request on display names.
* *The timeline*: rows of one run, in order, without a gap; a total only when it is the total. A link to
  an event ends at that event's row, and the page is left alone once the operator moves it.
* *Commands*: what the dialog says of a request is true; a confirmation redrives at most one run, and the
  run it named; a retry finds the successor; a done command is not offered again. A result is shown over
  the run it is of.
* *Schedule actions*: a row's buttons are disabled exactly while its action is under way; after an
  accepted action the rows are newer than it.
* *Filters and saved views*: what the editor said is what is listed; a saved view lists what was saved;
  unique names, owners only. *Preferences*: the operator finds again what was chosen.
* *Lists*: bounded in calls and time, honest about what follows; no workflow on two pages or on none.
* *Figures*: what is said in two places agrees; nothing is told that was not reported.

## The modules

| Module | Models | Runs | Theorems |
|---|---|---|---|
| `LatestRead` | abstract: numbered reads, of which only the newest may replace what is shown | by refinement | |
| `RunDetail`, `MCRunDetail` | run detail screen: reading | `run_detail_embedded`, `run_detail_service` | `RunDetailProofs` |
| `RunTimeline` | run detail screen: history card, tabs, fragments, failure links | `run_detail_service`, `child_link` | `RunDetailProofs` |
| `RunRows`, `RunFacts`, `MCRunTimeline` | run detail screen: what tables, cards and buttons say of a run | `run_detail_service` | `RunDetailProofs` |
| `RunCommands`, `MCRunCommands` | run detail screen: commands, error envelope, redrive endpoint | `run_commands`, `run_commands_history`, `run_commands_back` | `RunCommandsProofs` |
| `RunMessages`, `MCRunHistory` | run detail screen: signals, queries, updates, activity results | `run_commands_history` | `RunCommandsProofs` |
| `ScheduleTable` | schedules table, actions, backfill, notices | `schedules` | `SchedulesProofs` |
| `ScheduleDialogs` | schedule detail and audit history | `schedules` | `SchedulesProofs` |
| `ScheduleFigures`, `MCSchedules` | what the schedules view says of schedules | `schedules` | `SchedulesProofs` |
| `WorkflowList` | workflow list, selector of saved views, paging, timer | `lists`, `views` | `WorkflowListProofs`, `PagesProofs` |
| `ListFilters`, `MCViews` | filters of address, view and editor; saving and updating a view | `views`, `view_update` | `SavedViewsProofs` |
| `SavedViews` | the saved views table under concurrent requests | `views` | `SavedViewsProofs` |
| `CursorPageReplay` | one service mode list request | `lists` | `PagesProofs` |
| `Preferences` | preference documents and the screens' copies | `lists` | `WorkflowListProofs` |
| `HybridPages`, `MCLists` | pages of a bucket of both engines | `lists` | `PagesProofs` |
| `AppShell`, `Console` | the address and the Auto refresh switch; the three screens below together | `console` | `ConsoleProofs` |
| `DashboardView` | dashboard: reading, timer, classification | `console` | `ConsoleProofs` |
| `DashboardFigures` | which figure is shown where | `console` | `ConsoleProofs` |
| `WorkersView` | workers view: reading | `console`, `workers_503` | |
| `WorkerFigures`, `WorkerRows` | roster, checks, alerts, slots, queues, builds | `console` | `ConsoleProofs` |
| `ServiceCatalog`, `MCConsole` | catalog: tabs, filters, pages, detail | `console` | `ConsoleProofs` |
| `PageNumbers` | page buttons | `console` | `ConsoleProofs` |
| `Fields` | answers as partial functions, and what is kept of a list | with the above | `FieldsProofs` |

`LatestRead` is the abstract specification that `RunDetail` and `WorkflowList` implement: each
instantiates it with its request counter for `issued`, the numbers of its reads for `inFlight` and the
number of the read on display for `shown`; both refinements are checked and proved. `RunCommands` relies
on the one of `RunDetail`: it keeps no superseded reads, because their answers change nothing.

An `MC` module puts several *studies* side by side: the initial state chooses one, the others stand
still. Their states are added and not multiplied, and one run asks one screen's or one resource's
questions together. Where components do meet, they are composed: `Console` runs dashboard, workers and
catalog under one address and one switch.

### RunDetail

`route` is `$route`; `flow`, `ready`, `loadingError`, `lastFlowPath`, `historyLimit`,
`historyPageRequest`, `loadingMoreHistory` and `historyLoadError` are the component's fields. `reads` are
the promises in flight, each with the number it captured. `hist`, `pruned` and `currentRun` are the
server. The operator's actions are the component's methods (`LoadRouteFlow`, `RetryFlowLoad`,
`LoadCompleteDetails`, `LoadOlderHistory`, `LoadHistoryPage`); `Settle` is what the promise of `fetchFlow`
or `loadHistoryPage` does with an answer or a failure, or, for a superseded one, does not. `Answer` is
what the two backends return for a path: a bounded window paged forward by a cursor, or the latest window
with a total. A history cursor names its run, the last event delivered and the last event of its
snapshot. Retention may remove a history and an instance may continue as a new run between any two steps.
The redirect of a legacy route and the read it causes are one step. Rows are events (run, sequence);
everything else of a detail is data.

### RunTimeline

A visit to one address after another: which run, tab and fragment it names, which answer is on display,
which event is highlighted, and whether the page still follows the fragment (the two seconds of
`scrollToRouteHash`). The operator scrolls, changes tabs, opens failure links and links of
children, goes back, and reads further windows. A failure is recorded by one event of one run; a window
is a set of sequences. `Inputs` are the events that give a following up: the wheel and the arrow keys.

### RunRows and RunFacts

An answer is a function on the fields that have a value (`Fields`). The operators return what the
template draws: the lines of each table by the field they print, the issues and their banner, the summary
and history cards, the pinned diagnostics, related runs and their links, waits and their tasks, actions
and their buttons, durations, sizes and the virtual window of the event list. `MCRunTimeline` gives them
every answer built of the fields that bear on one statement, and `DetailTellsTheRun` is the conjunction of
the statements: an issue has its banner and no banner is without one, an open wait is current and is
told, a task that blocks is in its table when it is not pinned, an offered action has a reason or a
button, a row in sight is rendered.

### RunCommands

`dialog` is the SweetAlert2 dialog of `issueCommand`, `posts` the requests the browser waits for and those
it gave up on that the server may still process, `effects` a record of what requests did to the engine.
A post is processed by the endpoint's gates (`StoppedBefore`), by `Redrive` or by `Cancel`; its answer
may be lost on the way to Waterline (`Unreachable`) or to the browser (`NoAnswer`). `service` selects what
the error envelope says of a refusal. `cancel` stands for terminate, archive and repair, which post the
same way. `LeavesDialog` is whether dialogs are left behind: by Back and Forward, which work behind an
open dialog while the app is inert, or by Escape while a request is under way. `crypto.randomUUID` is
always there.

### RunMessages

Signals, queries and updates: the targets the run declares or an older engine lists, the prompt with its
contract and arguments, the post, and the notice with the result; and one read per activity result. All
share the one popup of SweetAlert2 (external): opening another dismisses the one that is open, unless
that waits for its `preConfirm`, and a failure writes into whatever popup is open. Leaving for another
run happens between any two steps.

### ScheduleTable and ScheduleDialogs

One list request counter, the pending rows, the form and the notice are the component's; `posts` are
actions in flight, `status` and `done` the server's. A SweetAlert2 notice replaces the one that is open,
which lets the replaced one's action go on (external). An action may be performed after the browser gave
it up, and may be performed and still answered with a failure, as service mode does when the describe
call after it fails. `Decline` allows any action to be refused. A page past the end is answered with
itself in embedded mode and with the last page in service mode; `service` is chosen per behaviour. The
list and describe calls of service mode count as one read. Rows are new objects after each list read,
which is what the detail dialog compares; history reads carry no such check.

### ScheduleFigures

Row keys and request names, ISO 8601 durations and cadences, recent fires and last results, the outcome
of a backfill, cards and their rows, chosen columns, and where Tab leads in a dialog, as operators on
`Fields`; `SchedulesTellTheirState` is the conjunction of what they promise.

### WorkflowList

A route change starts a *chain*: saved views, preferences, then either a correction of the address, which
starts the next chain, or the list read. Chains overlap and write the same fields. Each answer's work is
one step. Saving, updating and deleting a view are chains too, with a request before them. Only
properties read `hasty` and `misled`: the operator acted before the page had settled; and the selector was
checked, since it took up the view of the address, against views without it, although the bucket has it
(they were those of a bucket that was left, or a failed read left none). Pages have one row, so a run's
rank is its page.

### ListFilters

The address has filters of its own and may name a view; the API merges them (`Merge`, from
`VisibilityFilterContract` and `V2VisibilityFilterContext`): plain fields of the address win, labels and
attributes add up, a window given as any time removes the view's. The editor starts from what was applied
and writes all of it back. Views may be of another version, in which case their filters are not applied.
Saving, updating, links, Back and changes in another tab happen between reads, which may fail. A field is
one of each kind: plain, window, label, search attribute.

### SavedViews

The grain is the SQL statement: find or check, then insert, write, re-read or delete. Each request is
at one of the steps in `Steps`. An update writes the columns that differ from the row it loaded, as
Eloquent does. The unique index refuses what the check let through. A row's id is the number of the
request that stored it (ULIDs in the code). Reads are not modelled.

### CursorPageReplay

One request at a time: `Ask` validates the page, then `Fetch`/`CallReturns`/`CallFails` until the page is
reached, the list ends, or the budget is spent (`OutOfTime`). Time passes only in calls. `MAX_PAGE`, the
margin, the browser's budget and the longest call are constants. A query of 0 stands for every malformed
page number.

### HybridPages

A bucket's rows are engine v1 workflows, summaries of v2 runs and runs that have no summary yet. Each
engine answers as many rows as the page needs from the front of its own list, the two are merged and the
page cut out. `PagesPartition` says that the pages of a bucket whose lists both engines order as the merge
does (`ListedAlike`) hold every row once; each of the conditions of `ListedAlike` is needed, as leaving it
out shows (see [known disagreements](#known-disagreements)).

### Preferences

The document has the keys that matter on a screen: the run detail's tab, the workflow list's selected
view and its view options, the tables' view options (sort, density and columns are saved together).
`known` is the document a save starts from, `shown` the effective values. A save writes the whole
document. A save the browser gave up on may reach the server later. `due` are route changes whose read
is not sent yet. `hurried` and `failed` are read only by properties.

### AppShell, Console and its screens

The router keeps one screen mounted; during its fade two live. Leaving unmounts a component, but the
promises it waits for run on: `DashboardView` keeps the component of every visit, with its newest read
and its timer. The mixin `base.js` throws the switch on the root component, which has no timers, so a
screen learns of the switch at its next answer. `WorkersView` reads once on arrival and when asked; the
health endpoint sends its snapshot with 503 when the fleet is in error, which `axios` rejects.
`ServiceCatalog` keeps tab, filters and page in the address and itself; its answers are not compared with
what was asked since, and `CatalogAnswersChoice` says what holds all the same: what an answer that came
in order shows is what the controls say.

`DashboardFigures`, `WorkerFigures` and `WorkerRows` are operators on one answer. `MCConsole` enumerates
the answers: every audit missing, empty, malformed or counted, every line's count and age, one odd tile among
the others; rosters of up to three observations of two workers, lists of up to three checks, alerts with
any of their facts, queues, builds and slots with any of their fields.

## The runs

Eight runs pass; four show a disagreement with the code's own documents.

| Run | Shows | Bounds |
|---|---|---|
| `run_detail_embedded` | `ShownRunIsRequested`, `ImplementsLatestRead`: the screen never shows a run the newest open did not ask for, and refines `LatestRead` | two runs of one workflow and an engine v1 run, 3 reads, 2 events, pages of 1 |
| `run_detail_service` | `TimelineOfShownRun`, `TotalCountsSnapshot`, `LoadSettles`: where every timeline pages forward, it is a gap-free stretch of one run, totals are right, and every open and page ends. `OperatorKeepsPage`, `LinkEndsAtRow`: the page is left where the operator moved it, and links end at their row. `DetailTellsTheRun`: what the page says in two places agrees | one run of 3 events, so 3 pages; 3 reads of the operator; two failures, one child, one card; details with every field that bears on a statement, lists of up to 3 |
| `child_link` | (violation of `ChildLinkFindsChild`) the link of a child takes the id of a run for that of an instance | the same failures, child and card |
| `run_commands` | `RejectedMeansNotDone`, `ConfirmationIsKept`, `OneSuccessorPerConfirmation`: verdicts are true, a confirmation acts on one run, retries redrive once and find the successor | both modes; two workflows, a chain of three runs in one; 2 dialogs, 3 requests, 3 reads |
| `run_commands_history` | `RedriveOpensSuccessor`, `AcceptedNotOfferedAgain`, `ConfirmationSettles` also for dialogs left behind: wherever the screen has gone on to, a redrive's answer leads to the successor of the run it was posted for. `ResultOfShownRun`, `InspectionSettles` for activity results among messages | both modes; two runs of one workflow and 2 dialogs, or another workflow's run and 1 dialog, 2 requests, 3 reads; two shown runs, of this release and of an older engine, 2 prompts, 2 results, 2 changes of run |
| `run_commands_back` | (violation of `OneSuccessorPerConfirmation`) Back, then a retry: one confirmation redrives two runs | 1 dialog, 2 requests, 4 reads |
| `schedules` | `WaitsAreOwned`, `TableAnswersRequest`, `AcceptedActionShown`: buttons, spinner and timer are freed exactly when they should be, the table agrees with what the next read asks, accepted actions show. `DetailOfNamedSchedule`, `HistoryGapFree`, `DetailSettles` for the dialogs, `SchedulesTellTheirState` for the figures | both modes; 2 schedules, pages of 1, 3 reads, 2 actions or outside changes; 3 dialog reads, 2 events, 1 list reload; figures of up to 3 fires or columns |
| `lists` | `LatestReadsAndSavesSettle`: the list refines `LatestRead`, and reads and saves end. `ListsTellTheirState`: it waits when it says so, is empty when it says so, and pages of two engines hold every workflow once. `AnsweredInTime`, `AnswerTellsItsPlace` for the replay, `ChoicesAreKept` for preferences | both modes, 3 runs, 4 reads, 2 chains, failures; replay limit 3, pages 0 to 5, four budgets around the margin, calls of up to 3; 3 preference requests; buckets of up to 3 v1 workflows, 2 summaries and 1 run without, two times, pages of 1 to 3 |
| `console` | `FiguresOfSelection`, `PollingFollowsSwitch`, `ScreensSettle`: the dashboard shows its selection, polls exactly as the switch says, and screens settle. `CatalogInReach`, `DashboardTellsTheAnswer`, `WorkersTellTheFleet` | 2 visits, 2 reads at once, 1 classification besides all; 3 links into the catalog, 2 last pages; the answers of `MCConsole` |
| `workers_503` | (violation of `ErrorAlertsDisplayed`) a fleet in error is answered with 503, and its alerts are never displayed | as `console` |
| `views` | `ScreenMatchesAddress`, `LinkedViewKept`: however chains overlap, the screen is what the address says. `EditorKeepsItsWord`, `SavedViewListsTheSame`: edits and saves mean what they say. `NamesUnique`, `OwnerMutates` for the table | 2 buckets, 1 view, 3 chains, 3 reads, no failures; 2 types, 1 window, 2 attributes, 1 change; 2 operators, 2 buckets, 2 names, 4 requests, 3 at once |
| `view_update` | (violation of `UpdateStoresAppliedFilters`) after a failed read, Update View stores the address's filters alone | as `views` |

**Why these bounds are enough.** A stale answer needs two reads and its consequences a third: the page
in flight, the open that supersedes it, and one more. Wrong merging needs three pages. A lost
answer and its retry are two posts; the third is another dialog's. Two rows on two pages are the
smallest table with a page past the end. Two dashboards are what it takes for one's timer to outlive its
screen. A torn uniqueness check needs two requests, an update of a row deleted under it a third, and the
row's store a fourth. The replay's limit of 3 has a first, a middle and a last page. A page of two engines
needs a row of each before it and one after. A statement about an answer is checked with every
combination of the fields it reads and with the edges of every number it compares: around each change of
unit, at each limit, and one beyond. Time limits, page sizes and counts are otherwise data.

`CHECK_DEADLOCK FALSE` is set where a bound lets the model stop: the operator has no request left.
`SYMMETRY` is used only in `views`, over the owners, buckets and names of the saved views' table, in a run
without liveness properties.

Every property has a mutant: a definition of the model changed the way a plausible bug would change the
code (`Bug...`, before the definition it replaces), under which the run's own configuration finds the
property violated. `PROJECT.json` lists them.

## Fairness

The only fairness besides one case is weak fairness of the settling of a request in flight: `axios` gives
every read up after a time limit (15 s for run details, `flow.vue:2098`, `:2466`; 10 s for run detail
preferences; 65 s by default from the installation's `RequestTimeouts`), and a promise that settles runs
its handler. It is stated for each request number, so that one request's settling does not stand for
another's. The other case is the dashboard's `setTimeout`, which fires once it is set and not cleared;
`PollingFollowsSwitch` needs it for the half that says the figures are read again. Nothing is assumed of
the operator, the engine, or of the server answering at all: without an answer, the failure action is what
happens. `SavedViews` and `CursorPageReplay` have no liveness property: a PHP request ends with its
statements, and the replay's loop is bounded by proof.

## The proofs

The theorems hold for every value of the constants under the named assumptions in the modules, which type
the constants and say no more than the code does (an engine v1 run has no instance; service mode has no
such run; page sizes are positive). TLC evaluates the assumptions in the runs. In each module the safety
properties are not inductive; `IInv` is the strengthening that is, `Invariance` proves it, one lemma per
operation, and the properties follow from it.

**`RunDetailProofs`**: `TypeCorrect`, `ShownRunRequested`, `WaitingOwned`, `EventsKept`,
`LatestReadImplemented`. That a late answer cannot be shown needs to know that numbers in flight are
distinct and at most the newest (`ReadsNumbered`); that the newest answer is for the run asked needs what
the screen remembers of the newest read (`NewestRemembered`) and that the detail on display is an answer
for its run (`FlowIsAnswer`), whose cursor continues it, since Load more and complete details take their
path from it; `PathsOK` says a cursor is only sent to the run it belongs to; `FlagsOK` that ready, failed
and loading exclude each other; `ServerOK` that an instance's current run is its own.
`LatestReadImplemented` maps every step of the screen to a step of `LatestRead` or a stutter.

Of the timeline: `TimelineStands` (`TimelineOfShownRun`), `TotalIsSnapshot` (`TotalCountsSnapshot`).
`StretchInvariance` says that the rows on display are those after some `a` up to
some `b`, that the cursor stands at `b` and not beyond its snapshot, and that `a` is 0 in a window that
starts at the first event; and that no cursor in flight or in an address stands beyond its snapshot.
`ForwardPageStretches` and `LatestWindowStretches` say it of what the server answers, also after
retention, and `PageContinues` of a page merged into the timeline: `a..b` and `b..c` make `a..c`. So two
runs and three pages, which the runs check apart, are covered together, with any page size.

Of the page it is shown on (`RunTimeline`): `OperatorIsObeyed` (`OperatorKeepsPage`), `LinkFindsRow`
(`LinkEndsAtRow`), for any runs, windows, failures and cards. `PageInv` says that a page the operator
moved has no call left that was not interrupted (`MovedIsInterrupted`), and that a row found for a
fragment is highlighted as long as its call goes on (`FoundIsHighlighted`). Both have the hypothesis
`AllInterrupt`: every member of `Inputs` is one that the code gives way to. Tab and Enter are not (see
[known disagreements](#known-disagreements)); the inputs of the runs are.

Of what the page says of a run: `DetailTold` (`DetailTellsTheRun`). Each statement has a theorem of its own,
for every answer of the shape it names: `IssuesCounted`, `ClosedLook`, `AmountsRight` (any number of bytes and
of seconds), `LinksOpen`, `CurrentChildWaits`, `AttentionPinned` (tables of any length: the list of twelve,
the share of eight of a kind and what was dropped), `ActionsMatch`, `NoStreamsMeant`, `NoFailuresMeant`,
`MoreOffered`, `ProblemsTold` (any row of any table), `SightRendered` (any number of rows, at every offset the
statement takes). The shapes are four: the tables read are sequences (`IsTable`); availability of streams is a
boolean or not told (`StreamsAreKnown`); an engine that counts events says that there are older ones exactly
when it returned fewer (`CountsOlder`);
and what decides whether a row's problem is told, as that a rejection's reason comes with a rejected command
(`DecidesOn`, of a row). The last two are promises of the engine. `IsRunAnswer` puts together what is said of
a run; `WaitingRunsAre` to `WindowRunsAre` and `TroubledRowsAre` show that every answer of the run has the
shape, so the hypotheses hold in every state checked; the variable on display is one such answer or blank.

**`RunCommandsProofs`**: of commands, `AcceptedNotOffered` and `OpensSuccessor`, however the operator moves
about and whichever dialogs are left behind, and where
dialogs are not left behind, `RejectedIsNotDone`, `ConfirmationKept`, `OneSuccessor`;
for any runs and any number of dialogs, requests and reads. `IInv` has what nothing undoes: what an
accepted command did (`AcceptedIsDone`), that successors exist, that dialogs and requests are numbered.
`Kept` has what an open dialog relies on: it is about the run behind it (`DialogOfFlow`), the browser
waits for its request and no other (`WaitsForDialog`), all requests and effects of a confirmation name one
run (`OneRunPerConfirmation`), a redrive is only refused when another confirmation redrove the run
(`RefusalsAreOthers`), and a request that was turned down changed nothing and never will
(`NothingDone`). The hypothesis `~LeavesDialog` is a constant of the model: `run_commands_back` shows
that `OneSuccessor` is false without it. `OpensSuccessor` needs no more than `IInv`: the run opened is that of
the answer; its workflow is that of the run on display, so the property speaks of it only as long as that is
a run of the same workflow (`OpensSuccessorOf`; see [known disagreements](#known-disagreements)).

Of activity results, `ResultFitsRun` (`ResultOfShownRun`): the popup shows a result exactly while the
button of that result waits for it to be closed (`MessagesInv`), so that a result that comes late, over
another popup or after a change of run, is not shown.

**`SchedulesProofs`**: of the table, `WaitsOwned`, `TableMatches`, `AcceptedShown`. `RowsHeld` says of each
row that it is pending exactly when an action in flight, its notice or the read after it holds it, and that
only one of the three does; a notice that replaces another hands the replaced one's row over to a read.
`AcceptedSeen` says where an accepted action is known: in the rows on display, in the answer of the newest
read, in that read not being answered yet, or behind the notice that leads to a read. `PostsNumbered` keeps an
action the browser gave up from counting as accepted when the server performs it later.

Of the dialogs, `DetailNamesSchedule`, `HistoryHasNoGap`. An answer of details is for the schedule its
read named, and only the newest is shown (`DetailNamed`); as long as no two history reads overlapped, the
events on display are the first ones of the schedule named, the cursor stands after them, and the read in
flight asks for the next (`HistoryInOrder`). `PageGoesOn` says of any page of the server that it goes on
where the cursor stands.

Of the figures, `SchedulesTold` (`SchedulesTellTheirState`), argued in the same way: `RowsAreNamed` for
any two schedules with a namespace, `LastResultsTold` for any schedule whose recorded times are times,
`CadencesTold`, `FiresTold` and `OptionsKept` for lists of any length, `BackfillsTold` for any backfill
whose counts are those of its results, `CardsTold` for any list at any time, `FocusStays` for any number
of controls, `DurationsTold` for any two texts of sections and parts: two that read alike have the same
amounts in the same sections, because the unit and the section of a part decide how it is told.

**`FieldsProofs`** is what the last two rest on. A list cut down by a condition is `At` some of its places:
the place of each member kept is its rank (`RanksAre`, `RanksReach`: ranks go through the numbers up to their
count without gap, as they are as many as the places and all different), so what is kept is what was
there, all of it and in order (`AtIs`, `KeptFrom`, `KeptAll`, `KeptLength`), with no fold or recursion in the
definition. `FirstOfIs` and `FirstThatIs` say the same of the first field with a value and of the first
condition that holds; `JoinedBefore` and `JoinedAfter` where the members of two lists joined stand.

**`WorkflowListProofs`**: `ScreenMatches`, `WaitingIsOwned`, `ListReadsLatest` (the refinement of
`LatestRead`), `LinkedViewStays` (`LinkedViewKept`). `ListFollows` says that with no route change left to
follow the newest read asks for the address and the page, and that rows which may stay on display are theirs;
`OneChain` that for an operator who waits there is one chain, which reads the views of the bucket of the
address. `LinkedViewStays` has no hypothesis: chains overlap and reads fail at will. `LinkSelected` says that
a selector that was not misled shows the view of the address if the bucket has it; a chain that corrects the
address looks at the address anew before it does (`AfterPreferences`), so a chain begun for another address
does no harm. What a misled selector does is among the [known disagreements](#known-disagreements).

**Of preferences**, in the same module: `ChoicesKept`. Where only buttons save, no two saves overlap and each
writes what was saved last (`SavesAlone`, `SavedInOrder`); on the workflow list, saving the selected view
keeps the options (`OptionsKept`); on the run detail screen a read and a save are never in flight together
(`TabShown`).

**`ConsoleProofs`**: of the three screens under one address and one switch, `SelectionShown`
(`FiguresOfSelection`) and `CatalogReached` (`CatalogInReach`). Request numbers of the dashboard are used
again, but never while a read carries them (`Distinct`), the newest read asks for the selection, and a
timer is only set while nothing is awaited; so a dashboard left quiet stays quiet. The catalog's controls
hold at most one of two filters that exclude each other (`Controls`), and an address written from them is
read back as the same controls (`RoundTrip`), whatever aliases of older links it had before.

Of the figures, `AnswerTold` (`DashboardTellsTheAnswer`) and `WorkersTold` (`WorkersTellTheFleet`), for
the answers the model enumerates; and under them, what each decision makes of *any* answer:
`EveryPageInReach` for any page and number of pages; `WorkersCountedOnce` for rosters of any length, over
any set of workers; `FleetAddsUp` for any finite fleet; `HealthRollsUp` for any checks and alerts whose
categories are those the engine declares; `AgesTold` for every age and duration; `TonesAgree` for any
figures of a queue; `FactsTold` for any figures, drains and queues of an alert. Their hypotheses type the
answer, except two: a rollout is not called by the word of a pending status (`TonesAgree`), and an alert's
record of drains has figures of drains only (`FactsTold`): the screen does not look for others there. The
counts are proved by bijections between workers and rows.

**`SavedViewsProofs`**: `UniqueNames`, `OnlyOwnersMutate`, `CreatedViewsStay`. The owner is checked when a
row is loaded and not when it is written; `Owned` says that a request past its find is of the owner of its
view as long as the row is there, which holds because an update never changes the owner and `Fresh` keeps
ids of views to be stored out of every other request. Uniqueness rests on the index, and the proof shows
that an update of only the dirty columns cannot get around it.

Of the filters, `EditorIsObeyed` (`EditorKeepsItsWord`), `SavedAsListed` (`SavedViewListsTheSame`), for
any filters, windows and attributes. Both rest on `MergeAgain`: filters merged over a view a second time
change nothing; and on `PostedAsApplied`: a save posts the filters of the answer it was made from, to
which its address adds nothing.

**`PagesProofs`**, of one list request of service mode: `BoundedInCalls`, `BoundedInTime`,
`AnswersTellTheirPlace`. The invariant says where a request stands (`Looping`, `Calling`, `Answered`),
that the token leads to the page after the one read last (`Position`), and that time exceeds the budget by
at most one call (`InTime`).

Of a bucket of both engines, `PagesHold`: `PagesPartition` for every finite set of rows, every time and id
(an id names one workflow of its engine) and every page size, where the run has six rows and three sizes.
The rank of a row in a total order is a bijection onto the places of the list (`SortedLists`). Each engine's
list is the merge's order on its own rows (`ByAgeMerges`, the one step that needs `ListedAlike`); a row that
stands before the end of the page in the merge stands no later in its engine's list (`PartRank`), so both
fronts together hold the front of the merge and the page cut out of them is the one cut out of the whole
(`MergedPage`). Without engine v1 the page runs over the end of the runs into the summaries (`JoinedPage`).
Pages cut out of a list at multiples of the page size show each place once (`EachShownOnce`).

Of the list screen, `ListState` (`ListTellsItsState`), and of all of it `ListsTell`
(`ListsTellTheirState`). `Counted` says that rows are missing from the display only where none matched:
with a service mode page past the end answered by the last, an answer without a row is the answer of an
empty bucket (`AnswerCounted`), and a failed or cleared list is either loading or in error.

Only model-checked:

* the liveness properties `LoadSettles`, `ConfirmationSettles`, `InspectionSettles`, `DetailSettles`,
  `LatestReadsAndSavesSettle` (the refinement that is part of it is proved), `ScreensSettle` and
  `PollingFollowsSwitch`: the installed provers handle neither `ENABLED` nor fairness.

Every safety invariant, action property and refinement that a passing run checks is stated by a theorem.

No module uses `RECURSIVE`. Words that a screen prints are written with hyphens, because the backend of
the prover cannot read a blank in a string.

## Known disagreements

Four runs of their own:

* `run_commands_back`: the redrive dialog captures a request id and not the run, and `commandEndpoint`
  reads the run on display when it posts (`flow.vue:5057`). After an unanswered redrive, Back to a run of
  another workflow and a retry redrive that one too, although the changelog says that one confirmation
  cannot start a second successor.
* `child_link`: the link of a child's run in the timeline opens an address that takes the run for an
  instance (`flow.vue:2599`).
* `workers_503`: a fleet in error is answered with 503, which the workers view shows as unavailable
  (`WorkerHealth.vue:723`), so the alerts about it are never displayed.
* `view_update`: Update View after a failed list read stores only the filters of the address
  (`index.vue:1499`).

The following were met while modelling. The model has the behaviour, and the named property excludes it,
or no property is stated about it; without the condition TLC finds the violation.

*Run detail screen: reading and the page*

* Open complete details after a failed open (`flow.vue:2408`) prefers the run kept from before, so it opens
  run A under the address of run B, although `README.md:336` offers it for the run whose summary is
  unavailable. `ShownRunIsRequested` compares the run with the path that was asked.
* Tab and Enter do not give up following a fragment (`flow.vue:2181`), against `CHANGELOG.md:274`;
  `OperatorKeepsPage` fails with them among the `Inputs`.
* The virtual window of the event list keeps its start while its container is rebuilt by a change of tab,
  and shows blank space until scrolled (`flow.vue:3099`); it takes every row for 92 px high. The
  highlighted event survives Inspect full details and Load older.
* Closed runs: `isClosed` and `detailStatusClass` know no `timed_out`, which `WorkflowsController.php:1703`
  and `V2StoredWorkflowResource.php:742` treat as closed. A closed wait is still labelled by its missing
  or stale task; "Current Child" names an open child wait also when the current wait is none; an update
  with a result and an error hides the error; a remark about a backfilled contract needs
  `declared_contract_source`; the pinned list of twelve drops blocked tasks behind waits and activities.
* A failed run of service mode whose `recent_failures` is no list has "Failure information is unavailable"
  above the failure it lists (`failure-summary.mjs:41`). The query row of the action table and its button
  differ when an older engine says nothing of it.

*Run detail screen: commands and messages*

* Back while a redrive is on its way (`flow.vue:4992`), or Escape and navigation, to a run of another
  workflow: the handler reads the run on display after the await and opens the successor under that workflow,
  against `CHANGELOG.md:65`. `RedriveOpensSuccessor` speaks of the successor's workflow while the run on
  display is of the same one.
* Refusals in service mode (`RenderApiExceptionsAsJson.php:145`): a 409 of the standalone server is given
  the error of a transport failure, so the dialog reports an unknown outcome and hides the reason, against
  `SERVICE_MODE.md:77`. `RejectedMeansNotDone` speaks of what is called rejected.
* After Back, prompts take their arguments from and post to the run shown at that moment, and a query's
  result comes up over it. The failure of a dialog that was replaced is written into another one, or
  nowhere after Escape. A run that declares an empty list of names hides its contracts.

*Schedules*

* A pause that took effect can be told as failed: in service mode the describe call after it may fail
  (`RemoteSchedulesController.php:80`). The next read shows the pause.
* A backfill does not hold off the timer (`ScheduleView.vue:1240`), against the comment at line 861.
* An empty page past the end in embedded mode (`ScheduleView.vue:824`, `index.vue:241`) says that nothing
  matches, or that the collection is empty; the properties about emptiness speak of service mode.
* A late history answer (`ScheduleView.vue:1330`) fills the dialog of another schedule. `HistoryGapFree`
  speaks of reads that do not overlap.

*Workflow list, filters and preferences*

* A link's saved view is removed from the address when the previous bucket's views are answered late
  (`index.vue:290`), against `README.md:368`, or when they cannot be read (`index.vue:295`); after Update View
  the selector then shows no view while the address keeps it. `LinkedViewKept` has `~misled`.
* The notice of new runs (`index.vue:233`) stays after a route change, Retry or a refresh has shown them.
* A link's view options (`index.vue:557`) give way to the stored ones when a save is answered, against
  `README.md:370`; a late read followed by a save of the options brings an older selected view back.
* A plain filter or label emptied in the editor still applies when the saved view has it. Save on a view of
  another version takes over its filters, and updating such a view replaces search attributes as a whole,
  though the note at `index.vue:1422` says otherwise. The editor and Save, used while a read for another
  address is in flight, use the previous list's filters.
* A run detail tab whose save fails is lost in silence.
* With engine v1 workflows in a bucket (`HybridWorkflowRepository.php:55`): runs without a summary lead the
  v2 list whatever their time; the merge ignores ascending order when summaries cannot be read; and ids of
  v1 are compared as text at equal times ("10" before "9"). Rows then stand on two pages while others are
  on none. `PagesPartition` has `ListedAlike`.

*Dashboard, workers and catalog*

* Auto refresh thrown on while the dashboard has its figures starts nothing until the next read; a failed
  tick takes the figures down and sets no timer; an answer after leaving sets the timer of a dashboard
  nobody sees until its next answer; a link to bare `/dashboard` leaves the classification selected.
  `PollingFollowsSwitch` and `FiguresOfSelection` say what remains.
* Workers view: late older answers are displayed; uncategorised checks of older engines are listed under a
  category whose declared rollup says ok; where the fleet is counted from its entries, a worker with a
  stale heartbeat counts twice; "0/N workers support" is said when the count was not reported
  (`WorkerHealth.vue:1358`); a build with a pending status and a total of 0 has the badge and no warning.
* Catalog: late answers are displayed, a detail reappears after Close; related rows are browsed with the
  wrong key; a page past a last page of 1 is empty and without buttons, past another one the buttons
  offer pages that are not there.

## What is not modelled

Rendering, wording, translations, themes and column layout; the workflow engine, the standalone server and
the SDK beyond the answers they give; the service catalog's, dashboard's and embedded workflow API's
queries, whose answers the screens' modules enumerate; finding one run by its several ids, statistics and
database dialects in the repositories; the engine's health checks themselves; capacity evidence, engine
source selection and authorization, which are one decision per request; the payload inspector, the
cancellation cascade and the code viewer, which draw what they are given; permissions and read-only mode,
which hide actions, except for messages; the conformance commands under `app/Console`, which drive an
installation from outside; packaging, images, release and CI scripts. `PROJECT.json` has the reason for
each component.

## The plan

Done, in this order: the reading of run details with `LatestRead` and its proofs; commands; service mode
lists; saved views; schedules; the workflow list; preferences; messages and activity results; filters;
dashboard, workers and catalog behind the shell; the timeline and what the run detail, schedules, workers
and dashboard screens say; pages of two engines; the proofs of the dashboard, preferences, workflow list
and schedules table; the proofs about timelines, the page, commands, activity results, dialogs, filters,
the catalog, the figures of dashboard and workers, and the pages of lists of two engines; what the run
detail and schedules screens say, for every answer.

Next:

1. `RunMessages`: the remaining conditions of the declared targets of older engines.
2. Finding a run by its ids (`HybridWorkflowRepository::findRun` and its callers) as functions checked
   against a reference definition.
