----------------------------- MODULE MCConsole ------------------------------
EXTENDS Console, DashboardFigures, WorkerRows

\* Each study keeps to one screen and the rest of the application, so that the
\* screens' states are looked at side by side and not multiplied.  The tour
\* goes from any screen to any other, and leaves the catalog's controls alone.
\* The figures are displayed one answer after the other.
VARIABLES study, answer

MCWords ==
    {None, "nonsense"} \cup Tabs \cup CallScopes \cup Statuses \cup StatusBuckets \cup Outcomes
        \cup OutcomeBuckets \cup CatalogIds

MCLinks ==
    {[BareQuery EXCEPT !.bucket = "open"],
     [BareQuery EXCEPT !.tab = "services", !.endpoint_id = "id", !.page = 2],
     [BareQuery EXCEPT !.operation_id = "id"],
     [BareQuery EXCEPT !.tab = "nonsense", !.status = "pending", !.status_bucket = "open"]}

Blank == [of |-> "nothing"]

\* Audits counted, not counted, or reported as something a count cannot be.
AuditAnswer(counts, rows) ==
    [k \in Projections \X {"needs_rebuild", "rows"} |->
        IF k[2] = "rows" THEN rows ELSE counts[k[1]]]

AuditAnswers ==
    {AuditAnswer(counts, rows) :
        counts \in [Projections -> {Missing, Empty, Invalid, 0, 2}], rows \in {Missing, 1}}

\* The count and the age of one line.
AgeAnswer(line, count, age) ==
    [k \in {<<line[1], line[2]>>, <<line[1], line[3]>>} |->
        IF k[2] = line[2] THEN count ELSE age]

AgeAnswers ==
    UNION {{AgeAnswer(ages[l], count, age) :
               l \in DOMAIN ages, count \in {Missing, Empty, Invalid, 0, 3},
               age \in {Missing, Empty, Invalid, 0, 7}} :
              ages \in {OverdueTaskAges, FailedTaskAges, RunAges, StartAges}}

\* One figure unlike the others.
TileAnswers ==
    LET keys == {"current", "hour", "day"} \X {"running", "failed", "completed"}
                   \cup {"workers"} \X {"active_workers", "active_worker_scopes"}
                   \cup {<<"stats", "flows_past_hour">>}
    IN  {[k \in keys |-> IF k = odd THEN figure ELSE 1] :
            odd \in keys, figure \in {Missing, Empty, Invalid, 0, 5}}

Observations == [id : {"w1", "w2"}, status : {"active", "stale"}]

Rosters ==
    [registrations : UNION {[1..n -> Observations] : n \in 0..3},
     stale : UNION {[1..n -> Observations] : n \in 0..1}]

Checks ==
    {[name |-> "engine_source", category |-> NoCategory, status |-> "ok"]}
        \cup [name : {"routing_health", "long_poll_wake_acceleration"},
              category : Categories, status : DOMAIN Severity]

CheckLists == {checks \in SUBSET Checks : Cardinality(checks) <= 3}

QueueAlerts == SUBSET {[key |-> "queue", status |-> "warning"]}

\* Records whose fields may be left out.
Maybe(values) == {<<>>} \cup {<<v>> : v \in values}
Partial(records) == {[f \in {g \in DOMAIN r : r[g] # <<>>} |-> r[f][1]] : r \in records}

Queues == Partial([candidates : Maybe(0..1), backlog : Maybe(0..1), active : Maybe(0..1),
                   stale : Maybe(0..1)])
Visibilities == Partial([available : Maybe(BOOLEAN), task_queues : Maybe({<<>>, <<"q">>})])

DrainFacts == Partial([queues_with_drains : Maybe({0, 3})])
RoutingFacts ==
    Partial([claim_failed_tasks : Maybe({0, 1}), queues_with_drains : Maybe({0, 2}),
             routing_drains : Maybe(DrainFacts),
             max_dispatch_overdue_age : Maybe({0, 5}), max_claim_failed_age : Maybe({0, 200}),
             fleet_supports_required : Maybe(BOOLEAN), active_workers : Maybe({0, 2}),
             active_workers_supporting_required : Maybe(0..2)])
QueueFacts ==
    Partial([source : {<<"queue_visibility">>}, queue_count : Maybe({0, 2}),
             backlog_count : Maybe({0, 2}), candidate_count : Maybe({0, 1}),
             max_age : Maybe({0, 100}), queues : {<<[i \in 1..n |-> "q"]>> : n \in 0..5}])

Alerts ==
    [source : {"health_check"}, key : {"routing_health"}, facts : RoutingFacts] \cup QueueFacts

Ages ==
    [worker : Partial([age : Maybe({0, 59, 60, 299, 300, 301, 359, 360, 3599, 3600, 86399, 86400})]),
     halves : {-1, 0, 1, 2, 119, 120, 7199, 7200, 7201, 9999}]

SlotFigures == [Kinds \X {"available", "capacity"} -> Maybe({0, 3})]
Workers ==
    Partial([slots : Maybe(Partial(SlotFigures)),
             most : Maybe({[workflow |-> 4, session |-> 0]})])

Fleets == [id : {"w1", "w2"}, fresh : BOOLEAN, supports : BOOLEAN]

Entries == Partial([supports_required : Maybe(BOOLEAN),
                    supported : Maybe({<<>>, <<"m">>, <<"m", "n", "o">>})])

Builds ==
    [total : 0..1, pending : {"", "no_compatible_worker"}, new_start_selected : BOOLEAN,
     rollout : {"", "active", "draining", "stale_only"}]

Answers ==
    [of : {"dashboard"}, figures : AuditAnswers \cup AgeAnswers \cup TileAnswers]
        \cup [of : {"roster"}, roster : Rosters]
        \cup [of : {"checks"}, checks : CheckLists, queues : QueueAlerts]
        \cup [of : {"badges"}, queue : Queues, build : Builds]
        \cup [of : {"queues"}, queue : Queues, visibility : Visibilities]
        \cup [of : {"alert"}, alert : Alerts]
        \cup [of : {"ages"}, ages : Ages]
        \cup [of : {"slots"}, worker : Workers,
             preferences : Partial([columns : Maybe({<<>>, <<"slots", "gone">>})])]
        \cup [of : {"fleet"}, fleet : SUBSET Fleets]
        \cup [of : {"entry"}, entry : Entries]
        \cup [of : {"pages"}, current : 1..9, last : 2..8]

MCInit ==
    /\ ConsoleInit
    /\ answer = Blank
    /\ study \in {"dashboard", "workers", "services", "tour", "figures"}
    /\ study \notin {"dashboard", "tour"} => ~filtering /\ ~autoLoadsNewEntries

ScreensNext ==
    /\ study # "figures"
    /\ ConsoleNext
    /\ study # "tour" => address'.screen \in {study, "elsewhere"}
    /\ study = "tour" => /\ visits' <= 1
                         /\ catalog' = RouteState(BareQuery)
                         /\ detail' = NoDetail
                         /\ list'.superseded = 0
    /\ study \in {"workers", "services"} => ~autoLoadsNewEntries'
    /\ UNCHANGED answer

FiguresNext ==
    /\ study = "figures"
    /\ answer' \in IF answer = Blank THEN Answers ELSE {Blank}
    /\ UNCHANGED consoleVars

MCNext == (ScreensNext \/ FiguresNext) /\ UNCHANGED study

MCSafeSpec == MCInit /\ [][MCNext]_<<consoleVars, study, answer>>

MCSpec == MCSafeSpec /\ DashboardFairness /\ WorkersFairness /\ CatalogFairness
-----------------------------------------------------------------------------
\* The dashboard shows no audit that was not counted, no age that was not
\* reported, and a figure in two places the same.
DashboardTellsTheAnswer ==
    answer.of = "dashboard" =>
        /\ AuditsAreCounted(answer.figures)
        /\ AgesAreReported(answer.figures)
        /\ DashboardAgrees(answer.figures)

\* The workers screen counts every worker once, says of the fleet, of a
\* category, a queue or a build what is listed below it, and of an alert, a
\* heartbeat or a worker's slots what was reported.
WorkersTellTheFleet ==
    /\ answer.of = "roster" =>
          RosterCountsWorkersOnce(answer.roster.registrations, answer.roster.stale)
    /\ answer.of = "checks" =>
          /\ HealthAgrees(answer.checks, answer.queues)
          /\ HeadingCountsAlerts(CoordinationAlerts(answer.checks, answer.queues))
    /\ answer.of = "badges" =>
          TonesFollowLabels(answer.queue, answer.build) /\ BuildsAreWarnedOf(answer.build)
    /\ answer.of = "queues" => BadgeReadsCard(answer.queue, answer.visibility)
    /\ answer.of = "alert" => FactsAreReported(answer.alert)
    /\ answer.of = "ages" => AgesAreTold(answer.ages.worker, answer.ages.halves)
    /\ answer.of = "slots" => SlotsAreTold(answer.worker, answer.preferences)
    /\ answer.of = "fleet" => FleetCountsAddUp(answer.fleet)
    /\ answer.of = "entry" => FleetEntriesAgree(answer.entry)

\* The catalog answers the operator's choice, and every page of the answer is
\* in reach of its buttons, whatever the page and the number of pages.
CatalogInReach ==
    /\ CatalogAnswersChoice
    /\ answer.of = "pages" => PagesInReach(answer.current, answer.last)
=============================================================================
