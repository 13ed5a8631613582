----------------------------- MODULE WorkerRows ------------------------------
(***************************************************************************)
(* The rows of the workers screen (WorkerHealth.vue): alerts and their     *)
(* facts, workers, queues and builds.  Where the answer leaves a figure    *)
(* out, the screen must not tell one.  Times are seconds.                  *)
(***************************************************************************)
EXTENDS WorkerFigures, SequencesExt

\* A count is told when there is something to count.
Positive(of, figure) == Has(of, figure) /\ of[figure] > 0
Tell(of, words) == {<<words[f], of[f]>> : f \in {g \in DOMAIN words : Positive(of, g)}}

\* "fresh", less than a second, or hours, minutes and seconds; halves stands
\* for half seconds, so that there is an age below one second.
DurationLabel(halves) ==
    LET seconds == halves \div 2
    IN  IF halves <= 0 THEN <<"fresh">>
        ELSE IF seconds = 0 THEN <<"<1s">>
        ELSE IF seconds < 60 THEN <<"s", seconds>>
        ELSE IF seconds < 3600 THEN <<"ms", seconds \div 60, seconds % 60>>
        ELSE <<"hms", seconds \div 3600, (seconds % 3600) \div 60, seconds % 60>>
-----------------------------------------------------------------------------
(***************************************************************************)
(* Alerts.                                                                 *)
(***************************************************************************)
StatusTones ==
    [ok |-> "is-ok", warning |-> "is-warning", error |-> "is-error", active |-> "is-ok",
     idle |-> "is-info", draining |-> "is-warning", failed |-> "is-error",
     offline |-> "is-muted", incompatible |-> "is-warning"]

QueueFactWords ==
    [queue_count |-> "queues", backlog_count |-> "backlog",
     stale_poller_count |-> "stale-pollers", candidate_count |-> "repair-candidates"]

RoutingFactWords ==
    [compatibility_blocked_runs |-> "compat-blocked",
     dispatch_overdue_tasks |-> "dispatch-overdue", claim_failed_tasks |-> "claim-failed",
     queues_with_drains |-> "draining-queues", draining_build_id_count |-> "draining-builds",
     draining_worker_count |-> "draining-workers", stale_worker_count |-> "stale-workers",
     active_worker_scopes |-> "worker-scopes"]
Drains == {"queues_with_drains", "draining_build_id_count", "draining_worker_count",
           "stale_worker_count"}
BlockedAges == {"max_compatibility_blocked_age", "max_dispatch_overdue_age",
                "max_claim_failed_age"}

\* The figures of drains may be in a record of their own.
WithDrains(facts) ==
    LET drains == Rows(facts, "routing_drains")
    IN  [f \in DOMAIN facts \cup Shown(drains, Drains) |->
            IF Has(facts, f) THEN facts[f] ELSE drains[f]]

\* A count of supporting workers that is not reported passes for zero.
FleetCoverage(facts) ==
    LET supporting == IntegerLabel(facts, "active_workers_supporting_required")
        active == IntegerLabel(facts, "active_workers")
    IN  When(Is(facts, "fleet_supports_required", FALSE),
             {<<"no-fleet-coverage-for", FirstOf(facts, <<"required_compatibility">>)>>})
        \cup When(active > 0 /\ supporting < active,
                  {<<"workers-support-required-marker", supporting, active>>})

RoutingHealthAlertFacts(facts) ==
    LET ages == {facts[age] : age \in Shown(facts, BlockedAges)}
        Oldest == CHOOSE age \in ages : \A other \in ages : other <= age
    IN  Tell(WithDrains(facts), RoutingFactWords)
        \cup {<<label, facts[label]>> : label \in Shown(facts, {"matching_shape", "task_dispatch_mode"})}
        \cup When(Is(facts, "queue_wake_enabled", TRUE), {<<"wake-enabled">>})
        \cup When(Is(facts, "queue_wake_enabled", FALSE), {<<"wake-disabled">>})
        \cup FleetCoverage(facts)
        \cup When(\E age \in ages : age > 0, {<<"max-age", DurationLabel(Oldest)>>})

IsRouting(alert) == Is(alert, "source", "health_check") /\ Is(alert, "key", "routing_health")

CoordinationAlertFacts(alert) ==
    IF IsRouting(alert)
    THEN RoutingHealthAlertFacts(IF Has(alert, "facts") THEN alert.facts ELSE <<>>)
    ELSE Tell(alert, QueueFactWords)
            \cup When(Positive(alert, "max_age"), {<<"max-age", DurationLabel(alert.max_age)>>})

\* Of more than three queues, three and how many more.
NamedQueues == 3
CoordinationAlertQueues(alert) ==
    LET queues == Rows(alert, "queues")
        named == SubSeq(queues, 1, IF Len(queues) > NamedQueues THEN NamedQueues ELSE Len(queues))
    IN  [named |-> named, more |-> Len(queues) - Len(named)]

\* The heading: how many alerts of each status, and how many in all.
AlertHeading(alerts) ==
    LET Of(status) == Cardinality({alert \in alerts : alert.status = status})
    IN  [errors |-> Of("error"), warnings |-> Of("warning"), open |-> Cardinality(alerts),
         tone |-> StatusTones[CoordinationAlertRollup(alerts)]]
-----------------------------------------------------------------------------
(***************************************************************************)
(* Workers.                                                                *)
(***************************************************************************)
StaleAfter == 300

\* A compatibility heartbeat as a row of the table.
FleetEntryToWorker(entry) ==
    LET supports == Is(entry, "supports_required", TRUE)
    IN  [supported_compatibility |-> Rows(entry, "supported"),
         supports_required |-> supports,
         status |-> IF supports THEN "active" ELSE "incompatible"]

WorkerStatusToneClass(worker) ==
    IF IsIn(worker, "status", DOMAIN StatusTones) THEN StatusTones[worker.status] ELSE "is-muted"

\* worker.age: how long ago the last heartbeat was, where there was one.
IsHeartbeatStale(worker) == Has(worker, "age") => worker.age > StaleAfter

HeartbeatClass(worker) == IF IsHeartbeatStale(worker) THEN "text-danger" ELSE "text-success"
WorkerRowClass(worker) == IF IsHeartbeatStale(worker) THEN "stale" ELSE ""

FormatHeartbeat(worker) ==
    IF ~ Has(worker, "age") THEN <<"never">>
    ELSE IF worker.age < 60 THEN <<worker.age, 1>>
    ELSE IF worker.age < 3600 THEN <<worker.age \div 60, 60>>
    ELSE IF worker.age < 86400 THEN <<worker.age \div 3600, 3600>> ELSE <<"date">>

\* Two markers of those that are advertised, and the word on the required one.
Listing(names) ==
    [named |-> SubSeq(names, 1, IF Len(names) > 2 THEN 2 ELSE Len(names)), cut |-> Len(names) > 2]
CompatibilityCell(worker) ==
    LET markers == Rows(worker, "supported_compatibility")
        word == IF Has(worker, "supports_required")
                THEN IF worker.supports_required THEN <<"is-ok", "Supports-required-marker">>
                     ELSE <<"is-warning", "Does-not-support-required-marker">>
                ELSE <<"is-muted", "Required-marker-not-set">>
    IN  IF markers = <<>> THEN <<>> ELSE [markers |-> Listing(markers), word |-> word]

\* Slots: what is free and what there is, of workflow tasks, of activities and
\* of sessions; worker.slots is task_slots, kind and figure at once.
Kinds == {"workflow", "activity", "session"}
Slots(worker) == IF Has(worker, "slots") THEN worker.slots ELSE <<>>

SlotCapacity(worker, kind) ==
    IF Has(Slots(worker), <<kind, "capacity">>) THEN <<worker.slots[kind, "capacity"]>>
    ELSE IF Has(worker, "most") /\ kind \in DOMAIN worker.most THEN <<worker.most[kind]>> ELSE <<>>

SlotAvailable(worker, kind) ==
    IF Has(Slots(worker), <<kind, "available">>) THEN <<worker.slots[kind, "available"]>> ELSE <<>>

HasSlotData(worker) == \E kind \in Kinds : SlotAvailable(worker, kind) # <<>>

\* <<>> is a question mark; both unknown is a dash.
FormatSlotPair(available, capacity) ==
    [free |-> available, of |-> IF capacity = <<0>> THEN <<>> ELSE capacity]

SlotsCell(worker) ==
    LET Pair(kind) == FormatSlotPair(SlotAvailable(worker, kind), SlotCapacity(worker, kind))
    IN  [kind \in {k \in Kinds : IF k = "session" THEN SlotAvailable(worker, k) # <<>>
                                 ELSE HasSlotData(worker)} |-> Pair(kind)]

\* Columns: those allowed among the ones asked for, and the worker always.
WorkersListColumns ==
    {"worker_id", "runtime", "task_queue", "heartbeat", "status", "compatibility", "source",
     "workflows", "activities", "concurrency", "slots", "process"}

EnabledColumns(preferences) ==
    IF Has(preferences, "columns")
    THEN (ToSet(preferences.columns) \cap WorkersListColumns) \cup {"worker_id"}
    ELSE WorkersListColumns

\* What the row of a worker tells, column by column; the runtime of a worker
\* that only sends compatibility heartbeats is not reported.
WorkerCells(worker, preferences) ==
    LET cells == [heartbeat |-> <<HeartbeatClass(worker), FormatHeartbeat(worker)>>,
                  compatibility |-> CompatibilityCell(worker),
                  slots |-> SlotsCell(worker)]
    IN  [column \in DOMAIN cells \cap EnabledColumns(preferences) |-> cells[column]]
-----------------------------------------------------------------------------
(***************************************************************************)
(* Queues and builds.                                                      *)
(***************************************************************************)
\* What the panel of the queues shows.
QueuePanel(visibility) ==
    IF ~ Is(visibility, "available", TRUE) THEN <<"Queue-visibility-unavailable">>
    ELSE IF Rows(visibility, "task_queues") = <<>> THEN <<"No-task-queues-observed">>
    ELSE visibility.task_queues

\* The figures of a card.
QueueCard(queue) ==
    [figure \in {"candidates", "backlog", "active", "stale"} |-> IntegerLabel(queue, figure)]

BuildIdRolloutMeta(build) ==
    When(build.new_start_selected, {"selected-for-new-starts"})

\* The warning on pending tasks, and the colour of the badge beside it.
BuildIdPendingLabel(build) ==
    IF build.total <= 0 THEN <<>>
    ELSE IF build.pending = "no_compatible_worker"
    THEN <<build.total, "without-an-active-compatible-worker">>
    ELSE <<build.total, "for-this-build">>
-----------------------------------------------------------------------------
\* What an alert tells was reported: each fact is a figure of the answer that
\* is not zero, each figure that is not zero is told, and all queues are named
\* or counted.  (The share of supporting workers is the exception: without the
\* count of those that support, it says that none does.)
FactsAreReported(alert) ==
    LET told == CoordinationAlertFacts(alert)
        words == IF IsRouting(alert) THEN RoutingFactWords ELSE QueueFactWords
        figures == IF IsRouting(alert) THEN alert.facts ELSE alert
        drains == Rows(figures, "routing_drains")
        Reported(f) == {figures[g] : g \in Shown(figures, {f})}
                          \cup {drains[g] : g \in Shown(drains, {f} \ DOMAIN figures)}
        Told(f) == {fact[2] : fact \in {other \in told : other[1] = words[f]}}
        queues == CoordinationAlertQueues(alert)
    IN  /\ \A f \in DOMAIN words : Told(f) = Reported(f) \ {0}
        /\ IsRouting(alert) =>
              /\ (\E fact \in told : fact[1] = "no-fleet-coverage-for")
                    <=> Is(figures, "fleet_supports_required", FALSE)
              /\ \A fact \in told : Len(fact) = 3 => fact[2] < fact[3] /\ fact[3] = figures.active_workers
              /\ (\E fact \in told : fact[1] = "max-age")
                    <=> \E age \in BlockedAges : Positive(figures, age)
        /\ Len(queues.named) + queues.more = Len(Rows(alert, "queues"))

\* An age is never overstated, and not understated by as much as its smallest
\* unit; a row is marked stale exactly when its heartbeat is, so that what is
\* green reads five minutes at most, and red five minutes at least.
AgesAreTold(worker, halves) ==
    LET label == DurationLabel(halves)
        told == CASE Len(label) = 2 -> label[2]
                  [] Len(label) = 3 -> 60 * label[2] + label[3]
                  [] Len(label) = 4 -> 3600 * label[2] + 60 * label[3] + label[4]
                  [] OTHER -> 0
        ago == FormatHeartbeat(worker)
    IN  /\ 2 * told <= halves \/ halves < 0
        /\ halves < 2 * told + 2
        /\ label = <<"fresh">> <=> halves <= 0
        /\ Len(label) = 3 => label[3] < 60
        /\ Len(label) = 4 => label[3] < 60 /\ label[4] < 60
        /\ HeartbeatClass(worker) = "text-danger" <=> WorkerRowClass(worker) = "stale"
        /\ ago \in {<<"never">>, <<"date">>} => HeartbeatClass(worker) = "text-danger"
        /\ Len(ago) = 2 =>
              /\ ago[1] * ago[2] <= worker.age /\ worker.age < (ago[1] + 1) * ago[2]
              /\ HeartbeatClass(worker) = "text-danger" => ago[1] * ago[2] >= StaleAfter
              /\ HeartbeatClass(worker) = "text-success" => ago[1] * ago[2] <= StaleAfter

\* What is free is told of every kind, none as zero and not as unknown, with
\* the capacity that was reported last; what was not reported is not told; and
\* a column that is not chosen is not there, but the worker is.
SlotsAreTold(worker, preferences) ==
    LET cells == WorkerCells(worker, preferences)
    IN  /\ "worker_id" \in EnabledColumns(preferences)
        /\ "slots" \in DOMAIN cells <=> "slots" \in EnabledColumns(preferences)
        /\ "slots" \in DOMAIN cells => \A kind \in Kinds :
              /\ SlotAvailable(worker, kind) # <<>> =>
                    /\ kind \in DOMAIN cells.slots
                    /\ cells.slots[kind].free = SlotAvailable(worker, kind)
              /\ kind \in DOMAIN cells.slots =>
                    /\ SlotAvailable(worker, kind) = <<>> => cells.slots[kind].free = <<>>
                    /\ cells.slots[kind].of # <<>> => cells.slots[kind].of = SlotCapacity(worker, kind)

\* The two badges of a row made of a compatibility heartbeat agree.
FleetEntriesAgree(entry) ==
    LET worker == FleetEntryToWorker(entry)
        cell == CompatibilityCell(worker)
    IN  cell # <<>> => cell.word[1] = WorkerStatusToneClass(worker)

\* The heading of the alerts counts what is listed, in the colour of the worst.
HeadingCountsAlerts(alerts) ==
    LET heading == AlertHeading(alerts)
    IN  /\ heading.errors + heading.warnings = heading.open
        /\ heading.tone = "is-error" <=> heading.errors > 0
        /\ heading.tone = "is-ok" <=> heading.open = 0

\* The badge of a queue says what its card shows, also where the answer leaves
\* figures out; and nothing is said of queues that nothing is known of.
BadgeReadsCard(queue, visibility) ==
    LET card == QueueCard(queue)
        panel == QueuePanel(visibility)
    IN  /\ QueueStatusLabel(queue) = "healthy" <=>
              /\ card.candidates = 0 /\ card.stale = 0
              /\ card.backlog = 0 \/ card.active > 0
        /\ QueueStatusLabel(queue) = "no-active-pollers" => card.backlog > 0 /\ card.active = 0
        /\ panel = <<"No-task-queues-observed">> => Is(visibility, "available", TRUE)

\* A warning about a build goes with a badge in the colour of an error and with
\* a number of tasks, and the badge says selected only if the line below does.
BuildsAreWarnedOf(build) ==
    LET warning == BuildIdPendingLabel(build)
    IN  /\ warning # <<>> /\ warning[2] = "without-an-active-compatible-worker" =>
              BuildIdToneClass(build) = "is-error"
        /\ warning # <<>> => warning[1] > 0
        /\ BuildIdStatusLabel(build) = "selected" => BuildIdRolloutMeta(build) # {}
=============================================================================
