-------------------------- MODULE DashboardFigures --------------------------
(***************************************************************************)
(* What the dashboard makes of the figures it was answered                 *)
(* (resources/js/screens/dashboard.vue and projection-metrics.mjs): which  *)
(* tiles, tables and lines show which figure, and when.                    *)
(*                                                                         *)
(* An answer is a partial function from <<section, key>> to figures.  A    *)
(* figure is a count or a duration, or what a count cannot be: Empty for   *)
(* FALSE and empty text, Invalid for other text and negative numbers.      *)
(* Absent keys read as Missing, as null and undefined do.                  *)
(***************************************************************************)
EXTENDS Integers

Missing == -1
Invalid == -2
Unknown == -3       \* the label "Unknown"
Empty == -4
Dash == -5          \* the label "-"

Figure(m, section, key) ==
    IF <<section, key>> \in DOMAIN m THEN m[<<section, key>>] ELSE Missing

\* ... || 0
OrZero(figure) == IF figure \in {Missing, Empty} THEN 0 ELSE figure

\* A section of the fleet overview, its trends among them, or of the metrics.
FleetMetric(m, section, key) == OrZero(Figure(m, section, key))
OperatorMetric(m, section, key) == OrZero(Figure(m, section, key))
-----------------------------------------------------------------------------
(***************************************************************************)
(* History audits.                                                         *)
(***************************************************************************)
Projections ==
    {"run_summaries", "run_waits", "run_timeline_entries", "run_timer_entries",
     "run_lineage_entries"}

BugOrZeroAudit(m, group, key) == OperatorMetric(m, group, key)

ProjectionMetric(m, group, key) ==
    IF Figure(m, group, key) >= 0 THEN Figure(m, group, key) ELSE Unknown

ProjectionRebuildTotal(m) ==
    LET Count(group) == ProjectionMetric(m, group, "needs_rebuild")
    IN  IF \E group \in Projections : Count(group) = Unknown
        THEN Unknown
        ELSE Count("run_summaries") + Count("run_waits") + Count("run_timeline_entries")
                + Count("run_timer_entries") + Count("run_lineage_entries")

\* The paragraphs of "Projection health", one figure of each standing for all.
ProjectionHealth(m) ==
    [run_summaries        |-> ProjectionMetric(m, "run_summaries", "rows"),
     run_waits            |-> ProjectionMetric(m, "run_waits", "rows"),
     run_timeline_entries |-> ProjectionMetric(m, "run_timeline_entries", "rows"),
     run_timer_entries    |-> ProjectionMetric(m, "run_timer_entries", "rows")]
-----------------------------------------------------------------------------
(***************************************************************************)
(* "oldest ... (since ...)": one function offers a line, looking at a      *)
(* count and an age of a section; the template prints an age.              *)
(***************************************************************************)
OverdueTaskAges ==
    [stuckLease      |-> <<"tasks", "lease_expired", "max_lease_expired_age_ms">>,
     readyDue        |-> <<"tasks", "ready_due", "max_ready_due_age_ms">>,
     dispatchOverdue |-> <<"tasks", "dispatch_overdue", "max_dispatch_overdue_age_ms">>]

FailedTaskAges ==
    [claimFailed    |-> <<"tasks", "claim_failed", "max_claim_failed_age_ms">>,
     dispatchFailed |-> <<"tasks", "dispatch_failed", "max_dispatch_failed_age_ms">>,
     unhealthy      |-> <<"tasks", "unhealthy", "max_unhealthy_age_ms">>]

RunAges ==
    [waiting        |-> <<"runs", "waiting", "max_wait_age_ms">>,
     repairNeeded   |-> <<"runs", "repair_needed", "max_repair_needed_age_ms">>,
     retrying       |-> <<"activities", "retrying", "max_retrying_age_ms">>,
     timeoutOverdue |-> <<"activities", "timeout_overdue", "max_timeout_overdue_age_ms">>]

StartAges ==
    [blocked        |-> <<"backlog", "compatibility_blocked_runs",
                          "max_compatibility_blocked_age_ms">>,
     summaryMissing |-> <<"run_summaries", "missing", "max_missing_run_age_ms">>]

\* Available(m, of): the line is offered.
Available(m, of) ==
    /\ Figure(m, of[1], of[3]) # Missing
    /\ Figure(m, of[1], of[2]) > 0 \/ Figure(m, of[1], of[3]) > 0

AgeLabel(figure) == IF figure > 0 THEN figure ELSE Dash

OperatorDuration(m, section, key) == AgeLabel(OperatorMetric(m, section, key))

ProjectionDuration(m, group, key) ==
    IF ProjectionMetric(m, group, key) = Unknown
    THEN Unknown
    ELSE AgeLabel(ProjectionMetric(m, group, key))

\* The ages printed: in the metrics grid, and in the sections below it.
GridAges(m) ==
    [readyDue        |-> OperatorDuration(m, "tasks", "max_ready_due_age_ms"),
     unhealthy       |-> OperatorDuration(m, "tasks", "max_unhealthy_age_ms"),
     stuckLease      |-> OperatorDuration(m, "tasks", "max_lease_expired_age_ms"),
     dispatchOverdue |-> OperatorDuration(m, "tasks", "max_dispatch_overdue_age_ms"),
     dispatchFailed  |-> OperatorDuration(m, "tasks", "max_dispatch_failed_age_ms"),
     repairNeeded    |-> OperatorDuration(m, "runs", "max_repair_needed_age_ms"),
     claimFailed     |-> OperatorDuration(m, "tasks", "max_claim_failed_age_ms"),
     blocked         |-> OperatorDuration(m, "backlog", "max_compatibility_blocked_age_ms"),
     waiting         |-> OperatorDuration(m, "runs", "max_wait_age_ms")]

SectionAges(m) ==
    [retrying        |-> OperatorDuration(m, "activities", "max_retrying_age_ms"),
     timeoutOverdue  |-> OperatorDuration(m, "activities", "max_timeout_overdue_age_ms"),
     summaryMissing  |-> ProjectionDuration(m, "run_summaries", "max_missing_run_age_ms")]
-----------------------------------------------------------------------------
(***************************************************************************)
(* Tiles and tables.  A figure shown in two places has one name here.      *)
(***************************************************************************)
SummaryTiles(m) ==
    [running       |-> FleetMetric(m, "current", "running"),
     failed        |-> FleetMetric(m, "current", "failed"),
     completedDay  |-> FleetMetric(m, "day", "completed"),
     completedHour |-> FleetMetric(m, "hour", "completed"),
     flowsHour     |-> OrZero(Figure(m, "stats", "flows_past_hour")),
     activeWorkers |-> OperatorMetric(m, "workers", "active_workers"),
     queueScopes   |-> OperatorMetric(m, "workers", "active_worker_scopes")]

OverviewTiles(m) ==
    [flowsHour |-> OrZero(Figure(m, "stats", "flows_past_hour")),
     flows     |-> OrZero(Figure(m, "stats", "flows")),
     rebuilds  |-> ProjectionRebuildTotal(m)]

FleetTables(m) ==
    [running       |-> FleetMetric(m, "current", "running"),
     failed        |-> FleetMetric(m, "current", "failed"),
     completedHour |-> FleetMetric(m, "hour", "completed"),
     completedDay  |-> FleetMetric(m, "day", "completed")]

OperatorGrid(m) ==
    [activeWorkers |-> OperatorMetric(m, "workers", "active_workers"),
     queueScopes   |-> OperatorMetric(m, "workers", "active_worker_scopes"),
     runnable      |-> OperatorMetric(m, "backlog", "runnable_tasks")]
-----------------------------------------------------------------------------
\* "Missing or unavailable audit information is never presented as a verified
\* zero": the total is on display only when every projection was counted, and
\* is then their sum; a zero of any line was counted.
AuditsAreCounted(m) ==
    /\ LET total == OverviewTiles(m).rebuilds
           Counted(group) == Figure(m, group, "needs_rebuild")
       IN  /\ total # Unknown => \A group \in Projections : Counted(group) >= 0
           /\ total = 0 => \A group \in Projections : Counted(group) = 0
    /\ \A group \in DOMAIN ProjectionHealth(m) :
          ProjectionHealth(m)[group] # Unknown =>
             ProjectionHealth(m)[group] = Figure(m, group, "rows")

\* A line about an age prints the age it was offered for, reported by the
\* backend, never that of another line, and none where it cannot be told.
AgesAreReported(m) ==
    LET Honest(age) == IF age > 0 THEN {age} ELSE {Unknown, Dash}
        Agree(offered, printed) ==
            \A line \in DOMAIN offered \cap DOMAIN printed :
               Available(m, offered[line]) =>
                  /\ Figure(m, offered[line][1], offered[line][3]) # Missing
                  /\ printed[line] \in Honest(Figure(m, offered[line][1], offered[line][3]))
    IN  \A offered \in {OverdueTaskAges, FailedTaskAges, RunAges, StartAges} :
           Agree(offered, GridAges(m)) /\ Agree(offered, SectionAges(m))

\* The screen does not contradict itself: a figure on display twice, in a tile,
\* a table or the grid, is the same figure.
DashboardAgrees(m) ==
    LET places == {SummaryTiles(m), OverviewTiles(m), FleetTables(m), OperatorGrid(m)}
    IN  \A shown, again \in places :
           \A name \in DOMAIN shown \cap DOMAIN again : shown[name] = again[name]
=============================================================================
