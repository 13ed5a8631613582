---------------------------- MODULE WorkerFigures ---------------------------
(***************************************************************************)
(* What the health endpoint makes of registrations and checks              *)
(* (WorkerRegistrationRoster.php, V2HealthController.php), and what the    *)
(* workers screen makes of its answer (WorkerHealth.vue).  Words that are  *)
(* shown are written with hyphens for blanks.                              *)
(***************************************************************************)
EXTENDS Fields, FiniteSetsExt

(***************************************************************************)
(* Registrations.  A registration is [id, status]; the identity of a       *)
(* worker is its id and namespace.                                         *)
(***************************************************************************)
\* indexByIdentity: of several observations of a worker the last one stays.
IndexByIdentity(registrations) ==
    [id \in {registrations[i].id : i \in DOMAIN registrations} |->
        LET last == Max({i \in DOMAIN registrations : registrations[i].id = id})
        IN  registrations[last].status]

BugStaleAlsoActive(registrations, stale) ==
    LET general == IndexByIdentity(registrations)
    IN  [active |-> {id \in DOMAIN general : general[id] # "stale"},
         stale  |-> DOMAIN IndexByIdentity(stale)
                       \cup {id \in DOMAIN general : general[id] = "stale"}]

\* WorkerRegistrationRoster::from.
Roster(registrations, stale) ==
    LET general == IndexByIdentity(registrations)
        gone == DOMAIN IndexByIdentity(stale)
                    \cup {id \in DOMAIN general : general[id] = "stale"}
    IN  [active |-> DOMAIN general \ gone, stale |-> gone]

\* The snapshot of a backend that counts, and of one that only lists the
\* heartbeats of its fleet: [id, fresh, supports] each.
Counted(roster) ==
    [registration_count        |-> Cardinality(roster.active) + Cardinality(roster.stale),
     active_registration_count |-> Cardinality(roster.active),
     stale_registration_count  |-> Cardinality(roster.stale),
     workers |-> {[id |-> id, status |-> "active", fresh |-> TRUE] : id \in roster.active}]

\* workersFromSnapshot and fleetEntryToWorker.
Listed(fleet) ==
    [workers |-> {[id |-> w.id, fresh |-> w.fresh,
                   status |-> IF w.supports THEN "active" ELSE "incompatible"] : w \in fleet}]

Counts(snapshot) == "registration_count" \in DOMAIN snapshot

StaleRegistrationCount(snapshot) ==
    IF Counts(snapshot) THEN snapshot.stale_registration_count
    ELSE Cardinality({w \in snapshot.workers : ~w.fresh})

\* Without counts, workers that are stale and on the list are taken for
\* workers missing from it, unless their status says stale.
RegistrationCount(snapshot) ==
    IF Counts(snapshot) THEN snapshot.registration_count
    ELSE LET returned == Cardinality({w \in snapshot.workers : w.status = "stale"})
             missing == StaleRegistrationCount(snapshot) - returned
         IN  Cardinality(snapshot.workers) + (IF missing > 0 THEN missing ELSE 0)

ActiveRegistrationCount(snapshot) ==
    IF Counts(snapshot) THEN snapshot.active_registration_count
    ELSE LET rest == RegistrationCount(snapshot) - StaleRegistrationCount(snapshot)
         IN  IF rest > 0 THEN rest ELSE 0

\* The heading where the list has no row.
EmptyState(snapshot) ==
    IF snapshot.workers # {} THEN "list"
    ELSE IF StaleRegistrationCount(snapshot) > 0 THEN "No-active-workers"
    ELSE "No-workers-registered"
-----------------------------------------------------------------------------
(***************************************************************************)
(* Checks.  A check is [name, category, status]; "" is no category.        *)
(***************************************************************************)
NoCategory == ""
Severity == [ok |-> 0, warning |-> 1, error |-> 2]
Categories == {"correctness", "acceleration"}

\* healthStatus, and the rollups of the screen, which are computed alike.
HealthStatus(checks) ==
    IF \E c \in checks : c.status = "error" THEN "error"
    ELSE IF \E c \in checks : c.status = "warning" THEN "warning" ELSE "ok"

\* withFinalHealthSummary.
HealthSummary(checks) ==
    [status     |-> HealthStatus(checks),
     categories |-> [category \in Categories |->
                        HealthStatus({c \in checks : c.category = category})]]

\* healthCheckAlerts; queues adds the alerts of queue visibility.
CoordinationAlerts(checks, queues) ==
    {[key |-> c.name, status |-> c.status] : c \in {d \in checks : d.status # "ok"}}
        \cup queues

CategoryForCheck(check) ==
    IF check.category # NoCategory THEN check.category
    ELSE IF check.name = "long_poll_wake_acceleration" THEN "acceleration" ELSE "correctness"

\* categorizedChecks: the rows under a category.
CategorizedChecks(checks, category) ==
    {c \in checks : c.name # "engine_source" /\ CategoryForCheck(c) = category}

\* rollupForCategory: this backend always declares a status.
RollupForCategory(summary, category) == summary.categories[category]

CoordinationAlertRollup(alerts) == HealthStatus(alerts)
-----------------------------------------------------------------------------
(***************************************************************************)
(* Queues and builds.                                                      *)
(***************************************************************************)
\* A figure that the answer leaves out is read as zero.
IntegerLabel(of, figure) == IF Has(of, figure) THEN of[figure] ELSE 0

Unpolled(q) == IntegerLabel(q, "backlog") > 0 /\ IntegerLabel(q, "active") = 0

QueueStatusLabel(q) ==
    IF IntegerLabel(q, "candidates") > 0 THEN "needs-attention"
    ELSE IF Unpolled(q) THEN "no-active-pollers"
    ELSE IF IntegerLabel(q, "stale") > 0 THEN "stale-pollers" ELSE "healthy"

QueueToneClass(q) ==
    IF IntegerLabel(q, "candidates") > 0 \/ Unpolled(q) THEN "is-warning"
    ELSE IF IntegerLabel(q, "stale") > 0 THEN "is-info" ELSE "is-ok"

BuildIdStatusLabel(b) ==
    IF b.pending = "no_compatible_worker" THEN "no-compatible-worker"
    ELSE IF b.new_start_selected THEN "selected"
    ELSE IF b.rollout # "" THEN b.rollout ELSE "observed"

BuildIdToneClass(b) ==
    IF b.pending = "no_compatible_worker" THEN "is-error"
    ELSE IF b.rollout \in {"active", "active_with_draining"} THEN "is-ok"
    ELSE IF b.rollout \in {"draining", "stale_only"} THEN "is-warning" ELSE "is-muted"
-----------------------------------------------------------------------------
\* However often a worker was observed, and in whichever list, it is counted
\* once and shown once, stale if any status-specific observation says so; and
\* "No workers registered" is said only of a fleet that has none.
RosterCountsWorkersOnce(registrations, stale) ==
    LET roster == Roster(registrations, stale)
        snapshot == Counted(roster)
        observed == {registrations[i].id : i \in DOMAIN registrations}
                        \cup {stale[i].id : i \in DOMAIN stale}
    IN  /\ RegistrationCount(snapshot) = Cardinality(observed)
        /\ RegistrationCount(snapshot) =
              ActiveRegistrationCount(snapshot) + StaleRegistrationCount(snapshot)
        /\ Cardinality(snapshot.workers) = ActiveRegistrationCount(snapshot)
        /\ \A w \in snapshot.workers : \A i \in DOMAIN stale : stale[i].id # w.id
        /\ EmptyState(snapshot) = "No-workers-registered" <=> observed = {}

\* A backend that only lists heartbeats: the three counts add up, and while
\* every heartbeat is fresh each worker is counted once.
FleetCountsAddUp(fleet) ==
    LET snapshot == Listed(fleet)
    IN  /\ RegistrationCount(snapshot) =
              ActiveRegistrationCount(snapshot) + StaleRegistrationCount(snapshot)
        /\ (\A w \in fleet : w.fresh) => RegistrationCount(snapshot) = Cardinality(fleet)

\* What is said of the fleet as a whole is the worst of what is listed below
\* it: the rollup of a category of the checks under it, the status of all
\* checks, and no warning is without an alert.  Every check but engine_source
\* has a category here; without one it is listed, but not in the rollup.
HealthAgrees(checks, queues) ==
    LET summary == HealthSummary(checks)
        alerts == CoordinationAlerts(checks, queues)
        Worst(listed) == Max({Severity[c.status] : c \in listed} \cup {0})
    IN  /\ \A category \in Categories :
              Severity[RollupForCategory(summary, category)] =
                 Worst(CategorizedChecks(checks, category))
        /\ Severity[summary.status] = Worst(checks)
        /\ Severity[CoordinationAlertRollup(alerts)] = Worst(alerts)
        /\ Severity[CoordinationAlertRollup(alerts)] >= Severity[summary.status]

\* A badge has the colour of what it says: work nobody polls for, or that no
\* worker can take, is never shown as healthy.
TonesFollowLabels(q, b) ==
    /\ QueueToneClass(q) = "is-ok" <=> QueueStatusLabel(q) = "healthy"
    /\ QueueToneClass(q) = "is-info" <=> QueueStatusLabel(q) = "stale-pollers"
    /\ Unpolled(q) => QueueToneClass(q) = "is-warning"
    /\ BuildIdToneClass(b) = "is-error" <=> BuildIdStatusLabel(b) = "no-compatible-worker"
=============================================================================
