---------------------------- MODULE WorkersView ----------------------------
(***************************************************************************)
(* The workers screen, resources/js/components/WorkerHealth.vue (mounted   *)
(* by screens/workers.vue): reading the health of the fleet.  The screen   *)
(* never asks for the component's own timer, so health is read on arrival, *)
(* once the preferences have settled, and when the operator asks.          *)
(*                                                                         *)
(* The health endpoint answers 200 with the snapshot while its status is   *)
(* ok or warning; it sends the same snapshot with 503 when it is error,    *)
(* which the HTTP client treats as a failure.                              *)
(***************************************************************************)
EXTENDS AppShell

VARIABLES
    health,         \* the component: what it displays and what it waits for
    fleet           \* history: the snapshot the newest read was answered with

workersVars == <<health, fleet>>
workersScreen == <<address, autoLoadsNewEntries, workersVars>>

HealthStatuses == {"ok", "warning", "error"}

\* At most one superseded read is in flight (a bound).
NoHealth ==
    [preferencesAwaited |-> FALSE, awaited |-> FALSE, superseded |-> FALSE,
     loading |-> TRUE, error |-> FALSE, healthData |-> "none"]

HealthInit ==
    /\ health = NoHealth
    /\ fleet = "unread"

HealthVisible == ~health.loading /\ ~health.error

\* loadData: nothing is compared with what was asked since.
LoadHealth(h) ==
    [h EXCEPT !.awaited = TRUE, !.superseded = @ \/ h.awaited,
              !.loading = TRUE, !.error = FALSE]

WorkersFollow(a) ==
    \/ /\ Arrives("workers", a)
       /\ health' = [NoHealth EXCEPT !.preferencesAwaited = TRUE]
       /\ fleet' = "unread"
    \/ /\ Leaves("workers", a)
       /\ health' = NoHealth
       /\ fleet' = "unread"
    \/ /\ On("workers") = (a.screen = "workers")
       /\ UNCHANGED workersVars

BugOnlyWithPreferences(answered) ==
    /\ On("workers")
    /\ health.preferencesAwaited
    /\ health' = IF answered THEN LoadHealth([health EXCEPT !.preferencesAwaited = FALSE])
                 ELSE [health EXCEPT !.preferencesAwaited = FALSE]
    /\ fleet' = "unread"
    /\ UNCHANGED <<address, autoLoadsNewEntries>>

\* loadOperatorPreferences().finally(loadData): answered or not.
PreferencesSettled(answered) ==
    /\ On("workers")
    /\ health.preferencesAwaited
    /\ health' = LoadHealth([health EXCEPT !.preferencesAwaited = FALSE])
    /\ fleet' = "unread"
    /\ UNCHANGED <<address, autoLoadsNewEntries>>

\* Refresh is always at hand, also while the preferences are awaited.
RefreshHealth ==
    /\ On("workers")
    /\ ~(health.awaited /\ health.superseded)
    /\ health' = LoadHealth(health)
    /\ fleet' = "unread"
    /\ UNCHANGED <<address, autoLoadsNewEntries>>

Settled(newest, h) ==
    [h EXCEPT !.loading = FALSE, !.awaited = @ /\ ~newest, !.superseded = @ /\ newest]

InFlight(newest) == IF newest THEN health.awaited ELSE health.superseded

\* The catch of loadData keeps the snapshot of an earlier read, unseen.
HealthAnswered(newest, status) ==
    /\ On("workers") /\ InFlight(newest)
    /\ health' = IF status = "error"
                 THEN [Settled(newest, health) EXCEPT !.error = TRUE]
                 ELSE [Settled(newest, health) EXCEPT !.healthData = status]
    /\ fleet' = IF newest THEN status ELSE fleet
    /\ UNCHANGED <<address, autoLoadsNewEntries>>

HealthGivenUp(newest) ==
    /\ On("workers") /\ InFlight(newest)
    /\ health' = [Settled(newest, health) EXCEPT !.error = TRUE]
    /\ fleet' = IF newest THEN "unknown" ELSE fleet
    /\ UNCHANGED <<address, autoLoadsNewEntries>>

WorkersStep ==
    \/ \E answered \in BOOLEAN : PreferencesSettled(answered)
    \/ RefreshHealth
    \/ \E newest \in BOOLEAN, status \in HealthStatuses : HealthAnswered(newest, status)
    \/ \E newest \in BOOLEAN : HealthGivenUp(newest)

\* Every request is answered, or given up when the browser's budget is spent.
WorkersFairness ==
    /\ WF_workersScreen(\E answered \in BOOLEAN : PreferencesSettled(answered))
    /\ \A newest \in BOOLEAN :
          WF_workersScreen(HealthGivenUp(newest)
                             \/ \E status \in HealthStatuses : HealthAnswered(newest, status))
-----------------------------------------------------------------------------
\* Loading ends, whatever became of the preferences and of the reads.
HealthSettles == On("workers") /\ health.loading ~> ~health.loading \/ ~On("workers")

\* "Surface fleet compatibility coverage so a 'compatibility block' alert
\* distinguishes no live worker advertises the required marker ... from a
\* transient race": once the newest read was answered with a snapshot of
\* status error and nothing is awaited, the snapshot is on the screen.
ErrorAlertsDisplayed ==
    On("workers") /\ fleet = "error" /\ ~health.awaited /\ ~health.superseded =>
        HealthVisible
=============================================================================
