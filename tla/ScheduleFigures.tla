--------------------------- MODULE ScheduleFigures ---------------------------
(***************************************************************************)
(* What the schedules view tells of the schedules it shows: the rows, the  *)
(* cards above them, the detail dialog, the outcome of a backfill, and     *)
(* where the keyboard goes in a dialog (ScheduleView.vue and               *)
(* schedule-presenter.mjs).                                                *)
(***************************************************************************)
EXTENDS Fields, FiniteSets, SequencesExt

\* Identity is used as stored, and is unique within a namespace only.
ScheduleId(schedule) == FirstOf(schedule, <<"schedule_id", "id">>)

ScheduleRowKey(schedule) == <<FirstOf(schedule, <<"namespace">>), ScheduleId(schedule)>>

ScheduleRequest(schedule) ==
    [id |-> ScheduleId(schedule),
     params |-> IF Has(schedule, "namespace") THEN <<schedule.namespace>> ELSE <<>>]
-----------------------------------------------------------------------------
(***************************************************************************)
(* ISO 8601 durations.  A text is its prefix and its sections, split at T; *)
(* a section is a sequence of amounts with their designators.              *)
(***************************************************************************)
DateUnits == <<"Y", "M", "W", "D">>
TimeUnits == <<"H", "M", "S">>
UnitNames ==
    [Y |-> "year", W |-> "week", D |-> "day", H |-> "hour", S |-> "second"]

BugOneMinuteUnit(letter, units) == IF letter = "M" THEN "minute" ELSE UnitNames[letter]

UnitName(letter, units) ==
    IF letter = "M" THEN IF units = DateUnits THEN "month" ELSE "minute" ELSE UnitNames[letter]

\* Every designator is known and they come in order, each at most once.
InOrder(section, units) ==
    LET Position(i) == CHOOSE p \in DOMAIN units : units[p] = section[i].letter
    IN  /\ \A i \in DOMAIN section : section[i].letter \in ToSet(units)
        /\ \A i, j \in DOMAIN section : i < j => Position(i) < Position(j)

DurationParts(section, units) ==
    [i \in DOMAIN section |-> <<section[i].amount, UnitName(section[i].letter, units)>>]

\* The amounts that are not zero with the names of their units; what is no
\* duration, or has no such amount, is left as it is.
FormatIsoDuration(text) ==
    LET sections == text.sections
        time == IF Len(sections) = 2 THEN sections[2] ELSE <<>>
        isDuration == /\ text.prefix /\ Len(sections) \in {1, 2}
                      /\ Len(sections) = 2 => sections[2] # <<>>
                      /\ InOrder(sections[1], DateUnits)
                      /\ InOrder(time, TimeUnits)
        parts == IF ~ isDuration THEN <<>>
                 ELSE Where(DurationParts(sections[1], DateUnits) \o DurationParts(time, TimeUnits),
                                LAMBDA part : part[1] # 0)
    IN  IF parts = <<>> THEN [text |-> text] ELSE [parts |-> parts]

\* When a schedule fires: cron expressions and intervals, else "Custom".
ScheduleCadence(spec) ==
    LET cron == Rows(spec, "cron_expressions")
        intervals == Where(Rows(spec, "intervals"), LAMBDA interval : Has(interval, "every"))
    IN  [cron |-> cron, intervals |-> intervals, empty |-> cron = <<>> /\ intervals = <<>>]

CadenceLines(spec) ==
    LET cadence == ScheduleCadence(spec)
    IN  {<<"Cron", cadence.cron[i]>> : i \in DOMAIN cadence.cron}
        \cup {<<"Every", cadence.intervals[i].every>> : i \in DOMAIN cadence.intervals}
        \cup When(cadence.empty, {<<"Custom", Absent>>})
-----------------------------------------------------------------------------
(***************************************************************************)
(* Outcomes of fires.                                                      *)
(***************************************************************************)
Outcomes ==
    [scheduled |-> "success", triggered |-> "success", started |-> "success",
     drained |-> "success", backfilled |-> "success", buffered |-> "warning",
     skipped |-> "warning", buffer_full |-> "warning", failed |-> "danger"]

OutcomeTone(outcome) == IF outcome \in DOMAIN Outcomes THEN Outcomes[outcome] ELSE "muted"

\* The last fire and its outcome: recorded, or not reported by the engine, or
\* there was none.
ScheduleLastResult(schedule) ==
    LET last == IF Has(schedule, "last_outcome") THEN schedule.last_outcome ELSE <<>>
        skipped == \/ Has(schedule, "last_skipped_at") \/ Has(schedule, "last_skip_reason")
                   \/ Has(schedule, "skipped_trigger_count") /\ schedule.skipped_trigger_count > 0
        fired == Has(schedule, "last_fired_at")
        at == FirstOf(schedule, <<"last_fired_at">>)
    IN  IF Has(last, "outcome")
        THEN [state |-> "recorded", outcome |-> last.outcome, tone |-> OutcomeTone(last.outcome),
              at |-> IF Has(last, "at") THEN last.at ELSE at,
              reason |-> FirstOf(last, <<"reason">>)]
        ELSE [state |-> IF fired \/ skipped THEN "unreported" ELSE "never",
              outcome |-> Absent, tone |-> "muted", at |-> at, reason |-> Absent]

\* The cell "Last Result" of a row, and the lines of it in the details.
LastResultCell(schedule) ==
    LET result == ScheduleLastResult(schedule)
    IN  {<<"at", IF result.at = Absent /\ result.state = "never" THEN "Never" ELSE result.at>>}
        \cup When(result.state = "recorded",
                  {<<result.tone, result.outcome>>}
                  \cup When(result.reason # Absent, {<<"reason", result.reason>>}))
        \cup When(result.state = "unreported", {<<"muted", "Outcome-not-reported">>})

DetailLastResult(detail) ==
    LET result == ScheduleLastResult(detail)
    IN  When(result.state = "recorded",
             {<<result.tone, result.outcome>>}
             \cup When(result.at # Absent, {<<"at", result.at>>})
             \cup When(result.reason # Absent, {<<"reason", result.reason>>}))
        \cup When(result.state = "unreported",
                  {<<"muted", "Outcome-not-reported">>}
                  \cup When(result.at # Absent, {<<"at", result.at>>}))
        \cup When(result.state = "never", {<<"at", "Never">>})

\* The recorded fires, the last one first.
DetailRecentActions(detail) ==
    LET actions == Reverse(Rows(detail, "recent_actions"))
    IN  [i \in DOMAIN actions |->
            [tone |-> OutcomeTone(FirstOf(actions[i], <<"outcome">>)),
             lines |-> Shown(actions[i], {"fired_at", "outcome", "reason", "workflow_id"})]]

\* What a backfill did: the figures of the answer, or what its results say.
BackfillCounts(response) ==
    LET results == Rows(response, "results")
        CountOf(outcome) == Len(Where(results, LAMBDA result : result = outcome))
        Figure(field, n) == IF Has(response, field) THEN response[field] ELSE n
    IN  [attempted |-> Figure("fires_attempted", Len(results)),
         started |-> Figure("started_count", CountOf("started")),
         skipped |-> Figure("skipped_count", CountOf("skipped")),
         failed |-> Figure("failed_count", CountOf("failed"))]

BackfillIcon(counts) ==
    IF counts.failed > 0 THEN "warning" ELSE IF counts.started > 0 THEN "success" ELSE "info"

BackfillText(counts) ==
    IF counts.attempted = 0 THEN "No-schedule-times" ELSE "counts"
-----------------------------------------------------------------------------
(***************************************************************************)
(* Next fires, in minutes.                                                 *)
(***************************************************************************)
IsOverdue(schedule, now) ==
    Has(schedule, "next_fire_at") /\ Is(schedule, "status", "active") /\ schedule.next_fire_at < now

NextFireClass(schedule, now) ==
    IF ~ Has(schedule, "next_fire_at") \/ ~ Is(schedule, "status", "active") THEN Absent
    ELSE IF schedule.next_fire_at < now THEN "danger"
    ELSE IF schedule.next_fire_at < now + 60 THEN "warning" ELSE "success"

SummaryCards(schedules, now) ==
    LET Counted(holds(_)) == Len(Where(schedules, holds))
    IN  [active |-> Counted(LAMBDA schedule : Is(schedule, "status", "active")),
         paused |-> Counted(LAMBDA schedule : Is(schedule, "status", "paused")),
         overdue |-> Counted(LAMBDA schedule : IsOverdue(schedule, now))]
-----------------------------------------------------------------------------
(***************************************************************************)
(* Columns of the table.                                                   *)
(***************************************************************************)
ColumnOptions ==
    <<"schedule_id", "workflow_type", "spec", "status", "next_fire", "last_result", "actions">>

Columns(preferences) ==
    IF ~ Has(preferences, "columns") THEN ColumnOptions
    ELSE LET known == Where(preferences.columns, LAMBDA column : column \in ToSet(ColumnOptions))
         IN  IF "schedule_id" \in ToSet(known) THEN known ELSE <<"schedule_id">> \o known

\* The columns on display, in the order of the table.
ColumnsShown(preferences) ==
    Where(ColumnOptions, LAMBDA column : column \in ToSet(Columns(preferences)))

\* The columns that are saved for the ticked boxes of View Options, of which
\* that of the id cannot be cleared.
ColumnsOfOptions(ticked) ==
    [columns |-> Where(ColumnOptions, LAMBDA column : column \in ticked \cup {"schedule_id"})]
-----------------------------------------------------------------------------
(***************************************************************************)
(* Tab and Shift+Tab in a dialog with places 1 to n for the focus.         *)
(***************************************************************************)
TheDialog == 0
Outside == -1

\* Where the browser moves the focus.
BrowserMoves(n, active, shift) ==
    LET next == IF shift THEN active - 1 ELSE active + 1
    IN  IF active = Outside \/ next \notin 1..n THEN Outside ELSE next

TrapDialogFocus(n, active, shift) ==
    IF n = 0 THEN TheDialog
    ELSE IF shift /\ active \in {1, TheDialog, Outside} THEN n
    ELSE IF ~ shift /\ active \in {n, Outside} THEN 1
    ELSE BrowserMoves(n, active, shift)
-----------------------------------------------------------------------------
(***************************************************************************)
(* Properties.                                                             *)
(***************************************************************************)
\* Rows that share a key are the same schedule to the engine, and no others:
\* the row that waits for an action is the one the action is asked of.
RequestNamesTheRow(one, other) ==
    ScheduleRowKey(one) = ScheduleRowKey(other) <=> ScheduleRequest(one) = ScheduleRequest(other)

\* Durations that look alike are the same: they have the same amounts in the
\* same sections.
DurationsDiffer(one, other) ==
    LET Amounts(text) ==
            {<<i, part>> : i \in DOMAIN text.sections,
                part \in UNION {ToSet(text.sections[j]) : j \in DOMAIN text.sections}}
        Of(text) == {x \in Amounts(text) : x[2] \in ToSet(text.sections[x[1]]) /\ x[2].amount # 0}
    IN  /\ "parts" \in DOMAIN FormatIsoDuration(one)
        /\ FormatIsoDuration(one) = FormatIsoDuration(other)
        => Of(one) = Of(other)

\* "Never" is said of a schedule nothing is recorded of; a failure is told as
\* one, with its reason, in the row and in the details alike.
LastResultIsTold(schedule) ==
    LET cell == LastResultCell(schedule)
        detail == DetailLastResult(schedule)
        failed == Has(schedule, "last_outcome") /\ Is(schedule.last_outcome, "outcome", "failed")
    IN  /\ <<"at", "Never">> \in cell \cup detail =>
              DOMAIN schedule \cap {"last_fired_at", "last_skipped_at", "last_skip_reason"} = {}
              /\ ~ (Has(schedule, "skipped_trigger_count") /\ schedule.skipped_trigger_count > 0)
        /\ <<"danger", "failed">> \in cell <=> failed
        /\ failed /\ Has(schedule.last_outcome, "reason") =>
              <<"reason", schedule.last_outcome.reason>> \in cell
        /\ cell \ detail \subseteq {<<"at", Absent>>} /\ detail \subseteq cell

\* "Custom" is said of a schedule without an expression or an interval, and
\* every one it has is told.
CadenceIsTold(spec) ==
    LET lines == CadenceLines(spec)
        Told(label, field) == \E line \in lines : line = <<label, field>>
    IN  /\ \A expression \in ToSet(Rows(spec, "cron_expressions")) : Told("Cron", expression)
        /\ \A interval \in ToSet(Rows(spec, "intervals")) :
              Has(interval, "every") => Told("Every", interval.every)
        /\ <<"Custom", Absent>> \in lines <=>
              /\ Rows(spec, "cron_expressions") = <<>>
              /\ \A interval \in ToSet(Rows(spec, "intervals")) : ~ Has(interval, "every")

\* The recent fires begin with the one recorded last; a failed one is told as
\* a failure, and no other.
FiresAreTold(detail) ==
    LET told == DetailRecentActions(detail)
        recorded == Rows(detail, "recent_actions")
    IN  /\ Len(told) = Len(recorded)
        /\ \A i \in DOMAIN recorded :
              LET place == Len(recorded) + 1 - i
              IN  /\ told[place].tone = "danger" <=> Is(recorded[i], "outcome", "failed")
                  /\ Has(recorded[i], "reason") => "reason" \in told[place].lines

\* A backfill in which a fire failed is not told as a success, one in which
\* nothing started neither, and "no schedule times" means that there were none.
BackfillIsTold(response) ==
    LET counts == BackfillCounts(response)
        results == ToSet(Rows(response, "results"))
    IN  /\ BackfillIcon(counts) = "success" => "started" \in results /\ "failed" \notin results
        /\ "failed" \in results => BackfillIcon(counts) = "warning"
        /\ BackfillText(counts) = "No-schedule-times" => results = {}

\* What the cards count, the rows show: every overdue schedule is highlighted
\* and its next fire is red.
CardsCountRows(schedules, now) ==
    LET RowsThat(holds(_)) == Cardinality({i \in DOMAIN schedules : holds(schedules[i])})
        cards == SummaryCards(schedules, now)
    IN  /\ cards.overdue = RowsThat(LAMBDA schedule : NextFireClass(schedule, now) = "danger")
        /\ cards.overdue <= cards.active
        /\ cards.active + cards.paused <= Len(schedules)

\* View Options confirmed as they come up change nothing, and the schedule's
\* id is always on display.
OptionsKeepColumns(preferences) ==
    LET saved == ColumnsOfOptions(ToSet(Columns(preferences)))
    IN  /\ ColumnsShown(saved) = ColumnsShown(preferences)
        /\ "schedule_id" \in ToSet(ColumnsShown(preferences))

\* The focus stays in the dialog, reaches every place of it, and Shift+Tab
\* takes back what Tab did.
FocusStaysInDialog(n) ==
    /\ \A active \in Outside..n, shift \in BOOLEAN : TrapDialogFocus(n, active, shift) \in TheDialog..n
    /\ {TrapDialogFocus(n, active, FALSE) : active \in 1..n} = 1..n
    /\ \A active \in 1..n : TrapDialogFocus(n, TrapDialogFocus(n, active, FALSE), TRUE) = active
=============================================================================
