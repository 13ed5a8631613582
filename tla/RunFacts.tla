------------------------------ MODULE RunFacts -------------------------------
(***************************************************************************)
(* What the run detail screen tells of the run it shows, above and between *)
(* the tables of RunRows: the summary card, the issues, the history card,  *)
(* what is pinned to it, streams, lineage and actions (flow.vue and        *)
(* workflow-streams.mjs).                                                  *)
(***************************************************************************)
EXTENDS RunRows, FiniteSetsExt

\* A run that is closed has a closing time, a duration and an output.
IsClosed(flow) ==
    IsIn(flow, "status", {"completed", "continued", "failed", "cancelled", "terminated"})

DetailStatusClass(status) ==
    CASE status \in {"completed", "continued"} -> "success"
      [] status \in {"failed", "terminated"} -> "danger"
      [] status = "cancelled" -> "muted"
      [] status \in {"pending", "waiting"} -> "warning"
      [] OTHER -> "active"

HeadlineLines(flow) ==
    {"class", "status"}
    \cup Shown(flow, {"status_bucket", "engine_source", "instance_id", "run_id", "namespace"})

\* The cards of a run that was read in full.
DataCards(flow) ==
    When(~ Bounded(flow),
         {"Arguments", "Cancellation-cascade"} \cup When(IsClosed(flow), {"Output"}))

\* Seconds as hours and minutes, minutes and seconds, or seconds.
FormatTimeoutDuration(seconds) ==
    IF seconds >= 3600
    THEN [h |-> seconds \div 3600, m |-> (seconds % 3600) \div 60, s |-> 0]
    ELSE IF seconds >= 60
    THEN [h |-> 0, m |-> seconds \div 60, s |-> seconds % 60]
    ELSE [h |-> 0, m |-> 0, s |-> seconds]

\* Bytes, or tenths of a KiB or MiB, rounded half up.
FormatBytes(bytes) ==
    LET Tenths(unit) == (bytes * 10 + unit \div 2) \div unit
    IN  IF bytes < 1024 THEN <<"B", bytes>>
        ELSE IF bytes < 1024 * 1024 THEN <<"KiB", Tenths(1024)>>
        ELSE <<"MiB", Tenths(1024 * 1024)>>
-----------------------------------------------------------------------------
(***************************************************************************)
(* The summary card.                                                       *)
(***************************************************************************)
IdentityLines(flow) ==
    {"id", "status"}
    \cup Shown(flow, {"engine_source", "instance_id", "run_id", "status_bucket", "namespace",
                      "workflow_classification", "task_problem_badge", "read_only_reason",
                      "archived_at", "details_pruned_at"})
    \cup When(Has(flow, "engine_source"), Shown(flow, {"engine_version", "execution_engine"}))
    \cup When(Bounded(flow), {"Inspect-full-details"})
    \cup When(IsIn(flow, "current_waits_state", {"unavailable", "partial"}), {"current_waits_state"})
    \cup When(Is(flow, "workflow_classification", "coordinator") /\ Is(flow, "status", "completed"),
              {"Related-executions-have-their-own-outcomes"})
    \cup When(Has(flow, "application_context"), {"application_context"})

ExecutionLines(flow) ==
    {"created_at", "Closed-At", "Duration"}
    \cup Shown(flow, {"connection", "queue", "business_key", "visibility_labels", "memo",
                      "search_attributes", "execution_timeout_seconds", "run_timeout_seconds"})
    \cup When(Has(flow, "execution_timeout_seconds"), Shown(flow, {"execution_deadline_at"}))
    \cup When(Has(flow, "run_timeout_seconds"), Shown(flow, {"run_deadline_at"}))

\* Of the entry method only one further line is said, and of the contract's
\* source at most one remark.
ContractLines(flow) ==
    LET compatibility == Is(flow, "declared_entry_mode", "compatibility")
        missing == Has(flow, "declared_contract_backfill_needed")
    IN  Shown(flow, {"declared_signals", "declared_queries", "declared_updates",
                     "declared_contract_source", "declared_entry_method"})
        \cup When(Has(flow, "declared_entry_method"),
                  When(compatibility, {"review-required"})
                  \cup (IF Has(flow, "declared_entry_declaring_class")
                        THEN {"declared_entry_declaring_class"}
                        ELSE When(compatibility, {"older-entry-contract-metadata"})))
        \cup When(Has(flow, "declared_contract_source"),
                  FirstThat(<<
                     <<missing /\ Has(flow, "declared_contract_backfill_available"),
                       {"still-needs-normalization"}>>,
                     <<missing /\ Is(flow, "engine_source", "service"), {"declarations-are-missing"}>>,
                     <<missing, {"definition-can-no-longer-be-resolved"}>>,
                     <<Is(flow, "declared_contract_source", "live_definition"),
                       {"fell-back-to-the-current-definition"}>>,
                     <<TRUE, {}>> >>))

\* A worker of the fleet that says which markers it supports.
CompatibilityFleetLabel(snapshot) ==
    {"supported"}
    \cup Shown(snapshot, {"worker_id", "namespace", "host", "process_id", "connection", "queue",
                          "expires_at"})
    \cup When(Has(snapshot, "supports_required"), {"matches-selected-marker"})
    \cup When(Is(snapshot, "source", "cache"), {"legacy-cache-heartbeat"})

DefinitionLines(flow) ==
    Shown(flow, {"workflow_definition_fingerprint", "workflow_definition_current_fingerprint",
                 "workflow_definition_matches_current", "workflow_determinism_status"})
    \cup When(Has(flow, "workflow_determinism_status"),
              Shown(flow, {"workflow_determinism_source", "workflow_determinism_findings"}))
    \cup When(Is(flow, "workflow_determinism_status", "warning")
              /\ Is(flow, "workflow_determinism_source", "definition_drift"),
              {"findings-are-suppressed"})
    \cup CompatibilityLines(flow)
    \cup Shown(flow, {"compatibility_namespace"})
    \cup UNION {CompatibilityFleetLabel(Rows(flow, "compatibility_fleet")[i]) :
                   i \in DOMAIN Rows(flow, "compatibility_fleet")}

RunLinks(flow) ==
    When(~ Has(flow, "is_current_run"), Shown(flow, {"current_run_id"}))
    \cup Shown(flow, {"current_run_source"})
    \cup When(Len(Rows(flow, "run_navigation")) > 1,
              {flow.run_navigation[i].run_id : i \in DOMAIN Rows(flow, "run_navigation")})

WaitSummaryLines(flow) ==
    Shown(flow, {"wait_reason", "open_wait_id", "next_task_id", "history_event_count",
                 "history_size_bytes"})
    \cup When(Has(flow, "wait_reason"), Shown(flow, {"wait_kind"}))
    \cup When(Has(flow, "open_wait_count") /\ OpenWaitCount(flow) > 1, {"open_wait_count"})
    \cup When(Has(flow, "resume_source_kind") \/ Has(flow, "resume_source_id"), {"Resume-Source"})
    \cup When(~ Bounded(flow), Shown(flow, {"liveness_reason"}))
    \cup When(Has(flow, "history_event_count") \/ Has(flow, "history_size_bytes"),
              Shown(flow, {"history_event_threshold", "history_size_bytes_threshold",
                           "continue_as_new_recommended"}))
    \cup When({"retained_history_event_count", "retained_exception_count"} \subseteq DOMAIN flow,
              {"Retained-Details"})
-----------------------------------------------------------------------------
(***************************************************************************)
(* Lineage: the runs this one came from and led to.                        *)
(***************************************************************************)
LineageLabel(link, direction) ==
    CASE Is(link, "link_type", "continue_as_new") ->
            IF direction = "parent" THEN "Continued-from" ELSE "Continued-as"
      [] Is(link, "link_type", "redrive") ->
            IF direction = "parent" THEN "Redriven-from" ELSE "Redriven-as"
      [] OTHER -> IF direction = "parent" THEN "Parent" ELSE "Child"

\* One entry: the label, what is printed as its id, and the two ids its link
\* opens.  run and instance are the fields that may hold them, in order.
LineageEntry(link, direction, run, instance) ==
    LET Id(name) == FirstOf(link, IF name = "run_id" THEN run ELSE instance)
        ids == [name \in {n \in {"instance_id", "run_id"} : Id(n) # Absent} |-> Id(name)]
        same == Renamed(link, [status |-> "status", run_number |-> "run_number",
                               child_call_id |-> "child_call_id",
                               diagnostic_only |-> "diagnostic_only"])
    IN  Over([label      |-> LineageLabel(link, direction),
              display_id |-> FirstOf(link, run \o instance \o <<"child_call_id", "id">>)],
             Over(ids, same))

LineageEntries(flow) ==
    LET Entries(table, direction, run, instance) ==
            [i \in DOMAIN Rows(flow, table) |->
                LineageEntry(Rows(flow, table)[i], direction, run, instance)]
    IN  IF Bounded(flow)
        THEN Entries("related_parents", "parent", <<"run_id">>, <<"instance_id">>)
             \o Entries("related_children", "child", <<"run_id">>, <<"instance_id">>)
        ELSE Entries("parents", "parent", <<"workflow_run_id", "parent_workflow_run_id">>,
                     <<"workflow_instance_id", "parent_workflow_id">>)
             \o Entries("continuedWorkflows", "child", <<"workflow_run_id", "child_workflow_run_id">>,
                        <<"workflow_instance_id", "child_workflow_id">>)

LineageLink(entry) ==
    IF {"instance_id", "run_id"} \subseteq DOMAIN entry
    THEN {<<entry.instance_id, entry.run_id>>} ELSE {}

LineageLines(entry) ==
    Shown(entry, {"label", "display_id", "run_number", "status"}) \cup ChildIdentityLines(ChildIdentityRows(entry))
-----------------------------------------------------------------------------
(***************************************************************************)
(* Failures, issues and actions.                                           *)
(***************************************************************************)
FailuresAtMost == 20

\* The failures a card shows: of a service run and of a window the recent ones,
\* the failure of the workflow task of a service run first.
FailureView(flow) ==
    LET recent == Is(flow, "engine_source", "service") \/ Bounded(flow)
        source == IF recent THEN "recent_failures" ELSE "exceptions"
        task == Is(flow, "engine_source", "service") /\ Has(flow, "latest_workflow_task_failure")
        known == Len(Rows(flow, source)) + (IF task THEN 1 ELSE 0)
        partial == FirstOf(flow, <<"recent_failures_state">>)
    IN  [known |-> known,
         rows |-> Min({known, FailuresAtMost}),
         state |-> FirstThat(<<
             <<Has(flow, "details_pruned_at"), "pruned">>,
             <<~ Has(flow, source), "unavailable">>,
             <<~ Bounded(flow), "available">>,
             <<partial = Absent, "partial">>,
             <<TRUE, partial>> >>),
         truncated |-> \/ known > FailuresAtMost
                       \/ recent /\ (Has(flow, "recent_failures_truncated") \/ known = FailuresAtMost)]

FailureCard(view) ==
    When(view.state = "pruned", {"details-have-been-pruned"})
    \cup (IF view.state = "unavailable" THEN {"failure-information-is-unavailable"}
          ELSE When(view.rows = 0, {IF view.state = "pruned" THEN "no-retained-failure-details"
                                    ELSE "no-failures-reported"}))
    \cup When(view.truncated, {"additional-failures-may-exist"})

Severities == {"critical", "warning", "info"}

DiagnosticBadge(diagnostic) ==
    IF IsIn(diagnostic, "severity", Severities) THEN diagnostic.severity ELSE "info"

Having(rows, severity) == {i \in DOMAIN rows : Is(rows[i], "severity", severity)}

DiagnosticsBanner(rows) ==
    IF Having(rows, "critical") # {} THEN "critical"
    ELSE IF Having(rows, "warning") # {} THEN "warning" ELSE "info"

DiagnosticsSummary(rows) ==
    LET critical == Cardinality(Having(rows, "critical"))
        warning == Cardinality(Having(rows, "warning"))
    IN  [critical |-> critical, warning |-> warning, info |-> Len(rows) - critical - warning]

DiagnosticLines(diagnostic) ==
    Shown(diagnostic, {"title", "summary", "guidance", "evidence_summary", "docs_url"})

\* Whether an action may be taken: fallback is for a run that does not say.
MayAct(flow, name, fallback) ==
    /\ name \notin Members(flow, "forbidden") /\ ~ Bounded(flow)
    /\ FirstThat(<<
          <<Has(flow, "actionability") /\ Has(Rows(flow, "actionability"), name),
            Is(Rows(flow, "actionability"), name, TRUE)>>,
          <<Has(flow, "can") /\ Has(Rows(flow, "can"), name), Is(Rows(flow, "can"), name, TRUE)>>,
          <<TRUE, fallback>> >>)

Actions == {"query", "signal", "update", "repair", "cancel", "terminate", "archive", "redrive"}

TerminalFallback(flow, name) ==
    name \in {"cancel", "terminate"} /\ Has(flow, "can_issue_terminal_commands")

\* The rows "Actions" of the summary, and the buttons above it.
ActionStateRows(flow) ==
    LET explicit ==
            \E name \in Actions :
               \/ name \in Members(flow, "forbidden")
               \/ Has(Rows(flow, "actionability"), name) \/ Has(Rows(flow, "can"), name)
               \/ Has(Rows(flow, "blocked_reason"), name)
    IN  IF ~ explicit THEN <<>>
        ELSE [name \in Actions |-> MayAct(flow, name, TerminalFallback(flow, name))]

ActionButtons(flow) ==
    {name \in {"repair", "cancel", "terminate", "archive", "redrive"} :
        MayAct(flow, name, TerminalFallback(flow, name))}
-----------------------------------------------------------------------------
(***************************************************************************)
(* The history card.                                                       *)
(***************************************************************************)
TimelineTotalCount(flow) ==
    IF Has(flow, "timeline_total_count") THEN flow.timeline_total_count
    ELSE Len(Rows(flow, "timeline"))

TimelineReturnedCount(flow) ==
    IF Has(flow, "timeline_returned_count") THEN flow.timeline_returned_count
    ELSE Len(Rows(flow, "timeline"))

TimelineHasOlder(flow) == Has(flow, "timeline_truncated")

HistoryCard(flow) ==
    IF Rows(flow, "timeline") = <<>> THEN {}
    ELSE Shown(flow, {"timeline_projection_source"})
         \cup When(TimelineHasOlder(flow),
                   {IF Is(flow, "engine_source", "service") \/ Bounded(flow)
                    THEN "Load-more" ELSE "Load-older"})

\* A row of the event list, and where it says the event comes from.
EventListLines(event) ==
    Shown(event, {"sequence", "summary", "source_kind", "source_id"})
    \cup When(FirstOf(event, <<"type", "event_type">>) # Absent, {"type"})
    \cup When(FirstOf(event, <<"recorded_at", "created_at", "timestamp">>) # Absent, {"recorded"})
    \cup When(FirstOf(event, <<"entry_kind", "kind">>) # Absent, {"kind"})

\* "Showing ... events": in a window that has no known total, that there are
\* more is all that is said of the others.
TimelineWindowSummary(flow) ==
    IF (Is(flow, "engine_source", "service") \/ Bounded(flow)) /\ ~ Has(flow, "timeline_total_count")
    THEN [returned |-> TimelineReturnedCount(flow), more |-> TimelineHasOlder(flow)]
    ELSE [returned |-> TimelineReturnedCount(flow), total |-> TimelineTotalCount(flow)]

\* Rows of the timeline of which only a part is rendered, between two spacers.
RowHeight == 92
ViewportHeight == 620
WindowSize == 80
Margin == 8

OnHistoryScroll(top) == Max({0, top \div RowHeight - Margin})

VirtualEnd(start, rows) == Min({rows, start + WindowSize})
VirtualTimelineEvents(start, rows) == start + 1 .. VirtualEnd(start, rows)

SpacerRows(position, start, rows) ==
    IF position = "top" THEN start
    ELSE Max({0, rows - start - Cardinality(VirtualTimelineEvents(start, rows))})

\* What is pinned above the history.
PinnedPerKind == 8
PinnedAtMost == 12

NeedsAttention(kind, row) ==
    CASE kind = "wait" -> Is(row, "status", "open")
      [] kind = "activity" -> IsIn(row, "status", {"retrying", "scheduled", "running"})
      [] kind = "task" -> Has(row, "replay_blocked") \/ Has(row, "repair_available")
                          \/ Is(row, "transport_state", "stuck")

RowsOfKind(flow, kind) ==
    CASE kind = "wait" -> WaitRows(flow)
      [] kind = "activity" -> ActivityRows(flow)
      [] kind = "task" -> Rows(flow, "tasks")

PinnedTimelineItems(flow) ==
    LET Cut(s, n) == SubSeq(s, 1, Min({n, Len(s)}))
        Pinned(kind) ==
            LET pinned == Where(RowsOfKind(flow, kind), LAMBDA row : NeedsAttention(kind, row))
            IN  [i \in DOMAIN Cut(pinned, PinnedPerKind) |-> <<kind, pinned[i].id>>]
    IN  Cut(Pinned("wait") \o Pinned("activity") \o Pinned("task"), PinnedAtMost)
-----------------------------------------------------------------------------
(***************************************************************************)
(* Message and workflow streams.                                           *)
(***************************************************************************)
StreamStates == {"available", "degraded", "unavailable"}

PresentWorkflowStreams(flow) ==
    LET rows == Rows(flow, "workflow_streams")
        explicit == IsIn(flow, "workflow_streams_state", StreamStates)
        contract == explicit \/ Has(flow, "workflow_streams_available")
        state == IF explicit THEN flow.workflow_streams_state
                 ELSE IF Is(flow, "workflow_streams_available", FALSE) THEN "unavailable"
                 ELSE "available"
    IN  [visible |-> rows # <<>> \/ contract,
         notice |-> FirstThat(<<
             <<state = "degraded", "could-not-be-read">>,
             <<state = "unavailable", "not-available">>,
             <<contract /\ rows = <<>>, "none-recorded">>,
             <<TRUE, Absent>> >>),
         rows |-> rows]

StreamCard(flow) ==
    IF Bounded(flow) \/ ~ PresentWorkflowStreams(flow).visible THEN <<>>
    ELSE PresentWorkflowStreams(flow)

StreamLines(stream) ==
    {"stream_name", "mode", "status", "total_items", "offset_origin", "pending_items",
     "direction", "delivery"}
    \cup Shown(stream, {"last_offset", "run_cursor_offset", "error_reason"})
-----------------------------------------------------------------------------
(***************************************************************************)
(* Properties.                                                             *)
(***************************************************************************)
\* Every issue is counted once, under the badge it bears, and the banner has
\* the tone of the worst of them.
IssuesAddUp(rows) ==
    LET summary == DiagnosticsSummary(rows)
        Worst == CHOOSE severity \in Severities :
                    /\ summary[severity] > 0
                    /\ \A other \in Severities : summary[other] > 0 =>
                          <<severity, other>> \notin {<<"warning", "critical">>,
                             <<"info", "critical">>, <<"info", "warning">>}
    IN  /\ \A severity \in Severities :
              summary[severity] = Cardinality({i \in DOMAIN rows : DiagnosticBadge(rows[i]) = severity})
        /\ rows # <<>> => DiagnosticsBanner(rows) = Worst

\* Only a run that is closed looks it, and it has a closing time and an output.
ClosedRunsLookIt(flow) ==
    /\ IsClosed(flow) <=> DetailStatusClass(FirstOf(flow, <<"status">>))
                              \in {"success", "danger", "muted"}
    /\ "Output" \in DataCards(flow) => IsClosed(flow) /\ ~ Bounded(flow)

\* A duration is cut to whole minutes at most, a size to a twentieth of its unit.
AmountsAreRight(n) ==
    LET duration == FormatTimeoutDuration(n)
        printed == duration.h * 3600 + duration.m * 60 + duration.s
        size == FormatBytes(n)
        unit == [B |-> 10, KiB |-> 1024, MiB |-> 1024 * 1024][size[1]]
    IN  /\ printed <= n /\ n - printed < (IF n < 3600 THEN 1 ELSE 60)
        /\ duration.m < 60 /\ duration.s < 60
        /\ size[1] # "B" => 20 * n - unit <= 2 * size[2] * unit /\ 2 * size[2] * unit <= 20 * n + unit

\* The link of a related run opens the run whose id it shows.
LinksOpenWhatTheyShow(flow) ==
    \A i \in DOMAIN LineageEntries(flow) :
       LET entry == LineageEntries(flow)[i]
       IN  \A link \in LineageLink(entry) : entry.display_id = link[2]

\* The child the summary calls current is told as in its row of the waits, is
\* the one marked there when that is a child, and is an open wait's otherwise.
CurrentChildIsAWait(flow) ==
    LET child == CurrentChildIdentityRows(flow)
        Told(wait) == ChildWaitIdentityRows(wait) = child
        waits == {i \in DOMAIN WaitRows(flow) : Is(WaitRows(flow)[i], "kind", "child")}
        marked == {i \in waits : "Current" \in WaitLines(flow, WaitRows(flow)[i])}
    IN  child # {} =>
           \E i \in waits :
              /\ Told(WaitRows(flow)[i])
              /\ i \in marked \/ (marked = {} /\ Is(WaitRows(flow)[i], "status", "open"))

\* Only what needs attention is pinned, and unless the list is full or a kind
\* has more than its share everything that does: waits before activities
\* before tasks.
AttentionIsPinned(flow) ==
    LET pinned == PinnedTimelineItems(flow)
        Needing(kind) == {i \in DOMAIN RowsOfKind(flow, kind) :
                             NeedsAttention(kind, RowsOfKind(flow, kind)[i])}
        OfKind(kind) == {i \in DOMAIN pinned : pinned[i][1] = kind}
    IN  /\ \A i \in DOMAIN pinned :
              \E j \in Needing(pinned[i][1]) :
                 RowsOfKind(flow, pinned[i][1])[j].id = pinned[i][2]
        /\ \A kind \in {"wait", "activity", "task"} :
              \/ Cardinality(OfKind(kind)) = Min({PinnedPerKind, Cardinality(Needing(kind))})
              \/ Len(pinned) = PinnedAtMost /\ kind # "wait"

\* "No Workflow Streams were recorded" is a statement about the run, not about
\* a summary that could not be had.
NoStreamsMeansNone(flow) ==
    StreamCard(flow) # <<>> /\ StreamCard(flow).notice = "none-recorded" =>
       /\ StreamCard(flow).rows = <<>>
       /\ \/ Is(flow, "workflow_streams_state", "available")
          \/ Is(flow, "workflow_streams_available", TRUE)

\* That a run has no failures is said only when none is known and none may
\* exist, and every known failure is a row or is told to exist.
NoFailuresMeansNone(flow) ==
    LET view == FailureView(flow)
    IN  /\ "no-failures-reported" \in FailureCard(view) =>
              view.known = 0 /\ view.state # "unavailable"
        /\ view.rows < view.known => "additional-failures-may-exist" \in FailureCard(view)

\* More events are offered exactly when the summary tells of more than are on
\* display.
MoreIsOffered(flow) ==
    LET summary == TimelineWindowSummary(flow)
        told == IF "more" \in DOMAIN summary THEN summary.more ELSE summary.returned < summary.total
    IN  Rows(flow, "timeline") # <<>> =>
           (told <=> HistoryCard(flow) \cap {"Load-more", "Load-older"} # {})

\* Wherever the timeline is scrolled to, the rows in sight are rendered, and
\* with the spacers the scrollbar is that of all rows.
RowsInSightAreRendered(rows) ==
    LET height == Max({0, rows * RowHeight - ViewportHeight})
    IN  \A top \in {t \in 0 .. height : t % 23 = 0} :
           LET start == OnHistoryScroll(top)
               rendered == VirtualTimelineEvents(start, rows)
               sight == top \div RowHeight + 1 ..
                        Min({rows, (top + ViewportHeight - 1) \div RowHeight + 1})
           IN  /\ sight \subseteq rendered
               /\ SpacerRows("top", start, rows) + Cardinality(rendered)
                     + SpacerRows("bottom", start, rows) = rows

\* What went wrong with a row is told in that row, whatever else it tells.
Problems ==
    [run       |-> {"task_problem_badge", "read_only_reason", "details_pruned_at", "current_run_id"},
     contract  |-> {"workflow_determinism_status", "compatibility_reason",
                    "compatibility_fleet_reason"},
     wait      |-> {"history_unsupported_reason"},
     task      |-> {"last_dispatch_error", "last_claim_error", "last_error", "replay_blocked",
                    "last_claim_failed_at"},
     command   |-> {"rejection_reason", "validation_errors"},
     signal    |-> {"rejection_reason", "validation_errors"},
     update    |-> {"rejection_reason", "validation_errors", "failure_message",
                    "error_available", "exception_replay_blocked"},
     activity  |-> {"history_unsupported_reason", "diagnostic_only"},
     attempt   |-> {"stop_reason", "cancel_requested"},
     intake    |-> {"missing_expected_command_types", "incomplete"},
     lineage   |-> {"diagnostic_only"},
     stream    |-> {"error_reason"},
     issue     |-> {"summary", "guidance"},
     timer     |-> {"history_unsupported_reason", "diagnostic_only"},
     exception |-> {"exception_resolution_error", "exception_replay_blocked", "non_retryable"},
     event     |-> {"exception_class", "message"}]

LinesOf(flow, table, row) ==
    CASE table = "run" -> HeadlineLines(row) \cup IdentityLines(row) \cup ExecutionLines(row)
                             \cup WaitSummaryLines(row) \cup RunLinks(row)
      [] table = "contract" -> ContractLines(row) \cup DefinitionLines(row)
      [] table = "wait" -> WaitLines(flow, row)
      [] table = "task" -> TaskLines(row)
      [] table = "command" -> CommandLines(row)
      [] table = "signal" -> SignalLines(row)
      [] table = "update" -> UpdateLines(row)
      [] table = "activity" -> ActivityLines(flow, row)
      [] table = "attempt" -> ActivityLines(flow, [attempts |-> <<row>>])
      [] table = "intake" -> IntakeLines(row)
      [] table = "lineage" -> LineageLines(row)
      [] table = "stream" -> StreamLines(row)
      [] table = "issue" -> DiagnosticLines(row)
      [] table = "timer" -> TimerLines(row)
      [] table = "exception" -> ExceptionLines(flow, row)
      [] table = "event" -> EventLines(row) \cup EventListLines(row)

ProblemsAreTold(flow, table, row) ==
    Shown(row, Problems[table]) \subseteq LinesOf(flow, table, row)

\* The summary says of an action what its button does.
ActionsAgree(flow) ==
    \A name \in DOMAIN ActionStateRows(flow) :
       name \in {"repair", "cancel", "terminate", "archive", "redrive"} =>
          (ActionStateRows(flow)[name] <=> name \in ActionButtons(flow))
=============================================================================
