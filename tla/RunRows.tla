------------------------------- MODULE RunRows -------------------------------
(***************************************************************************)
(* The tables of the run detail screen: which rows each of them has and    *)
(* what is said in a row (the template of flow.vue from "Waits" on, its    *)
(* helpers from waitRows on, and TimelineEventRenderer.vue).               *)
(*                                                                         *)
(* What a row says is the set of its lines, each named for the field it     *)
(* prints.  A card without rows is not on the page.                        *)
(***************************************************************************)
EXTENDS Fields, FiniteSets

Bounded(flow) == Is(flow, "read_mode", "bounded")
-----------------------------------------------------------------------------
(***************************************************************************)
(* Children: the same three ids are listed under a wait, a task, the run   *)
(* itself and a lineage entry.                                             *)
(***************************************************************************)
ChildIdentityRows(subject) ==
    {<<field, subject[field]>> : field \in Shown(subject, {"instance_id", "run_id", "child_call_id"})}
    \cup When(Has(subject, "diagnostic_only"),
              {<<"diagnostic_only", FirstOf(subject, <<"history_authority">>)>>})

ChildIdentityLines(rows) == {row[1] : row \in rows}

ChildOfWait(wait) ==
    Renamed(wait, [instance_id   |-> "target_name",
                   run_id        |-> IF Has(wait, "child_workflow_run_id")
                                     THEN "child_workflow_run_id" ELSE "resume_source_id",
                   child_call_id |-> "child_call_id"])

ChildWaitIdentityRows(wait) ==
    IF Is(wait, "kind", "child") THEN ChildIdentityRows(ChildOfWait(wait)) ELSE {}

TaskChildIdentityRows(task) ==
    ChildIdentityRows(Renamed(task, [run_id |-> "child_workflow_run_id",
                                     child_call_id |-> "child_call_id"]))
-----------------------------------------------------------------------------
(***************************************************************************)
(* Waits.                                                                  *)
(***************************************************************************)
\* A wait of which only its summary was read.
SummaryOnly(wait) ==
    Over([status |-> "open", summary_only |-> TRUE, current_summary |-> wait],
         Renamed(wait, [id |-> "id", kind |-> "kind", summary |-> "reason",
                        target_type |-> "dependency_type", resume_source_id |-> "dependency_id",
                        deadline_at |-> "deadline_at"]))

WaitRows(flow) ==
    LET waits == Rows(flow, "waits")
        current == Rows(flow, "current_waits")
        SummariesOf(wait) == {i \in DOMAIN current : current[i].id = wait.id}
        WithSummary(wait) ==
            IF SummariesOf(wait) = {} THEN wait
            ELSE Over([current_summary |-> current[CHOOSE i \in SummariesOf(wait) :
                                                      \A j \in SummariesOf(wait) : j <= i]], wait)
    IN  IF ~ Has(flow, "waits")
           /\ (Is(flow, "current_waits_source", "server_diagnostics") \/ Bounded(flow))
        THEN [i \in DOMAIN current |-> SummaryOnly(current[i])]
        ELSE [i \in DOMAIN waits |-> WithSummary(waits[i])]

OpenWaitCount(flow) ==
    IF Has(flow, "open_wait_count") THEN flow.open_wait_count
    ELSE Len(Where(WaitRows(flow), LAMBDA wait : Is(wait, "status", "open")))

IsCurrentWait(flow, wait) == Is(flow, "open_wait_id", wait.id)

BugAnyChild(flow) ==
    LET children == Where(WaitRows(flow), LAMBDA wait : Is(wait, "kind", "child"))
    IN  IF children = <<>> THEN {} ELSE ChildIdentityRows(ChildOfWait(children[1]))

CurrentChildIdentityRows(flow) ==
    LET ChildWaits(of(_)) ==
            Where(WaitRows(flow), LAMBDA wait : Is(wait, "kind", "child") /\ of(wait))
        current == ChildWaits(LAMBDA wait : IsCurrentWait(flow, wait))
        open == ChildWaits(LAMBDA wait : Is(wait, "status", "open"))
    IN  IF current \o open = <<>> THEN {}
        ELSE ChildIdentityRows(ChildOfWait((current \o open)[1]))

\* What is behind a wait.
WaitBacking(wait) ==
    LET timed == Is(wait, "kind", "condition") /\ Has(wait, "timeout_seconds")
        backed == Has(wait, "task_backed")
        task == Has(wait, "task_id")
    IN  FirstThat(<<
            <<Has(wait, "summary_only"), "summary-only">>,
            <<Has(wait, "diagnostic_only"), "diagnostic-only">>,
            <<timed /\ backed, "timeout-task">>,
            <<timed /\ task, "stale-timeout-task">>,
            <<timed, "timeout-task-missing">>,
            <<Is(wait, "kind", "update") /\ ~ backed /\ ~ task, "workflow-task-missing">>,
            <<Is(wait, "kind", "child"), "child-run">>,
            <<Has(wait, "external_only"), "external-input">>,
            <<backed, "task">>,
            <<task /\ Is(wait, "status", "open"), "stale-task">>,
            <<task, "historical-task">>,
            <<TRUE, "task-missing">> >>)

WaitCompletion(wait) == FirstOf(wait, <<"resolved_at", "deadline_at">>)

\* The groups of parallel steps a wait is in, from the outermost in: the kind
\* each is called and the position in it.
ParallelGroups(wait) ==
    LET Parallel(group) == Has(group, "size") /\ group.size > 1
        path == Where(Rows(wait, "parallel_group_path"), Parallel)
        own == Renamed(wait, [kind |-> "parallel_group_kind", index |-> "parallel_group_index",
                              size |-> "parallel_group_size"])
        groups == IF path # <<>> THEN path ELSE IF Parallel(own) THEN <<own>> ELSE <<>>
        Kind(group) ==
            LET kind == IF Has(group, "kind") THEN group.kind
                        ELSE IF Is(wait, "kind", "activity") THEN "activity" ELSE "child"
            IN  IF kind \in {"activity", "mixed"} THEN kind ELSE "child"
    IN  [i \in DOMAIN groups |->
            [kind |-> Kind(groups[i]),
             position |-> IF Has(groups[i], "index") THEN groups[i].index + 1 ELSE 0,
             size |-> groups[i].size]]

WaitLines(flow, wait) ==
    Shown(wait, {"summary", "source_status", "opened_at", "sequence", "condition_key",
                 "condition_definition_fingerprint", "history_authority",
                 "history_unsupported_reason", "update_id", "signal_wait_id",
                 "condition_wait_id", "command_sequence", "timeout_seconds"})
    \cup Shown(wait, IF Has(wait, "target_name") THEN {"target_name"} ELSE {"target_type"})
    \cup {WaitBacking(wait)}
    \cup When(WaitCompletion(wait) # Absent, {"completed"})
    \cup ChildIdentityLines(ChildWaitIdentityRows(wait))
    \cup When(IsCurrentWait(flow, wait), {"Current"})
    \cup When(Has(wait, "resume_source_kind") \/ Has(wait, "resume_source_id"), {"resume"})
    \cup When(ParallelGroups(wait) # <<>>, {"parallel-group"})
    \cup When(Has(wait, "current_summary"),
              {"resume-state"} \cup
              Shown(IF Has(wait, "current_summary") THEN wait.current_summary ELSE <<>>,
                    {"next_scheduled_resume_at", "deadline_at", "attempt_number",
                     "unavailable_reason"}))
-----------------------------------------------------------------------------
(***************************************************************************)
(* Tasks.                                                                  *)
(***************************************************************************)
\* What a task is for: the first that holds names it.
TaskTarget(task) ==
    FirstThat(<<
        <<Has(task, "activity_type"), "activity">>,
        <<Has(task, "replay_blocked_condition_wait_id"), "condition-wait">>,
        <<Has(task, "condition_wait_id"), "condition-timeout">>,
        <<Has(task, "timer_sequence"), "timer">>,
        <<Is(task, "workflow_wait_kind", "child") \/ Has(task, "child_call_id")
             \/ Has(task, "child_workflow_run_id"), "child-workflow">>,
        <<Has(task, "workflow_update_id"), "update">>,
        <<Has(task, "workflow_signal_id"), "signal">>,
        <<Has(task, "workflow_command_id"), "command">>,
        <<Has(task, "workflow_wait_kind"), "wait">>,
        <<TRUE, "selected-run">> >>)

TaskAvailability(task) ==
    FirstOf(task, <<"leased_at">>
                  \o (IF Is(task, "transport_state", "repair_backoff")
                      THEN <<"repair_available_at">> ELSE <<>>)
                  \o <<"available_at">>)

\* The lines about compatibility, of a task and of the run.
CompatibilityLines(of) ==
    Shown(of, {"compatibility", "operator_summary", "compatibility_supported_in_fleet"})
    \cup When(Is(of, "compatibility_supported", FALSE), Shown(of, {"compatibility_reason"}))
    \cup When(Is(of, "compatibility_supported_in_fleet", FALSE),
              Shown(of, {"compatibility_fleet_reason"}))

TaskLines(task) ==
    Shown(task, {"type", "status", "queue", "summary", "last_dispatch_attempt_at",
                 "last_claim_failed_at", "repair_available_at", "expected_task_id",
                 "last_dispatch_error", "last_claim_error", "last_error",
                 "replay_blocked_expected_history_shape", "replay_blocked_recorded_event_types",
                 "replay_blocked_recorded_condition_definition_fingerprint",
                 "replay_blocked_current_condition_definition_fingerprint",
                 "attempt_count", "repair_count"})
    \cup {TaskTarget(task)}
    \cup When(TaskAvailability(task) # Absent, {"available"})
    \cup ChildIdentityLines(TaskChildIdentityRows(task))
    \cup When(Has(task, "replay_blocked"), Shown(task, {"replay_blocked", "replay_blocked_reason"}))
    \cup CompatibilityLines(task)
-----------------------------------------------------------------------------
(***************************************************************************)
(* Commands, signals and updates.                                          *)
(***************************************************************************)
\* The tasks a command, signal or update had before its current one.
HistoricalTaskIds(of) ==
    LET current == FirstOf(of, <<"current_task_id">>)
    IN  Where(Rows(of, "task_ids"), LAMBDA id : id # current)

TaskOfMessage(of) ==
    Shown(of, {"current_task_id"})
    \cup When(HistoricalTaskIds(of) # <<>>, {"tasks"})
    \cup When(Has(of, "task_missing") /\ ~ Has(of, "current_task_id"), {"transport"})

\* The run a message asked for and the one it was resolved to.
CommandTargetDetail(of) ==
    LET requested == Has(of, "requested_run_id")
        resolved == Has(of, "resolved_run_id")
    IN  FirstThat(<<
            <<requested /\ resolved /\ FirstOf(of, <<"requested_run_id">>)
                                       # FirstOf(of, <<"resolved_run_id">>),
              {"requested_run_id", "resolved_run_id"}>>,
            <<requested, {"requested_run_id"}>>,
            <<resolved /\ Is(of, "target_scope", "instance"), {"resolved_run_id"}>>,
            <<TRUE, {}>> >>)

CommandSource(command) ==
    FirstOf(command, <<"principal_label", "principal_id", "caller_label", "source">>)

CommandPrincipalDetail(command) == Shown(command, {"principal_type", "principal_id"})

CommandSourceDetail(command) ==
    Shown(command, {"parent_instance_id", "parent_run_id", "workflow_sequence", "child_call_id",
                    "intake_mode", "auth_status", "request_method", "request_path"})
    \cup When(Has(command, "intake_mode"), Shown(command, {"intake_group_id"}))
    \cup When(FirstOf(command, <<"caller_label">>) # CommandSource(command),
              Shown(command, {"caller_label"}))
    \cup When(Has(command, "principal_label"), Shown(command, {"principal_id"}))
    \cup When(Has(command, "auth_status"), Shown(command, {"auth_method"}))

CommandLines(command) ==
    Shown(command, {"sequence", "type", "outcome", "status", "validation_errors"})
    \cup When(FirstOf(command, <<"target_name", "target_scope">>) # Absent, {"target"})
    \cup CommandTargetDetail(command)
    \cup TaskOfMessage(command)
    \cup CommandPrincipalDetail(command)
    \cup CommandSourceDetail(command)
    \cup When(Is(command, "status", "rejected"), Shown(command, {"rejection_reason"}))
    \cup Shown(command, {"payload_available", "result_available"})
    \cup When(FirstOf(command, <<"accepted_at", "rejected_at", "applied_at">>) # Absent,
              {"accepted-at"})

SignalLines(signal) ==
    Shown(signal, {"name", "id", "signal_wait_id", "command_id", "command_sequence",
                   "workflow_sequence", "status", "outcome", "rejection_reason",
                   "validation_errors", "target_scope", "arguments_available"})
    \cup TaskOfMessage(signal)
    \cup CommandTargetDetail(signal)
    \cup When(FirstOf(signal, <<"received_at", "rejected_at">>) # Absent, {"received"})
    \cup When(FirstOf(signal, <<"closed_at", "applied_at", "rejected_at">>) # Absent, {"closed"})

\* The cell "Result" of an update: its result, or what went wrong.
UpdateResult(update) ==
    IF Has(update, "result_available") THEN {"result"}
    ELSE Shown(update, {"failure_message", "error_available"})
         \cup IF Has(update, "exception_replay_blocked") THEN {"exception_replay_blocked"}
              ELSE Shown(update, {"exception_resolution_source"})

UpdateLines(update) ==
    Shown(update, {"name", "id", "command_id", "command_sequence", "request_id",
                   "correlation_id", "request_fingerprint", "workflow_sequence",
                   "history_events", "outcome", "reason", "rejection_reason",
                   "validation_errors", "target_scope", "payload_available"})
    \cup When(FirstOf(update, <<"state_label", "status">>) # Absent, {"status"})
    \cup TaskOfMessage(update)
    \cup CommandTargetDetail(update)
    \cup UpdateResult(update)
    \cup When(FirstOf(update, <<"accepted_at", "rejected_at", "closed_at">>) # Absent, {"accepted"})
    \cup When(Has(update, "closed_at"), {"closed"})

IntakeCommandLabel(command) ==
    Shown(command, {"sequence", "type", "target_name"})
    \cup Shown(command, IF Has(command, "outcome") THEN {"outcome"} ELSE {"status"})

\* Intakes that started the run: the command that started it, the one it was
\* for, and all of them.
IntakeLines(intake) ==
    Shown(intake, {"mode", "group_id", "source", "missing_expected_command_types",
                   "start_outcome", "start_command_status", "start_command_id",
                   "primary_command_type", "primary_command_id", "incomplete"})
    \cup UNION {IntakeCommandLabel(Rows(intake, "commands")[i]) : i \in DOMAIN Rows(intake, "commands")}
    \cup When(Has(intake, "start_command_id"), Shown(intake, {"start_command_sequence"}))
    \cup When(Has(intake, "primary_command_type"),
              Shown(intake, {"primary_outcome", "primary_command_status"}))
    \cup When(Has(intake, "primary_command_id"), Shown(intake, {"primary_command_sequence"}))
-----------------------------------------------------------------------------
(***************************************************************************)
(* Activities, timers and exceptions.                                      *)
(***************************************************************************)
ActivityRows(flow) ==
    IF Rows(flow, "activities") # <<>> THEN flow.activities ELSE Rows(flow, "logs")

HasReusedActivities(flow) ==
    \E i \in DOMAIN ActivityRows(flow) : Has(ActivityRows(flow)[i], "reused_from_run_id")

RetryPolicyLines(policy) ==
    Shown(policy, {"max_attempts", "backoff_seconds", "start_to_close_timeout",
                   "schedule_to_start_timeout", "schedule_to_close_timeout",
                   "heartbeat_timeout"})

HeartbeatLines(of) ==
    Shown(of, {"progress_message", "progress_current", "progress_total", "progress_details"})
    \cup When(Has(of, "progress_current") \/ Has(of, "progress_total"),
              Shown(of, {"progress_unit"}))

\* An activity of a service run is asked of the service when it is looked at.
CanInspectActivityResult(flow, activity) ==
    /\ Is(flow, "engine_source", "service") /\ Is(activity, "status", "completed")
    /\ Has(flow, "instance_id") /\ Has(flow, "run_id") /\ Has(activity, "id")

CanViewActivityResult(activity) ==
    /\ ~ Has(activity, "history_unsupported_reason")
    /\ ~ Is(activity, "history_authority", "unsupported_terminal_without_history")
    /\ ~ Is(activity, "status", "unsupported")
    /\ Has(activity, "result")

ActivityResult(flow, activity) ==
    FirstThat(<<
        <<CanInspectActivityResult(flow, activity), "inspect">>,
        <<CanViewActivityResult(activity), "view">>,
        <<Has(activity, "history_unsupported_reason"), "Diagnostic-only">>,
        <<TRUE, Absent>> >>)

AttemptLines(attempt) ==
    Shown(attempt, {"attempt_number", "status", "task_id", "lease_owner", "lease_expires_at",
                    "cancel_requested", "stop_reason"})
    \cup HeartbeatLines(attempt)

ActivityLines(flow, activity) ==
    Shown(activity, {"idempotency_key", "history_authority", "diagnostic_only",
                     "history_unsupported_reason", "row_status", "status", "attempt_count",
                     "attempt_id", "queue", "started_at", "last_heartbeat_at",
                     "closed_at"})
    \cup When(FirstOf(activity, <<"type", "class">>) # Absent, {"type"})
    \cup (IF Has(activity, "reused_from_run_id") THEN {"Reused-from-run"}
          ELSE When(HasReusedActivities(flow), {"Executed-in-this-run"}))
    \cup (IF Has(activity, "retry_policy") THEN RetryPolicyLines(activity.retry_policy) ELSE {})
    \cup HeartbeatLines(activity)
    \cup UNION {AttemptLines(Rows(activity, "attempts")[i]) : i \in DOMAIN Rows(activity, "attempts")}
    \cup {ActivityResult(flow, activity)}

TimerLines(timer) ==
    Shown(timer, {"id", "timer_kind", "condition_wait_id", "condition_key",
                  "condition_definition_fingerprint", "history_authority", "diagnostic_only",
                  "history_unsupported_reason", "row_status", "status", "delay_seconds", "fire_at"})
    \cup When(FirstOf(timer, <<"status">>) # FirstOf(timer, <<"source_status">>),
              Shown(timer, {"source_status"}))
    \cup When(FirstOf(timer, <<"fired_at", "cancelled_at">>) # Absent, {"closed"})

\* A source excerpt is on display only with the line that threw in it.
SourceAvailable(context) ==
    /\ Is(context, "status", "available")
    /\ {"excerpt", "start_line", "throw_line"} \subseteq DOMAIN context
    /\ context.start_line > 0
    /\ context.throw_line \in context.start_line .. context.start_line + context.excerpt - 1

ExceptionSource(flow, exception) ==
    IF IsIn(flow, "engine_source", {"v2", "service"}) \/ Has(exception, "source_context")
    THEN (IF SourceAvailable(IF Has(exception, "source_context")
                             THEN exception.source_context ELSE <<>>)
          THEN {"excerpt"} ELSE {"Unavailable"})
         \cup When(FirstOf(exception, <<"trace_preview", "code">>) # Absent, {"trace"})
    ELSE {"editor"}

ExceptionLines(flow, exception) ==
    Shown(exception, {"class", "history_authority", "diagnostic_only", "exception_type",
                      "failure_category", "non_retryable", "created_at",
                      "exception_resolved_class", "exception_resolution_error",
                      "exception_replay_blocked"})
    \cup Shown(IF Has(exception, "decoded") THEN exception.decoded ELSE <<>>,
               {"message", "type", "code", "file", "properties", "trace"})
    \cup ExceptionSource(flow, exception)
-----------------------------------------------------------------------------
(***************************************************************************)
(* Events of the history, as the timeline shows them.                      *)
(***************************************************************************)
CommandFields ==
    {"caller_label", "source", "auth_status", "auth_method", "command_type",
     "command_sequence", "command_status", "command_outcome", "target_name",
     "request_route_name", "request_method", "request_path"}

Principal(event) ==
    Shown(event, {"principal_label", "principal_type", "principal_id"})

\* What an event of each kind tells of itself.
EventDetails(event) ==
    LET kind == FirstOf(event, <<"kind">>)
    IN  CASE kind = "activity" ->
                Shown(event, {"activity_type", "activity_execution_id", "activity_status"})
          [] kind = "timer" -> Shown(event, {"timer_id", "delay_seconds"})
          [] kind = "child" ->
                Shown(event, {"child_workflow_type", "child_workflow_run_id", "child_status"})
          [] kind = "signal" -> Shown(event, {"signal_name", "signal_id"}) \cup Principal(event)
          [] kind = "update" -> Shown(event, {"update_name"}) \cup Principal(event)
          [] kind = "command" -> Shown(event, CommandFields) \cup Principal(event)
          [] kind = "version" -> Shown(event, {"version_change_id", "version"})
          [] OTHER -> When(IsIn(event, "type", {"SearchAttributesUpserted", "SideEffectRecorded"}),
                           {"type"})

EventLines(event) ==
    Shown(event, {"sequence", "type", "summary", "recorded_at", "payload"})
    \cup EventDetails(event)
    \cup When(Shown(event, {"failure_id", "exception_class", "message"}) # {},
              Shown(event, {"exception_class", "message"}))
=============================================================================
