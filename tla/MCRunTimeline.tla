--------------------------- MODULE MCRunTimeline ----------------------------
(* Reading runs, the history card of the run on display, and what the page  *)
(* tells of a run, side by side.                                           *)
EXTENDS MCRunDetail, RunTimeline, RunFacts

CONSTANTS c1, card, f1, f2

\* Two failures of one run; a2 is the other run of the workflow.
FailuresOfA1 ==
    (f1 :> [run |-> a1, sequence |-> 2]) @@ (f2 :> [run |-> a1, sequence |-> 1])

\* study: what is looked at; facts: the part of a detail on display.
VARIABLES study, facts

Blank == [of |-> "nothing"]

\* Records whose fields may be left out.
Always(values) == {<<v>> : v \in values}
Maybe(values) == {<<>>} \cup Always(values)
Partial(records) == {[f \in {g \in DOMAIN r : r[g] # <<>>} |-> r[f][1]] : r \in records}

Flags(fields) == {[f \in chosen |-> "said"] : chosen \in SUBSET fields}

Lists(rows, length) == UNION {[1..n -> rows] : n \in 0..length}

IssueLists ==
    Lists(Partial([severity : Maybe({"critical", "warning", "info", "notice"})]), 3)

Waits ==
    Partial([id : Always({"w1", "w2"}), kind : Maybe({"child", "timer"}),
             status : Maybe({"open", "resolved"}), resume_source_id : Maybe({"r1"}),
             child_workflow_run_id : Maybe({"r2"})])
Summaries ==
    Partial([id : Always({"w1", "w2"}), kind : Maybe({"child", "timer"}),
             dependency_id : Maybe({"r1"})])

WaitingRuns ==
    Partial([waits : Always(Lists(Waits, 2)), open_wait_id : Maybe({"w1"})])
    \cup Partial([read_mode : Always({"bounded"}), current_waits : Always(Lists(Summaries, 2)),
                  open_wait_id : Maybe({"w1"})])

StatusRuns ==
    Partial([read_mode : Maybe({"bounded"}),
             status : Maybe({"pending", "waiting", "running", "completed", "continued", "failed",
                             "cancelled", "terminated"})])

\* Around every change of unit.
Amounts ==
    0..130 \cup 1000..1100 \cup 3590..3670 \cup 7190..7290 \cup 1048500..1048700
    \cup {5000000, 7340032, 52428800}

\* Rows that need attention among some that do not, up to more than is pinned.
BusyRuns ==
    LET Some(n, needing, other) ==
            [i \in 1..(n + 2) |-> Over([id |-> i], IF i \in {1, n + 2} THEN other ELSE needing)]
    IN  {[waits      |-> Some(w, [status |-> "open"], [status |-> "resolved"]),
          activities |-> Some(a, [status |-> "retrying"], [status |-> "completed"]),
          tasks      |-> Some(t, [replay_blocked |-> TRUE], [transport_state |-> "ready"])] :
            w \in {0, 1, 3, 8, 9}, a \in {0, 2, 4, 9}, t \in {0, 1, 9}}

Links(fields) ==
    {[f \in chosen |-> IF f = "link_type" THEN "redrive" ELSE f] :
        chosen \in SUBSET (fields \cup {"link_type"})}

RelatedRuns ==
    {[parents |-> <<link>>] : link \in
        Links({"workflow_run_id", "parent_workflow_run_id", "workflow_instance_id",
               "parent_workflow_id", "child_call_id"})}
    \cup {[continuedWorkflows |-> <<link>>] : link \in
        Links({"workflow_run_id", "child_workflow_run_id", "workflow_instance_id",
               "child_workflow_id", "child_call_id"})}
    \cup {[read_mode |-> "bounded", related_children |-> <<link>>] : link \in
        Links({"run_id", "instance_id", "id"})}

StreamRuns ==
    Partial([workflow_streams : Maybe({<<>>, <<[stream_name |-> "s"]>>}),
             workflow_streams_state : Maybe(StreamStates \cup {"other"}),
             workflow_streams_available : Maybe(BOOLEAN), read_mode : Maybe({"bounded"})])

FailedRuns ==
    LET Lists20 == {<<>>} \cup {[i \in 1..n |-> i] : n \in {1, 19, 20, 21}}
    IN  {Over(failures, run) :
            failures \in Partial([recent_failures : Maybe(Lists20)])
                         \cup Partial([exceptions : Maybe(Lists20)]),
            run \in Partial([engine_source : Maybe({"service", "v2"}), read_mode : Maybe({"bounded"}),
                             latest_workflow_task_failure : Maybe({"said"}),
                             details_pruned_at : Maybe({"said"}),
                             recent_failures_truncated : Maybe({"said"}),
                             recent_failures_state : Maybe({"available", "unavailable"})])}

\* Windows of one to three events of a history, as the engine gives them: an
\* embedded one counts all events, and says so when it does not have them all.
WindowRuns ==
    {Over([timeline |-> [i \in 1..n |-> i]], window) : n \in 1..3,
        window \in
            {[engine_source |-> "service"], [read_mode |-> "bounded"],
             [engine_source |-> "service", timeline_truncated |-> TRUE],
             [read_mode |-> "bounded", timeline_truncated |-> TRUE]}}
    \cup {[timeline |-> [i \in 1..n |-> i], timeline_total_count |-> n, timeline_returned_count |-> n] :
             n \in 1..3}
    \cup {[timeline |-> [i \in 1..n |-> i], timeline_total_count |-> n + 1,
           timeline_returned_count |-> n, timeline_truncated |-> TRUE] : n \in 1..3}

ActionRuns ==
    Partial([forbidden : Always(SUBSET {"cancel", "repair"}),
             actionability : Maybe({[repair |-> TRUE], [cancel |-> FALSE]}),
             can : Maybe({[repair |-> FALSE, cancel |-> TRUE], [repair |-> TRUE]}),
             can_issue_terminal_commands : Maybe({TRUE}), read_mode : Maybe({"bounded"})])

\* A row with any of its problems, and with fields that decide on them.
TroubledRows ==
    LET others == [run |-> "wait_reason", contract |-> "declared_contract_source",
                   wait |-> "summary", task |-> "replay_blocked_reason",
                   command |-> "target_name", signal |-> "current_task_id",
                   update |-> "exception_resolution_source", activity |-> "reused_from_run_id",
                   attempt |-> "status", intake |-> "mode", lineage |-> "child_call_id",
                   stream |-> "last_offset", issue |-> "title", timer |-> "fired_at", exception |-> "trace_preview", event |-> "kind"]
        Given(table) ==
            IF table = "command" THEN [status |-> "rejected"]
            ELSE IF table = "contract"
            THEN [compatibility_supported |-> FALSE, compatibility_supported_in_fleet |-> FALSE]
            ELSE <<>>
    IN  UNION {{[table |-> table, row |-> Over(Given(table), row)] :
                   row \in Flags(Problems[table] \cup {others[table]})} :
                  table \in DOMAIN Problems}

Pages ==
    [of : {"issues"}, issues : IssueLists]
    \cup [of : {"status"}, flow : StatusRuns]
    \cup [of : {"amount"}, amount : Amounts]
    \cup [of : {"run"}, flow : WaitingRuns \cup BusyRuns \cup RelatedRuns \cup StreamRuns
                         \cup FailedRuns \cup WindowRuns \cup ActionRuns]
    \cup [of : {"row"}, row : TroubledRows]
    \cup [of : {"history"}, rows : {0, 1, 6, 7, 15, 80, 88, 89, 160}]

TimelineStudyInit ==
    /\ Init /\ TimelineInit
    /\ facts = Blank
    /\ study \in {"reading", "timeline", "facts"}
    /\ study # "timeline" => place = CanonicalPlace("run", a1)
    /\ study # "reading" =>
          /\ route = CanonicalRoute(a1) /\ currentRun[A] = a1
          /\ \A r \in Runs : hist[r] = IF r = a1 THEN 1 ELSE 0

TimelineStudyNext ==
    /\ UNCHANGED study
    /\ \/ study = "reading" /\ Next /\ UNCHANGED <<timelineVars, facts>>
       \/ study = "timeline" /\ TimelineNext /\ UNCHANGED <<vars, facts>>
       \/ /\ study = "facts" /\ facts' \in (IF facts = Blank THEN Pages ELSE {Blank})
          /\ UNCHANGED <<vars, timelineVars>>

MCSafeSpec == TimelineStudyInit /\ [][TimelineStudyNext]_<<vars, timelineVars, study, facts>>

TimelineStudySpec == MCSafeSpec /\ Fairness

\* The history card alone.
ChildLinkSpec ==
    /\ TimelineStudyInit /\ study = "timeline"
    /\ [][TimelineStudyNext]_<<vars, timelineVars, study, facts>>
-----------------------------------------------------------------------------
\* What the page says in two places agrees, whatever the engine answered:
\* issues and their banner, a related run and its link, the current child and
\* its wait, what needs attention and what is pinned, an action and its
\* button.  What went wrong is told, and rows in sight are rendered.
DetailTellsTheRun ==
    /\ facts.of = "issues" => IssuesAddUp(facts.issues)
    /\ facts.of = "status" => ClosedRunsLookIt(facts.flow)
    /\ facts.of = "amount" => AmountsAreRight(facts.amount)
    /\ facts.of = "run" =>
          /\ LinksOpenWhatTheyShow(facts.flow)
          /\ CurrentChildIsAWait(facts.flow)
          /\ AttentionIsPinned(facts.flow)
          /\ NoStreamsMeansNone(facts.flow)
          /\ NoFailuresMeansNone(facts.flow)
          /\ MoreIsOffered(facts.flow)
          /\ ActionsAgree(facts.flow)
    /\ facts.of = "row" => ProblemsAreTold(<<>>, facts.row.table, facts.row.row)
    /\ facts.of = "history" => RowsInSightAreRendered(facts.rows)
=============================================================================
