--------------------------- MODULE ScheduleTable ----------------------------
(***************************************************************************)
(* The schedules table, resources/js/components/ScheduleView.vue: reading  *)
(* the list, refreshing it by the timer, the actions of a row, the         *)
(* backfill form and the notices that follow them.                         *)
(*                                                                         *)
(* One SweetAlert2 notice is open at a time and a new one replaces it,     *)
(* which dismisses the old one.  Actions wait for their notice, so a       *)
(* notice that is replaced lets its action go on.                          *)
(***************************************************************************)
EXTENDS Integers, FiniteSets

CONSTANTS
    MaxSchedules,   \* schedules are 1..MaxSchedules, in list order
    CanFail,        \* reads and actions may fail or go unanswered
    PageSize,       \* rows of a page (50)
    MaxReads,       \* bound: list reads
    MaxWrites       \* bound: actions posted here and changes made elsewhere

ASSUME ScheduleTableAssumption ==
    /\ MaxSchedules \in Nat \ {0}
    /\ CanFail \in BOOLEAN
    /\ PageSize \in Nat \ {0}
    /\ MaxReads \in Nat
    /\ MaxWrites \in Nat

VARIABLES
    service,            \* the installation is in service mode
    appliedStatus,      \* filter of the next read
    currentPage,        \* page of the next read
    listRequest,        \* number of the newest read
    loading,            \* the spinner replaces the table
    refreshing,         \* a read is in progress behind the table
    error,              \* the error panel replaces the table
    table,              \* rows and pagination on display
    reads,              \* list reads in flight
    answer,             \* what the server answered the newest read, if it did
    pendingRowKeys,     \* rows whose buttons are disabled
    posts,              \* actions posted and not settled in the browser
    posted,             \* actions posted so far
    notice,             \* the notice or question that is open
    form,               \* the backfill form: schedule, 0 when closed
    backfillSubmitting,
    accepted,           \* actions whose acceptance the page saw
    status,             \* server: state of each schedule
    done,               \* server: actions that took effect
    changes             \* changes made outside this page so far

listing == <<appliedStatus, currentPage, listRequest, loading, refreshing, error,
             table, reads, answer>>
actions == <<pendingRowKeys, posts, posted, notice, form, backfillSubmitting, accepted>>
server == <<service, status, done, changes>>
vars == <<listing, actions, server>>

Schedules == 1..MaxSchedules

\* What a read releases once it settles: the row whose action asked for it,
\* the backfill form, or nothing.
Nothing == 0
TheForm == MaxSchedules + 1

Filters == {"", "paused"}

NoTable == [rows |-> [s \in {} |-> ""], status |-> "", current |-> 0, last |-> 0,
            matching |-> 0, seen |-> {}, read |-> 0]

NoNotice == [kind |-> "none", row |-> 0]

HasRow(s) == s \in DOMAIN table.rows

Content == ~loading /\ ~error
-----------------------------------------------------------------------------
(***************************************************************************)
(* What the server answers.                                                *)
(***************************************************************************)
Greater(m, n) == IF m > n THEN m ELSE n

Matching == {s \in Schedules : IF appliedStatus = "" THEN status[s] \in {"active", "paused"}
                                                     ELSE status[s] = appliedStatus}

PageOf(s, all) == (Cardinality({t \in all : t < s}) \div PageSize) + 1

\* A page of the list.  Embedded mode answers a page past the end with no row;
\* service mode with the last page it read.
ListAnswer ==
    LET all == Matching
        last == Greater(1, (Cardinality(all) + PageSize - 1) \div PageSize)
        page == IF service /\ currentPage > last THEN last ELSE currentPage
    IN  [rows |-> [s \in {t \in all : PageOf(t, all) = page} |-> status[s]],
         status |-> appliedStatus, current |-> page,
         last |-> IF service /\ page < last THEN page + 1 ELSE last,
         matching |-> Cardinality(all), seen |-> done, read |-> listRequest]

Answered(q) == q.id = listRequest /\ answer # NoTable
-----------------------------------------------------------------------------
Init ==
    /\ service \in BOOLEAN
    /\ appliedStatus = ""
    /\ currentPage = 1
    /\ listRequest = 0
    /\ loading = TRUE
    /\ refreshing = FALSE
    /\ error = FALSE
    /\ table = NoTable
    /\ reads = {}
    /\ answer = NoTable
    /\ pendingRowKeys = {}
    /\ posts = {}
    /\ posted = 0
    /\ notice = NoNotice
    /\ form = 0
    /\ backfillSubmitting = FALSE
    /\ accepted = {}
    /\ status \in [Schedules -> {"active", "paused", "deleted"}]
    /\ done = {}
    /\ changes = 0
-----------------------------------------------------------------------------
(***************************************************************************)
(* Reading the list.                                                       *)
(***************************************************************************)

\* loadData: number the read; rows on display stay there meanwhile.
LoadData(releases) ==
    /\ listRequest < MaxReads
    /\ listRequest' = listRequest + 1
    /\ loading' = (table.rows = NoTable.rows)
    /\ refreshing' = (table.rows # NoTable.rows)
    /\ error' = FALSE
    /\ reads' = reads \cup {[id |-> listRequest + 1, releases |-> releases]}
    /\ answer' = NoTable
    /\ UNCHANGED table

Idle == notice = NoNotice /\ form = 0

Mount ==
    /\ listRequest = 0
    /\ LoadData(Nothing)
    /\ UNCHANGED <<appliedStatus, currentPage, actions, server>>

ApplyFilters(f) ==
    /\ Idle /\ listRequest > 0
    /\ appliedStatus' = f
    /\ currentPage' = 1
    /\ LoadData(Nothing)
    /\ UNCHANGED <<actions, server>>

\* Refresh, and Retry on the error panel.
Refresh ==
    /\ Idle /\ listRequest > 0
    /\ LoadData(Nothing)
    /\ UNCHANGED <<appliedStatus, currentPage, actions, server>>

GoToPage(p) ==
    /\ Idle /\ Content
    /\ p \in 1..table.last /\ p # table.current
    /\ currentPage' = p
    /\ LoadData(Nothing)
    /\ UNCHANGED <<appliedStatus, actions, server>>

\* refreshPeriodically: neither a read in progress nor a pending row.
MayTick ==
    /\ ~loading /\ ~refreshing
    /\ pendingRowKeys = {}

\* The timer, started once the first read settled.
Tick ==
    /\ listRequest > 0
    /\ \A q \in reads : q.id # 1
    /\ MayTick
    /\ LoadData(Nothing)
    /\ UNCHANGED <<appliedStatus, currentPage, actions, server>>

\* The server answers the newest read; what it answers others is never seen.
ServerReads ==
    /\ \E q \in reads : q.id = listRequest
    /\ answer = NoTable
    /\ answer' = ListAnswer
    /\ UNCHANGED <<appliedStatus, currentPage, listRequest, loading, refreshing, error,
                   table, reads, actions, server>>

\* runRowAction and executeBackfill go on once the read they wait for settled.
Release(q) ==
    /\ pendingRowKeys' = pendingRowKeys \ {q.releases}
    /\ backfillSubmitting' = (backfillSubmitting /\ q.releases # TheForm)

BugForgetPage ==
    /\ table' = answer
    /\ UNCHANGED currentPage

\* The answered page becomes the page of the next read.
ShowAnswer ==
    /\ table' = answer
    /\ currentPage' = answer.current

Settled(q) ==
    /\ reads' = reads \ {q}
    /\ loading' = FALSE
    /\ refreshing' = FALSE
    /\ answer' = NoTable

ListArrives(q) ==
    /\ Answered(q)
    /\ ShowAnswer
    /\ Settled(q)
    /\ Release(q)
    /\ UNCHANGED <<appliedStatus, listRequest, error, posts, posted, notice, form, accepted,
                   server>>

ListFails(q) ==
    /\ CanFail
    /\ q.id = listRequest
    /\ error' = TRUE
    /\ Settled(q)
    /\ Release(q)
    /\ UNCHANGED <<appliedStatus, currentPage, listRequest, table, posts, posted, notice,
                   form, accepted, server>>

BugShowSuperseded(q) ==
    /\ q.id # listRequest
    /\ reads' = reads \ {q}
    /\ table' = [ListAnswer EXCEPT !.read = q.id]
    /\ loading' = FALSE
    /\ refreshing' = FALSE
    /\ Release(q)
    /\ UNCHANGED <<appliedStatus, currentPage, listRequest, error, answer, posts, posted,
                   notice, form, accepted, server>>

SupersededListSettles(q) ==
    /\ q.id # listRequest
    /\ reads' = reads \ {q}
    /\ Release(q)
    /\ UNCHANGED <<appliedStatus, currentPage, listRequest, loading, refreshing, error,
                   table, answer, posts, posted, notice, form, accepted, server>>

SettleList(q) == ListArrives(q) \/ ListFails(q) \/ SupersededListSettles(q)
-----------------------------------------------------------------------------
(***************************************************************************)
(* Row actions, the backfill form and their notices.                       *)
(***************************************************************************)
NoRead == UNCHANGED <<listRequest, loading, refreshing, error, table, reads, answer>>

\* What waited for notice n goes on: a trigger and a backfill read the list,
\* a failed action ends.  A question that is dismissed asks for nothing.
GoesOn(n) ==
    /\ IF n.kind \in {"triggered", "backfilled"} THEN LoadData(n.row) ELSE NoRead
    /\ pendingRowKeys' = IF n.kind = "failed" THEN pendingRowKeys \ {n.row}
                                              ELSE pendingRowKeys

\* runRowAction: disable the row's buttons and post.
RunRowAction(s, op) ==
    /\ s \notin pendingRowKeys
    /\ posted + changes < MaxWrites
    /\ posted' = posted + 1
    /\ posts' = posts \cup {[id |-> posted + 1, row |-> s, op |-> op, waiting |-> TRUE,
                             answer |-> "none"]}
    /\ pendingRowKeys' = pendingRowKeys \cup {s}

\* The buttons of row s.
Offered(s) == Idle /\ Content /\ HasRow(s) /\ s \notin pendingRowKeys

PauseSchedule(s) ==
    /\ Offered(s) /\ table.rows[s] = "active"
    /\ RunRowAction(s, "pause")
    /\ UNCHANGED <<listing, notice, form, backfillSubmitting, accepted, server>>

ResumeSchedule(s) ==
    /\ Offered(s) /\ table.rows[s] = "paused"
    /\ RunRowAction(s, "resume")
    /\ UNCHANGED <<listing, notice, form, backfillSubmitting, accepted, server>>

\* triggerNow asks first; the row may have left the table when it posts.
AskTrigger(s) ==
    /\ Offered(s)
    /\ notice' = [kind |-> "question", row |-> s]
    /\ UNCHANGED <<listing, pendingRowKeys, posts, posted, form, backfillSubmitting, accepted,
                   server>>

ConfirmTrigger ==
    /\ notice.kind = "question"
    /\ RunRowAction(notice.row, "trigger")
    /\ notice' = NoNotice
    /\ UNCHANGED <<listing, form, backfillSubmitting, accepted, server>>

DismissNotice ==
    /\ notice # NoNotice
    /\ notice' = NoNotice
    /\ GoesOn(notice)
    /\ UNCHANGED <<appliedStatus, currentPage, posts, posted, form, backfillSubmitting,
                   accepted, server>>

ShowBackfillDialog(s) ==
    /\ Offered(s)
    /\ form' = s
    /\ UNCHANGED <<listing, pendingRowKeys, posts, posted, notice, backfillSubmitting,
                   accepted, server>>

CloseBackfillDialog ==
    /\ form # 0 /\ notice = NoNotice
    /\ form' = 0
    /\ UNCHANGED <<listing, pendingRowKeys, posts, posted, notice, backfillSubmitting,
                   accepted, server>>

\* executeBackfill, with both ends of the window filled in.
ExecuteBackfill ==
    /\ form # 0 /\ notice = NoNotice
    /\ ~backfillSubmitting
    /\ posted + changes < MaxWrites
    /\ posted' = posted + 1
    /\ posts' = posts \cup {[id |-> posted + 1, row |-> form, op |-> "backfill",
                             waiting |-> TRUE, answer |-> "none"]}
    /\ backfillSubmitting' = TRUE
    /\ UNCHANGED <<listing, pendingRowKeys, notice, form, accepted, server>>

BugNoReload(p) ==
    /\ accepted' = accepted \cup {p.id}
    /\ pendingRowKeys' = pendingRowKeys \ {p.row}
    /\ NoRead
    /\ UNCHANGED <<notice, form>>

\* An accepted action reads the list; a trigger and a backfill first say what
\* came of them, and a backfill closes the form.
ActionAccepted(p) ==
    /\ accepted' = accepted \cup {p.id}
    /\ CASE p.op \in {"pause", "resume"} ->
              /\ LoadData(p.row)
              /\ UNCHANGED <<pendingRowKeys, notice, form>>
         [] p.op = "trigger" ->
              /\ notice' = [kind |-> "triggered", row |-> p.row]
              /\ GoesOn(notice)
              /\ UNCHANGED form
         [] p.op = "backfill" ->
              /\ notice' = [kind |-> "backfilled", row |-> TheForm]
              /\ GoesOn(notice)
              /\ form' = 0

ActionAnswered(p) ==
    /\ p.waiting /\ p.answer = "accepted"
    /\ posts' = posts \ {p}
    /\ ActionAccepted(p)
    /\ UNCHANGED <<appliedStatus, currentPage, posted, backfillSubmitting, server>>

\* showActionError: an error, or no answer in time; the server may still get
\* to an unanswered action.  A backfill does not wait for its notice.
ActionFailed(p) ==
    /\ p.waiting
    /\ p.answer = "failed" \/ CanFail
    /\ posts' = (posts \ {p}) \cup
                  (IF p.answer = "none" THEN {[p EXCEPT !.waiting = FALSE]} ELSE {})
    /\ notice' = [kind |-> "failed", row |-> IF p.op = "backfill" THEN Nothing ELSE p.row]
    /\ GoesOn(notice)
    /\ backfillSubmitting' = (backfillSubmitting /\ p.op # "backfill")
    /\ UNCHANGED <<appliedStatus, currentPage, posted, form, accepted, server>>
-----------------------------------------------------------------------------
(***************************************************************************)
(* The server.                                                             *)
(***************************************************************************)
Reply(p, a) ==
    posts' = (posts \ {p}) \cup (IF p.waiting THEN {[p EXCEPT !.answer = a]} ELSE {})

Applies(p) ==
    CASE p.op = "pause" -> status[p.row] = "active"
      [] p.op = "resume" -> status[p.row] = "paused"
      [] OTHER -> status[p.row] # "deleted"

\* The action takes effect, and its answer may be lost.
Perform(p) ==
    /\ p.answer = "none"
    /\ Applies(p)
    /\ done' = done \cup {p.id}
    /\ status' = [status EXCEPT ![p.row] =
                     IF p.op = "pause" THEN "paused" ELSE IF p.op = "resume" THEN "active" ELSE @]
    /\ \E a \in {"accepted"} \cup (IF CanFail THEN {"failed"} ELSE {}) : Reply(p, a)
    /\ UNCHANGED <<listing, pendingRowKeys, posted, notice, form, backfillSubmitting,
                   accepted, service, changes>>

\* The action is refused, or there is nothing to do.
Decline(p) ==
    /\ p.answer = "none"
    /\ \E a \in {"failed"} \cup
              (IF p.op \in {"trigger", "backfill"} \/ ~Applies(p) THEN {"accepted"} ELSE {}) :
            Reply(p, a)
    /\ UNCHANGED <<listing, pendingRowKeys, posted, notice, form, backfillSubmitting,
                   accepted, server>>

\* Schedules are created, paused, resumed and deleted elsewhere too.
ChangedElsewhere(s, st) ==
    /\ posted + changes < MaxWrites
    /\ changes' = changes + 1
    /\ status[s] # st
    /\ status' = [status EXCEPT ![s] = st]
    /\ UNCHANGED <<listing, actions, service, done>>
-----------------------------------------------------------------------------
Operator ==
    \/ \E f \in Filters : ApplyFilters(f)
    \/ Refresh
    \/ \E p \in Schedules : GoToPage(p)
    \/ \E s \in Schedules :
          PauseSchedule(s) \/ ResumeSchedule(s) \/ AskTrigger(s) \/ ShowBackfillDialog(s)
    \/ ConfirmTrigger
    \/ DismissNotice
    \/ CloseBackfillDialog
    \/ ExecuteBackfill

Next ==
    \/ Mount
    \/ Operator
    \/ Tick
    \/ ServerReads
    \/ \E q \in reads : SettleList(q)
    \/ \E p \in posts : ActionAnswered(p) \/ ActionFailed(p) \/ Perform(p) \/ Decline(p)
    \/ \E s \in Schedules, st \in {"active", "paused", "deleted"} : ChangedElsewhere(s, st)

SafeSpec == Init /\ [][Next]_vars
-----------------------------------------------------------------------------
\* The table, the filter form and the page that Refresh, the timer and the
\* next action read agree, also after a page past the end was answered.
TableAnswersRequest ==
    listRequest > 0 /\ ~loading /\ ~refreshing /\ ~error =>
        /\ table.status = appliedStatus
        /\ table.current = currentPage

\* Once the page settles after an accepted action, its rows were read after
\* the action took effect, whatever reads were in flight when it was posted.
AcceptedActionShown ==
    ~loading /\ ~refreshing /\ ~error /\ notice = NoNotice => accepted \cap done \subseteq table.seen

\* The steps that hold the buttons of row s disabled.
Holders(s) ==
    {<<"post", p.id>> : p \in {p \in posts : p.row = s /\ p.op # "backfill" /\ p.waiting}}
        \cup {<<"read", q.id>> : q \in {q \in reads : q.releases = s}}
        \cup {<<"notice", 0>> : n \in {n \in {notice} : n.row = s /\ n.kind \in {"triggered", "failed"}}}

\* Nothing waits in vain, and nothing is freed too early.  The page waits for
\* the list exactly while the newest read is in flight; a row's buttons are
\* disabled exactly while one action of that row is under way: in flight,
\* behind its notice or in the read that follows it.
WaitsAreOwned ==
    /\ listRequest > 0 => (loading \/ refreshing <=> \E q \in reads : q.id = listRequest)
    /\ \A s \in Schedules : Cardinality(Holders(s)) = IF s \in pendingRowKeys THEN 1 ELSE 0
=============================================================================
