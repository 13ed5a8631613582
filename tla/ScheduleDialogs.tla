-------------------------- MODULE ScheduleDialogs ---------------------------
(***************************************************************************)
(* The detail and the audit history dialogs of a schedule,                 *)
(* resources/js/components/ScheduleView.vue, with the history pages of     *)
(* V2SchedulesController.                                                  *)
(*                                                                         *)
(* A read of details is dropped unless the dialog still names the row      *)
(* object it was issued for; a read of history is never dropped.  Rows are *)
(* new objects after every read of the list.                               *)
(***************************************************************************)
EXTENDS Integers, Sequences

CONSTANTS
    Listed,         \* schedules listed
    None,           \* no schedule
    PageLimit,      \* events of a history page (100)
    MaxDialogReads, \* bound: reads of details and of history
    MaxLoads,       \* bound: reads of the list meanwhile
    MaxEvents       \* bound: events of a schedule

ASSUME ScheduleDialogsAssumption ==
    /\ None \notin Listed
    /\ PageLimit \in Nat \ {0}
    /\ MaxDialogReads \in Nat
    /\ MaxLoads \in Nat
    /\ MaxEvents \in Nat

VARIABLES
    loads,              \* reads of the list so far: identity of the rows
    issued,             \* reads of details and history so far
    showDetail,
    detailSchedule,     \* the row the dialog names
    detail,             \* the details on display
    detailLoading,
    detailError,
    detailReads,        \* reads of details in flight
    showHistory,
    historySchedule,    \* the schedule the dialog names
    historyEvents,      \* the events on display
    historyLoading,
    historyLoadingMore,
    historyError,
    historyHasMore,
    historyNextCursor,
    historyReads,       \* reads of history in flight
    overlapped,         \* for the properties: history was read during a read of history
    events              \* server: number of events of each schedule

details == <<showDetail, detailSchedule, detail, detailLoading, detailError, detailReads>>
history == <<showHistory, historySchedule, historyEvents, historyLoading, historyLoadingMore,
             historyError, historyHasMore, historyNextCursor, historyReads, overlapped>>
dialogsVars == <<loads, issued, details, history, events>>

NoRow == [schedule |-> None, load |-> 0]
NoDetail == [schedule |-> None, events |-> 0]
NoCursor == 0

Row(s) == [schedule |-> s, load |-> loads]

DialogsInit ==
    /\ loads = 0
    /\ issued = 0
    /\ showDetail = FALSE
    /\ detailSchedule = NoRow
    /\ detail = NoDetail
    /\ detailLoading = FALSE
    /\ detailError = FALSE
    /\ detailReads = {}
    /\ showHistory = FALSE
    /\ historySchedule = None
    /\ historyEvents = <<>>
    /\ historyLoading = FALSE
    /\ historyLoadingMore = FALSE
    /\ historyError = FALSE
    /\ historyHasMore = FALSE
    /\ historyNextCursor = NoCursor
    /\ historyReads = {}
    /\ overlapped = FALSE
    /\ events \in [Listed -> 0..MaxEvents]

NoDialog == ~showDetail /\ ~showHistory
-----------------------------------------------------------------------------
(***************************************************************************)
(* Details.                                                                *)
(***************************************************************************)

\* loadDetail; the server answers from what it has between then and the answer.
LoadDetail(row) ==
    /\ issued < MaxDialogReads
    /\ issued' = issued + 1
    /\ detailReads' = detailReads \cup
          {[id |-> issued + 1, row |-> row, since |-> events[row.schedule]]}
    /\ detailLoading' = TRUE
    /\ detailError' = FALSE

ShowDetailDialog(s) ==
    /\ NoDialog
    /\ showDetail' = TRUE
    /\ detailSchedule' = Row(s)
    /\ detail' = NoDetail
    /\ LoadDetail(Row(s))
    /\ UNCHANGED <<loads, history, events>>

CloseDetail ==
    /\ showDetail' = FALSE
    /\ UNCHANGED <<detailSchedule, detail, detailLoading, detailError, detailReads>>

CloseDetailDialog ==
    /\ showDetail
    /\ CloseDetail
    /\ UNCHANGED <<loads, issued, history, events>>

\* Retry on the error panel.
RetryDetail ==
    /\ showDetail /\ ~detailLoading /\ detailError
    /\ LoadDetail(detailSchedule)
    /\ UNCHANGED <<loads, showDetail, detailSchedule, detail, history, events>>

BugAnyRow(q) == TRUE

\* The dialog still names the row the read was issued for.
Named(q) == detailSchedule = q.row

DetailArrives(q) ==
    /\ detailReads' = detailReads \ {q}
    /\ \E n \in q.since..events[q.row.schedule] :
          detail' = IF Named(q) THEN [schedule |-> q.row.schedule, events |-> n] ELSE detail
    /\ detailLoading' = (detailLoading /\ ~Named(q))
    /\ UNCHANGED <<loads, issued, showDetail, detailSchedule, detailError, history, events>>

BugFailSilently(q) ==
    /\ detailReads' = detailReads \ {q}
    /\ UNCHANGED <<loads, issued, showDetail, detailSchedule, detail, detailLoading, detailError,
                   history, events>>

DetailFails(q) ==
    /\ detailReads' = detailReads \ {q}
    /\ detailError' = (detailError \/ Named(q))
    /\ detailLoading' = (detailLoading /\ ~Named(q))
    /\ UNCHANGED <<loads, issued, showDetail, detailSchedule, detail, history, events>>

SettleDetail(q) == DetailArrives(q) \/ DetailFails(q)
-----------------------------------------------------------------------------
(***************************************************************************)
(* Audit history.                                                          *)
(***************************************************************************)

\* A page: the events after a cursor, when the schedule has n of them.
Page(s, after, n) ==
    LET last == IF n > after + PageLimit THEN after + PageLimit ELSE n
    IN  [events |-> [i \in 1..(last - after) |-> [schedule |-> s, sequence |-> after + i]],
         hasMore |-> n > last,
         nextCursor |-> IF n > last THEN last ELSE NoCursor]

ReadHistory(s, after, reset) ==
    /\ issued < MaxDialogReads
    /\ overlapped' = (overlapped \/ historyReads # {})
    /\ issued' = issued + 1
    /\ historyReads' = historyReads \cup
          {[id |-> issued + 1, schedule |-> s, after |-> after, reset |-> reset,
            since |-> events[s]]}

BugReloadFromCursor(s) ==
    /\ ReadHistory(s, historyNextCursor, TRUE)
    /\ historyLoading' = TRUE
    /\ historyError' = FALSE
    /\ historyEvents' = <<>>
    /\ historyHasMore' = FALSE
    /\ historyNextCursor' = NoCursor
    /\ UNCHANGED historyLoadingMore

\* loadHistoryEvents(true).
ReloadHistory(s) ==
    /\ ReadHistory(s, NoCursor, TRUE)
    /\ historyLoading' = TRUE
    /\ historyError' = FALSE
    /\ historyEvents' = <<>>
    /\ historyHasMore' = FALSE
    /\ historyNextCursor' = NoCursor
    /\ UNCHANGED historyLoadingMore

OpenHistory(s) ==
    /\ showHistory' = TRUE
    /\ historySchedule' = s
    /\ ReloadHistory(s)

ShowHistoryDialog(s) ==
    /\ NoDialog
    /\ OpenHistory(s)
    /\ UNCHANGED <<loads, details, events>>

OpenHistoryFromDetail ==
    /\ showDetail
    /\ CloseDetail
    /\ OpenHistory(detailSchedule.schedule)
    /\ UNCHANGED <<loads, events>>

CloseHistoryDialog ==
    /\ showHistory
    /\ showHistory' = FALSE
    /\ UNCHANGED <<loads, issued, details, historySchedule, historyEvents, historyLoading,
                   historyLoadingMore, historyError, historyHasMore, historyNextCursor,
                   historyReads, overlapped, events>>

\* Retry on the error panel.
RetryHistory ==
    /\ showHistory /\ historyError
    /\ historyEvents # <<>> \/ ~historyLoading
    /\ ReloadHistory(historySchedule)
    /\ UNCHANGED <<loads, details, showHistory, historySchedule, events>>

\* The Load more button.
MayLoadMore == showHistory /\ ~historyLoadingMore /\ historyHasMore

LoadMoreHistoryEvents ==
    /\ MayLoadMore
    /\ historyLoadingMore' = TRUE
    /\ ReadHistory(historySchedule, historyNextCursor, FALSE)
    /\ UNCHANGED <<loads, details, showHistory, historySchedule, historyEvents, historyLoading,
                   historyError, historyHasMore, historyNextCursor, events>>

HistorySettled(q) ==
    /\ historyReads' = historyReads \ {q}
    /\ historyLoading' = FALSE
    /\ historyLoadingMore' = FALSE

AppendPage(q, page) ==
    /\ historyEvents' = IF q.reset THEN page.events ELSE historyEvents \o page.events
    /\ historyHasMore' = page.hasMore
    /\ historyNextCursor' = page.nextCursor

HistoryArrives(q) ==
    /\ HistorySettled(q)
    /\ \E n \in q.since..events[q.schedule] : AppendPage(q, Page(q.schedule, q.after, n))
    /\ UNCHANGED <<loads, issued, details, showHistory, historySchedule, historyError,
                   overlapped, events>>

HistoryFails(q) ==
    /\ HistorySettled(q)
    /\ historyError' = TRUE
    /\ UNCHANGED <<loads, issued, details, showHistory, historySchedule, historyEvents,
                   historyHasMore, historyNextCursor, overlapped, events>>

SettleHistory(q) == HistoryArrives(q) \/ HistoryFails(q)
-----------------------------------------------------------------------------
\* The timer or an action reads the list again: every row is a new object.
ReloadRows ==
    /\ loads < MaxLoads
    /\ loads' = loads + 1
    /\ UNCHANGED <<issued, details, history, events>>

\* A schedule fires, is paused or resumed: an event is recorded.
RecordEvent(s) ==
    /\ events[s] < MaxEvents
    /\ events' = [events EXCEPT ![s] = @ + 1]
    /\ UNCHANGED <<loads, issued, details, history>>

DialogsOperator ==
    \/ \E s \in Listed : ShowDetailDialog(s) \/ ShowHistoryDialog(s)
    \/ CloseDetailDialog
    \/ RetryDetail
    \/ OpenHistoryFromDetail
    \/ CloseHistoryDialog
    \/ RetryHistory
    \/ LoadMoreHistoryEvents

DialogsNext ==
    \/ DialogsOperator
    \/ \E q \in detailReads : SettleDetail(q)
    \/ \E q \in historyReads : SettleHistory(q)
    \/ ReloadRows
    \/ \E s \in Listed : RecordEvent(s)

DialogsSafeSpec == DialogsInit /\ [][DialogsNext]_dialogsVars

\* The browser gives every read up after its time limit.
DialogsFairness ==
    \A n \in 1..MaxDialogReads :
        /\ WF_dialogsVars(\E q \in detailReads : q.id = n /\ SettleDetail(q))
        /\ WF_dialogsVars(\E q \in historyReads : q.id = n /\ SettleHistory(q))

DialogsSpec == DialogsSafeSpec /\ DialogsFairness
-----------------------------------------------------------------------------
\* The details on display are those of the schedule the dialog names, however
\* late an earlier dialog's read is answered.
DetailOfNamedSchedule ==
    showDetail /\ detail # NoDetail => detail.schedule = detailSchedule.schedule

\* A detail dialog that waits is answered.
DetailSettles ==
    \A s \in Listed :
        showDetail /\ detailSchedule.schedule = s /\ detailLoading
            ~> ~showDetail \/ ~detailLoading

HistoryShown == showHistory /\ ~historyError /\ historyEvents # <<>>

\* The events listed are the first ones of the schedule the dialog names,
\* without a gap or a repetition, through failed pages, retries and events
\* recorded meanwhile, and "Load more" is offered while a page knew of more.
\* Only while no read of history overlaps another: no answer is dropped, so
\* after that the events of another schedule may be listed.
HistoryGapFree ==
    HistoryShown /\ ~overlapped =>
        /\ \A i \in DOMAIN historyEvents :
              historyEvents[i] = [schedule |-> historySchedule, sequence |-> i]
        /\ historyHasMore => historyNextCursor = Len(historyEvents)
=============================================================================
