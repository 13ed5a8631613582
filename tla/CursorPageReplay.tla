-------------------------- MODULE CursorPageReplay --------------------------
(***************************************************************************)
(* How service mode shows page N of a list: the standalone server hands    *)
(* out one opaque next-page token per page, so one request replays pages 1 *)
(* to N, bounded in calls and in time (CursorPageReplay::requestedPage,    *)
(* replay and budgetMilliseconds, and the two list controllers that answer *)
(* from it).                                                               *)
(*                                                                         *)
(* Time is the monotonic clock, read from the start of the request.  It    *)
(* advances during the server's calls; the few instructions between two    *)
(* calls count as part of the call they follow.                            *)
(***************************************************************************)
EXTENDS Integers

CONSTANTS
    MaxPage,         \* MAX_PAGE
    ResponseMargin,  \* RESPONSE_MARGIN_MS
    Browsers,        \* the browser budgets an installation may configure
    MaxCall,         \* the longest call: the SDK's own time limit
    MaxAsked         \* bound: the largest page asked for

ASSUME MaxPageAssumption == MaxPage \in Nat \ {0}
ASSUME ResponseMarginAssumption == ResponseMargin \in Nat
ASSUME BrowsersAssumption == Browsers \subseteq Nat \ {0}
ASSUME MaxCallAssumption == MaxCall \in Nat
ASSUME MaxAskedAssumption == MaxAsked \in Nat

VARIABLES
    phase,    \* "idle", "looping", "calling" the server, or "answered"
    query,    \* the page asked for; 0 stands for every value that is no
              \* positive whole number
    browser,  \* the browser's budget
    asked,    \* $requestedPage
    current,  \* $current
    token,    \* $token: the page it leads to, 0 for null
    read,     \* the page $page holds
    calls,    \* calls made for this request, the failed one included
    elapsed,  \* time since the request started
    answer    \* the response

vars == <<phase, query, browser, asked, current, token, read, calls, elapsed, answer>>

Refusal(status) ==
    [status |-> status, page |-> 0, current |-> 0, last |-> 0,
     more |-> FALSE, limited |-> FALSE]

Init ==
    /\ phase = "idle"
    /\ query = 0 /\ asked = 0 /\ current = 0 /\ token = 0 /\ read = 0
    /\ calls = 0 /\ elapsed = 0
    /\ browser \in Browsers
    /\ answer = Refusal(0)
-----------------------------------------------------------------------------
\* requestedPage: the pages that are not refused before any call.
Accepted(p) == p \in 1..MaxPage

\* replay's own bound on the page, whoever calls it.
Bounded(p) == IF p < 1 THEN 1 ELSE IF p > MaxPage THEN MaxPage ELSE p

BugWholeBudget(b) == b

\* The time in which calls may start: the browser's budget less a margin,
\* and never less than half of it.
BudgetMilliseconds(b) ==
    IF b \div 2 > b - ResponseMargin THEN b \div 2 ELSE b - ResponseMargin

Ask(p) ==
    /\ phase \in {"idle", "answered"}
    /\ query' = p
    /\ asked' = Bounded(p)
    /\ current' = 0 /\ token' = 0 /\ read' = 0 /\ calls' = 0 /\ elapsed' = 0
    /\ browser' = browser
    /\ \/ /\ Accepted(p)
          /\ phase' = "looping"
          /\ answer' = Refusal(0)
       \/ /\ ~Accepted(p)
          /\ phase' = "answered"
          /\ answer' = Refusal(422)

\* Another page is wanted, and the last one led to it.
Continues == current < asked /\ (current > 0 => token # 0)

\* No call starts once the budget has elapsed, save the first.
Expired == current > 0 /\ elapsed >= BudgetMilliseconds(browser)

OutOfTime ==
    /\ phase = "looping" /\ Continues /\ Expired
    /\ phase' = "answered"
    /\ answer' = Refusal(504)
    /\ UNCHANGED <<query, browser, asked, current, token, read, calls, elapsed>>

Fetch ==
    /\ phase = "looping" /\ Continues /\ ~Expired
    /\ phase' = "calling"
    /\ calls' = calls + 1
    /\ UNCHANGED <<query, browser, asked, current, token, read, elapsed, answer>>

\* The page a call with a token returns: the server starts from the first
\* page when it gets none.
PageOf(t) == IF t = 0 THEN 1 ELSE t

\* The call returns a page, with or without a token for the page after it:
\* runs and schedules come and go while the pages are read.
CallReturns(d, more) ==
    /\ phase = "calling"
    /\ elapsed' = elapsed + d
    /\ current' = current + 1
    /\ read' = PageOf(token)
    /\ token' = IF more THEN PageOf(token) + 1 ELSE 0
    /\ phase' = "looping"
    /\ UNCHANGED <<query, browser, asked, calls, answer>>

\* The SDK throws: the request ends with the backend's error.
CallFails(d) ==
    /\ phase = "calling"
    /\ elapsed' = elapsed + d
    /\ phase' = "answered"
    /\ answer' = Refusal(502)
    /\ UNCHANGED <<query, browser, asked, current, token, read, calls>>

PageLimitReached == token # 0 /\ current >= MaxPage
BugTokenMeansMore == token # 0
HasMore == token # 0 /\ ~PageLimitReached

\* The list controllers: last_page is one past a page that has a next one.
Answer ==
    /\ phase = "looping" /\ ~Continues
    /\ phase' = "answered"
    /\ answer' = [status |-> 200, page |-> read, current |-> current,
                  last |-> IF HasMore THEN current + 1 ELSE current,
                  more |-> token # 0, limited |-> PageLimitReached]
    /\ UNCHANGED <<query, browser, asked, current, token, read, calls, elapsed>>

Next ==
    \/ \E p \in 0..MaxAsked : Ask(p)
    \/ OutOfTime
    \/ Fetch
    \/ \E d \in 0..MaxCall, more \in BOOLEAN : CallReturns(d, more)
    \/ \E d \in 0..MaxCall : CallFails(d)
    \/ Answer

Spec == Init /\ [][Next]_vars
-----------------------------------------------------------------------------
\* The variables have the values one request gives them.
TypeOK ==
    /\ phase \in {"idle", "looping", "calling", "answered"}
    /\ query \in Nat /\ asked \in 0..MaxPage /\ current \in 0..MaxPage
    /\ token \in 0..(MaxPage + 1) /\ read \in 0..MaxPage
    /\ calls \in Nat /\ elapsed \in Nat
    /\ browser \in Browsers
    /\ answer \in [status : {0, 200, 422, 502, 504}, page : Nat, current : Nat,
                   last : Nat, more : BOOLEAN, limited : BOOLEAN]

\* SERVICE_MODE.md: one list request reads at most MAX_PAGE pages, and a page
\* that is out of range is refused before the server is called.
CallsBounded ==
    /\ calls <= MaxPage
    /\ phase = "answered" /\ query \notin 1..MaxPage
           => answer.status = 422 /\ calls = 0

\* SERVICE_MODE.md: whatever calls take, only the call in flight runs past
\* the replay's budget, and the answer reaches the browser before it gives up
\* when no call outlasts the margin, or half of a shorter browser budget.
AnsweredInTime ==
    /\ elapsed <= BudgetMilliseconds(browser) + MaxCall
    /\ MaxCall <= ResponseMargin /\ 2 * MaxCall <= browser => elapsed <= browser

\* The rows answered are those of the page the answer names: the one asked
\* for, or the last one there is, and then no further page is offered (replay,
\* whose list may shrink between two of its calls).
PageIsTheOneRead ==
    answer.status = 200 =>
        /\ answer.page = answer.current
        /\ answer.current \in 1..query
        /\ answer.current < query => answer.last = answer.current /\ ~answer.limited

\* What Next may ask for is accepted, and rows beyond the answer are either
\* offered by Next or reported as beyond the limit: no list with more rows
\* passes for complete.
MoreIsTold ==
    answer.status = 200 =>
        /\ Accepted(answer.last)
        /\ answer.more <=> answer.last > answer.current \/ answer.limited

\* The answer tells where it stands in the list: which page its rows are, and
\* whether there is more.
AnswerTellsItsPlace == PageIsTheOneRead /\ MoreIsTold
=============================================================================
