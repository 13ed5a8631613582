---------------------------- MODULE RunTimeline -----------------------------
(***************************************************************************)
(* The history card of the run detail screen and what leads to it: the     *)
(* failure summary and its links, the fragment of the address that the     *)
(* screen follows while the page still settles, the highlighted event, and *)
(* the links of the timeline (flow.vue: scrollToRouteHash, setRunDetailTab,*)
(* focusFailureEvent, navigateToChild; failure-summary.mjs).               *)
(*                                                                         *)
(* RunDetail says which answer is on display and how pages are merged; an  *)
(* answer here is a window of the history and what it says of failures.    *)
(***************************************************************************)
EXTENDS Naturals, FiniteSets

CONSTANTS
    Steps,          \* runs
    Children,       \* the runs that the timelines name as children
    Sections,       \* cards of the page an address can name
    NoAnchor,
    EventOf,        \* the event of a run that each failure is recorded by
    Inputs,         \* ways the operator moves about
    MaxSequence,    \* bound: events of a run
    MaxOpenings     \* bound: reads of runs

Failures == DOMAIN EventOf
Sequences == 1..MaxSequence
None == 0

ASSUME RunTimelineAssumption ==
    /\ MaxSequence \in Nat /\ MaxOpenings \in Nat
    /\ NoAnchor \notin Sections /\ Sections \cap Nat = {} /\ NoAnchor \notin Nat
    /\ \A f \in Failures : EventOf[f].run \in Steps /\ EventOf[f].sequence \in Sequences

VARIABLES
    place,      \* $route: what it selects, the window, the tab, the fragment
    timeline,   \* this.flow: its run, rows and failures
    display,    \* "reading", "ready", "missing" (a read answered 404) or "error"
    tab,        \* effectiveRunDetailPreferences.tab
    focused,    \* focusedHistorySequence
    request,    \* routeHashScrollRequest
    follows,    \* calls of scrollToRouteHash that have not returned
    scrolled,   \* who moved the page last: nobody yet, the screen, the operator
    sought,     \* the run behind the link the operator used last
    openings

timelineVars ==
    <<place, timeline, display, tab, focused, request, follows, scrolled, sought, openings>>

Places ==
    [kind : {"run", "instance"}, id : Steps \cup Children, window : {None} \cup Sequences,
     tab : {"unset", "timeline", "events"}, anchor : {NoAnchor} \cup Sections \cup Sequences]

\* canonicalRoute: a run under its instance, or the current run of an instance.
CanonicalPlace(kind, id) ==
    [kind |-> kind, id |-> id, window |-> None, tab |-> "unset", anchor |-> NoAnchor]

\* recent: the answer is a bounded view or a standalone server's.  retained:
\* its failures that come with a reference to their event.
NoTimeline == [run |-> None, rows |-> {}, recent |-> FALSE, retained |-> {},
               pruned |-> FALSE, cards |-> {}]

TimelineInit ==
    /\ \E r \in Steps, a \in {NoAnchor} \cup Sections \cup Sequences :
          place = [CanonicalPlace("run", r) EXCEPT !.anchor = a]
    /\ timeline = NoTimeline
    /\ display = "reading"
    /\ tab = "timeline"
    /\ focused = None
    /\ request = 1
    /\ follows = {}
    /\ scrolled = "nobody"
    /\ sought = place.id
    /\ openings = 1
-----------------------------------------------------------------------------
\* handleRouteChange: what was followed is not current any more.
GoTo(p) ==
    /\ openings < MaxOpenings
    /\ openings' = openings + 1
    /\ place' = p
    /\ request' = request + 1
    /\ focused' = None
    /\ display' = "reading"
    /\ UNCHANGED <<timeline, tab, follows>>

FailuresOf(d) == {f \in Failures : EventOf[f].run = d.run}

\* The answers to a read: a window of the history, whole or pruned.
Answers(p) ==
    {[run |-> p.id, rows |-> w, recent |-> b, retained |-> g, pruned |-> w = {}, cards |-> c] :
        w \in IF p.window = None THEN {lo..hi : lo, hi \in Sequences} \cup {{}}
                                 ELSE {{}, {p.window}},
        b \in BOOLEAN, g \in SUBSET Failures, c \in {{}, Sections}}

BugHighlightOnClick(d) == focused

\* scrollToRouteHash highlights the event of the fragment, if the window has it.
Highlighted(d) ==
    IF place.anchor \in Sequences /\ place.anchor \in d.rows THEN place.anchor ELSE focused

\* fetchFlow answered, and scrollToRouteHash called.
TimelineArrives ==
    /\ display = "reading" /\ place.kind = "run"
    /\ \E d \in Answers(place) :
          /\ d.retained # {} => d.recent /\ ~d.pruned /\ d.retained \subseteq FailuresOf(d)
          /\ timeline' = d
          /\ focused' = Highlighted(d)
    /\ display' = "ready"
    /\ scrolled' = "nobody"
    /\ IF place.anchor = NoAnchor
         THEN UNCHANGED <<request, follows>>
         ELSE /\ request' = request + 1
              /\ follows' = follows \cup {[request |-> request + 1, place |-> place,
                                           interrupted |-> FALSE]}
    /\ UNCHANGED <<place, tab, sought, openings>>

\* fetchFlow failed; no instance has the id of a run, so an address that takes
\* one for the other finds nothing.
TimelineFails ==
    /\ display = "reading"
    /\ display' = IF place.kind = "run" THEN "error" ELSE "missing"
    /\ UNCHANGED <<place, timeline, tab, focused, request, follows, scrolled, sought, openings>>

\* Retry, Inspect full details, Load older: the address stays, and so does the
\* highlighted event.
ReadAnew ==
    /\ display # "reading"
    /\ openings < MaxOpenings
    /\ openings' = openings + 1
    /\ display' = "reading"
    /\ UNCHANGED <<place, timeline, tab, focused, request, follows, scrolled, sought>>

\* runDetailTab: a highlighted event is in the event list.
RunDetailTab == IF focused # None \/ tab = "events" THEN "events" ELSE "timeline"

\* The element that a fragment names.
Present(anchor) ==
    /\ display = "ready"
    /\ \/ anchor \in timeline.cards
       \/ anchor \in timeline.rows /\ RunDetailTab = "events"
-----------------------------------------------------------------------------
(***************************************************************************)
(* The fragment is followed for two seconds, or until the page rests.      *)
(***************************************************************************)
\* routeHashScrollIsCurrent.
RouteHashScrollIsCurrent(a) == a.request = request /\ a.place = place

\* A frame of the browser: the target is put below the top bar again, or
\* found to rest there, or the screen gives up.
Frame(a) ==
    /\ \/ /\ ~a.interrupted /\ RouteHashScrollIsCurrent(a) /\ Present(a.place.anchor)
          /\ scrolled' = "screen"
          /\ follows' \in {follows, follows \ {a}}
       \/ /\ a.interrupted \/ ~RouteHashScrollIsCurrent(a) \/ ~Present(a.place.anchor)
          /\ follows' = follows \ {a}
          /\ UNCHANGED scrolled
    /\ UNCHANGED <<place, timeline, display, tab, focused, request, sought, openings>>

BugWheelOnly(input) == input = "wheel"

\* The inputs that interrupt: wheel, touch, pointer, and these keys.
Interrupts(input) == input \in {"wheel", "touch", "pointer", "arrow", "page", "space"}

Interrupted(input) ==
    {[a EXCEPT !.interrupted = @ \/ Interrupts(input)] : a \in follows}

\* The operator scrolls, or moves the focus to another part of the page.
MoveAbout(input) ==
    /\ display = "ready"
    /\ scrolled' = "operator"
    /\ follows' = Interrupted(input)
    /\ UNCHANGED <<place, timeline, display, tab, focused, request, sought, openings>>
-----------------------------------------------------------------------------
(***************************************************************************)
(* Controls of the cards.                                                  *)
(***************************************************************************)

\* failureSummary: the event a failure's row links to, if any, whether that
\* takes a window of its own, and what is said of the evidence otherwise.
FailureSummary(d) ==
    [f \in FailuresOf(d) |->
        LET loaded == EventOf[f].sequence \in d.rows
            reference == f \in d.retained
        IN  [sequence |-> IF loaded \/ reference THEN EventOf[f].sequence ELSE None,
             window |-> reference,
             evidence |-> IF loaded THEN "available"
                          ELSE IF d.pruned THEN "pruned"
                          ELSE IF reference \/ d.rows # Sequences THEN "outside_window"
                          ELSE "unavailable"]]

\* failureEventLocation, of a failure that comes with a reference.
FailureEventLocation(f) ==
    [CanonicalPlace("run", timeline.run) EXCEPT !.window = EventOf[f].sequence,
                                                !.anchor = EventOf[f].sequence]

\* focusFailureEvent: another window is opened, an event of this one is shown.
\* The link is used by pointer or by the Enter key.
FocusFailureEvent(f, input) ==
    LET row == FailureSummary(timeline)[f]
    IN  /\ display = "ready"
        /\ row.sequence # None
        /\ sought' = timeline.run
        /\ IF row.window /\ FailureEventLocation(f) # place
             THEN GoTo(FailureEventLocation(f)) /\ UNCHANGED scrolled
             ELSE /\ IF row.sequence \in timeline.rows
                       THEN focused' = row.sequence /\ scrolled' = "operator"
                       ELSE UNCHANGED <<focused, scrolled>>
                  /\ follows' = Interrupted(input)
                  /\ UNCHANGED <<place, timeline, display, tab, request, openings>>

\* setRunDetailTab: an address that names a tab is replaced, else the choice is
\* put to the preferences, whose answer TabArrives has.
SetRunDetailTab(t, input) ==
    /\ display = "ready" /\ timeline.rows # {}
    /\ IF place.tab \notin {"unset", t}
         THEN /\ GoTo([place EXCEPT !.tab = t, !.anchor = NoAnchor])
              /\ UNCHANGED <<scrolled, sought>>
         ELSE /\ focused' = None
              /\ follows' = Interrupted(input)
              /\ UNCHANGED <<place, timeline, display, tab, request, scrolled, sought, openings>>

\* The run-detail preferences were read or saved.
TabArrives(t) ==
    /\ t # tab
    /\ tab' = t
    /\ UNCHANGED <<place, timeline, display, focused, request, follows, scrolled, sought,
                   openings>>

\* A link of the app, Back or Forward.  Only failures link to a window.
FollowLink(p) ==
    /\ p # place /\ p.kind = "run" /\ p.id \in Steps
    /\ p.window \in {None, p.anchor}
    /\ sought' = p.id
    /\ GoTo(p)
    /\ UNCHANGED scrolled

\* navigateToChild: the timeline names the run of a child, and the address it
\* opens is that of an instance.
NavigateToChild(c) ==
    /\ display = "ready" /\ timeline.rows # {} /\ RunDetailTab = "timeline"
    /\ sought' = c
    /\ GoTo(CanonicalPlace("instance", c))
    /\ UNCHANGED scrolled
-----------------------------------------------------------------------------
TimelineNext ==
    \/ TimelineArrives \/ TimelineFails \/ ReadAnew
    \/ \E a \in follows : Frame(a)
    \/ \E i \in Inputs : MoveAbout(i)
    \/ \E f \in FailuresOf(timeline), i \in Inputs : FocusFailureEvent(f, i)
    \/ \E t \in {"timeline", "events"}, i \in Inputs : SetRunDetailTab(t, i)
    \/ \E t \in {"timeline", "events"} : TabArrives(t)
    \/ \E p \in Places : FollowLink(p)
    \/ \E c \in Children : NavigateToChild(c)

TimelineSafeSpec == TimelineInit /\ [][TimelineNext]_timelineVars
-----------------------------------------------------------------------------
\* Once the operator moved the page, the screen leaves it where it is until
\* another answer is on display, whatever fragments are still followed.
OperatorKeepsPage == [][scrolled = "operator" => scrolled' # "screen"]_timelineVars

Rests(a) ==
    /\ a.place.anchor \in Sequences
    /\ ~a.interrupted /\ RouteHashScrollIsCurrent(a) /\ Present(a.place.anchor)

\* A link to an event that comes to rest rests on the highlighted row of that
\* event, in the run that was asked for.
LinkEndsAtRow ==
    [][\A a \in follows \ follows' :
          Rests(a) => focused = a.place.anchor /\ timeline.run = sought]_timelineVars

\* The link of a child in the timeline leads to the child, never to a page that
\* says there is no such workflow.
ChildLinkFindsChild == sought \in Children => display # "missing"
=============================================================================
