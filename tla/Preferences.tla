---------------------------- MODULE Preferences ----------------------------
(***************************************************************************)
(* An operator's preferences for one screen: the document the server       *)
(* keeps (UserPreferencesController), what the screen read of it and what  *)
(* it shows, with the values of the address on top.  The screens read and  *)
(* save it the same way and differ in when:                                *)
(*   "runDetail"     reads on every route change, saves the tab;           *)
(*   "workflowList"  reads on every route change, saves the view options   *)
(*                   and, without waiting for a save, the saved view;      *)
(*   "table"         the schedules and workers lists: reads once, saves    *)
(*                   the view options.                                     *)
(* Sort direction, density and columns are saved together: one key,        *)
(* "options".  A value of 0 is a key that is not set.                      *)
(***************************************************************************)
EXTENDS Naturals, FiniteSets

CONSTANTS
    MaxOptions,   \* the sets of view options, and the saved views, are 1..MaxOptions
    MaxRequests   \* bound: the reads and writes of a behaviour

ASSUME PreferencesAssumption ==
    /\ MaxOptions \in Nat /\ MaxRequests \in Nat

VARIABLES
    screen,   \* one of the three kinds
    stored,   \* the row of the operator and the screen
    address,  \* the keys of the route's query
    due,      \* route changes whose reads have not been sent
    known,    \* operatorPreferences: the document a save starts from
    shown,    \* effectiveOperatorPreferences
    saving,   \* savingOperatorPreferences
    gets,     \* the reads in flight
    writes,   \* the writes in flight, and those given up on
    sent,     \* reads and writes sent so far
    last,     \* for the properties: what the operator saved last, by key
    hurried,    \* for the properties: the operator went on with a request in flight
    failed    \* for the properties: a request has failed

preferencesVars == <<screen, stored, address, due, known, shown, saving, gets, writes, sent, last,
                     hurried, failed>>

Screens == {"runDetail", "workflowList", "table"}

Keys == CASE screen = "runDetail" -> {"tab"}
          [] screen = "workflowList" -> {"view", "options"}
          [] screen = "table" -> {"options"}

\* The tabs are the timeline and the events.
Values == 1..(IF screen = "runDetail" THEN 2 ELSE MaxOptions)
Documents == [Keys -> {0} \cup Values]
Nothing == [k \in Keys |-> 0]

\* The values of p where it has one, those of d elsewhere.
Over(d, p) == [k \in Keys |-> IF p[k] # 0 THEN p[k] ELSE d[k]]

PreferencesInit ==
    /\ screen \in Screens
    /\ stored \in Documents
    /\ address \in Documents
    /\ due = 1
    /\ known = Nothing /\ shown = Nothing
    /\ saving = FALSE
    /\ gets = {} /\ writes = {} /\ sent = 0
    /\ last = stored
    /\ hurried = FALSE /\ failed = FALSE

Waited == {w \in writes : w.waited}
AllAnswered == due = 0 /\ gets = {} /\ Waited = {}

\* An operator's step: it may come while a request is in flight.
Goes == hurried' = (hurried \/ ~AllAnswered)
-----------------------------------------------------------------------------
\* On mount, and on a route change of the screens that watch the route.
SendRead ==
    /\ due > 0 /\ sent < MaxRequests
    /\ due' = due - 1
    /\ sent' = sent + 1
    /\ gets' = gets \cup {[id |-> sent + 1, over |-> address, got |-> Nothing,
                           handled |-> FALSE]}
    /\ UNCHANGED <<stored, address, known, shown, saving, writes, last,
                   screen, hurried, failed>>

HandleRead(q) ==
    /\ ~q.handled
    /\ gets' = (gets \ {q}) \cup {[q EXCEPT !.handled = TRUE, !.got = stored]}
    /\ UNCHANGED <<stored, address, due, known, shown, saving, writes, sent, last,
                   screen, hurried, failed>>

\* effective_preferences: the request's query over the stored document.
Effective(d, over) == Over(d, over)

ReadArrives(q) ==
    /\ q.handled
    /\ gets' = gets \ {q}
    /\ known' = q.got
    /\ shown' = Effective(q.got, q.over)
    /\ UNCHANGED <<stored, address, due, saving, writes, sent, last,
                   screen, hurried, failed>>

ReadFails(q) ==
    /\ failed' = TRUE
    /\ gets' = gets \ {q}
    /\ known' = Nothing
    /\ shown' = Nothing
    /\ UNCHANGED <<stored, address, due, saving, writes, sent, last, screen,
                   hurried>>
-----------------------------------------------------------------------------
\* The whole document is written: what the screen knows of it, with the new
\* value of one key.
Persist(k, x) ==
    /\ sent < MaxRequests
    /\ sent' = sent + 1
    /\ saving' = TRUE
    /\ writes' = writes \cup {[id |-> sent + 1, doc |-> [known EXCEPT ![k] = x],
                               handled |-> FALSE, waited |-> TRUE]}
    /\ last' = [last EXCEPT ![k] = x]

\* The tab buttons and View Options are disabled while a save is in flight.
Enabled == ~saving

BugPersistOnly(t) ==
    /\ Persist("tab", t)
    /\ UNCHANGED <<address, due>>

\* A tab that the address names otherwise is put into the address; any other
\* is saved.
PickTab(t) ==
    \/ /\ address["tab"] \notin {0, t}
       /\ address' = [address EXCEPT !["tab"] = t]
       /\ due' = due + 1
       /\ UNCHANGED <<saving, writes, sent, last>>
    \/ /\ address["tab"] \in {0, t}
       /\ Persist("tab", t)
       /\ UNCHANGED <<address, due>>

SetTab(t) ==
    /\ screen = "runDetail" /\ Goes /\ Enabled /\ due < MaxRequests
    /\ PickTab(t)
    /\ UNCHANGED <<stored, known, shown, gets, screen, failed>>

\* The selected view goes to the address, which makes the screen read again,
\* and to the server.
SelectView(v) ==
    /\ screen = "workflowList" /\ Goes /\ due < MaxRequests
    /\ v # address["view"]
    /\ address' = [address EXCEPT !["view"] = v]
    /\ due' = due + 1
    /\ Persist("view", v)
    /\ UNCHANGED <<stored, known, shown, gets, screen, failed>>

SaveOptions(x) ==
    /\ screen # "runDetail" /\ Goes /\ Enabled
    /\ Persist("options", x)
    /\ UNCHANGED <<stored, address, due, known, shown, gets, screen, failed>>

\* Another address of the same screen: a link, or Back.
GoTo(a) ==
    /\ screen # "table" /\ Goes /\ due < MaxRequests /\ a # address
    /\ address' = a
    /\ due' = due + 1
    /\ UNCHANGED <<stored, known, shown, saving, gets, writes, sent, last,
                   screen, failed>>

\* updateOrCreate: the last write to reach the server stays.
HandleWrite(w) ==
    /\ ~w.handled
    /\ stored' = w.doc
    /\ writes' = (writes \ {w}) \cup
                     (IF w.waited THEN {[w EXCEPT !.handled = TRUE]} ELSE {})
    /\ UNCHANGED <<address, due, known, shown, saving, gets, sent, last, screen, hurried, failed>>

BugSavingStays(w) == saving

\* finally: the screen no longer saves, whichever write ended.
SavingAfter(w) == FALSE

\* The answer to a write has no query, so no value of an address.
WriteArrives(w) ==
    /\ w.handled
    /\ writes' = writes \ {w}
    /\ known' = w.doc
    /\ shown' = w.doc
    /\ saving' = SavingAfter(w)
    /\ UNCHANGED <<stored, address, due, gets, sent, last, screen, hurried, failed>>

\* The browser gives up, or the answer is lost: the server may yet write.
WriteFails(w) ==
    /\ w.waited
    /\ failed' = TRUE
    /\ saving' = SavingAfter(w)
    /\ writes' = (writes \ {w}) \cup
                     (IF w.handled THEN {} ELSE {[w EXCEPT !.waited = FALSE]})
    /\ UNCHANGED <<stored, address, due, known, shown, gets, sent, last, screen,
                   hurried>>

PreferencesNext ==
    \/ SendRead
    \/ \E q \in gets : HandleRead(q) \/ ReadArrives(q) \/ ReadFails(q)
    \/ \E t \in Values : SetTab(t) \/ SaveOptions(t)
    \/ \E v \in {0} \cup Values : SelectView(v)
    \/ \E a \in Documents : GoTo(a)
    \/ \E w \in writes : HandleWrite(w) \/ WriteArrives(w) \/ WriteFails(w)

PreferencesSafeSpec == PreferencesInit /\ [][PreferencesNext]_preferencesVars

\* The browser ends every request within its budget, answered or not.
EndsWrite(n) ==
    \E w \in writes :
        w.id = n /\ w.waited /\ (HandleWrite(w) \/ WriteArrives(w) \/ WriteFails(w))
PreferencesFairness == \A n \in 1..MaxRequests : WF_preferencesVars(EndsWrite(n))

PreferencesSpec == PreferencesSafeSpec /\ PreferencesFairness
-----------------------------------------------------------------------------
\* Disabled buttons have a save in flight that will enable them again.  Where
\* only the buttons save, a save in flight also keeps them disabled, so no two
\* saves overlap; selecting a view saves without them.
SavingIsOwned ==
    /\ saving => Waited # {}
    /\ screen # "workflowList" => (Waited # {} => saving) /\ Cardinality(Waited) <= 1

\* What is stored when no save is in flight is what the operator saved last, as
\* long as no request failed: where only the buttons save, the clicks reach the
\* server in their order.  On the workflow list this is so of the options, for
\* an operator who waits; a read that was answered before the save of a view
\* and arrives after it makes the next save of options bring the old view back.
LastSaveStored ==
    ~failed /\ writes = {} =>
        /\ screen # "workflowList" => stored = last
        /\ screen = "workflowList" /\ ~hurried => stored["options"] = last["options"]

\* When nothing is in flight, for an operator who waits and while no request
\* fails: the run detail screen shows what is stored with the address on top,
\* so that a reload would change nothing.  The workflow list shows the options
\* that are stored or those of the address: the read and the save that follow
\* the choice of a view are answered in either order.
ShownIsStored ==
    ~hurried /\ ~failed /\ AllAnswered =>
        /\ screen = "runDetail" => shown = Over(stored, address)
        /\ screen = "workflowList" => shown["options"] \in {stored["options"], address["options"]}

\* The operator finds again what was chosen: in the store and on the screen,
\* which takes no other choice while one is on its way.
ChoicesAreKept == SavingIsOwned /\ LastSaveStored /\ ShownIsStored

\* A save ends, and the buttons are enabled again.
SaveSettles == saving ~> ~saving
=============================================================================
