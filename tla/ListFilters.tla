---------------------------- MODULE ListFilters ----------------------------
(***************************************************************************)
(* The filters of a workflow list: those in the address, those of the      *)
(* saved view the address names, what the API applies of both, what the    *)
(* filter editor starts from and writes back, and what saving or updating  *)
(* a view stores (flows/index.vue from currentFilterPayload to             *)
(* saveCurrentView, V2VisibilityFilterContext, VisibilityFilterContract    *)
(* and SavedWorkflowView).                                                 *)
(*                                                                         *)
(* One bucket, one operator.  Which of several reads is the newest and how *)
(* chains of route changes overlap is WorkflowList's business; here the    *)
(* newest read and one chain are kept, and the view selected is the one of *)
(* the address (WorkflowList!ScreenMatchesAddress).                        *)
(***************************************************************************)
EXTENDS Naturals, FiniteSets

CONSTANTS
    Types,        \* values of a plain field, say the workflow type
    Windows,      \* rolling start-time windows, in seconds
    Unset,        \* no value
    AnyTime,      \* the window that excludes nothing
    Labels,       \* label filters, each with one value
    Attributes,   \* search attribute filters, each with one value
    SavedIds,     \* ids of saved views
    NoId,
    Links,        \* what links and history entries can hold: an address
    Stores,       \* the views there may be at the start
    MaxChanges    \* bound: route changes, saves and edits elsewhere

Filters == [type : Types \cup {Unset}, window : Windows \cup {AnyTime, Unset},
            labels : SUBSET Labels, attributes : SUBSET Attributes]

Addresses == [own : Filters, view : SavedIds \cup {NoId}]

\* Saved views by their ids: their filters, and whether this release applies them.
IsStore(store) ==
    /\ DOMAIN store \subseteq SavedIds
    /\ \A v \in DOMAIN store : store[v] \in [filters : Filters, supported : BOOLEAN]

ASSUME ListFiltersAssumption ==
    /\ Windows \subseteq Nat \ {0}
    /\ Unset \notin Types \cup Windows /\ AnyTime \notin Windows \cup {Unset}
    /\ NoId \notin SavedIds
    /\ MaxChanges \in Nat
    /\ Links \subseteq Addresses
    /\ \A store \in Stores : IsStore(store)

VARIABLES
    query,      \* the address: its own filters, and a view
    recorded,   \* server: the saved views
    offered,    \* savedViews: the views the screen has read
    savedViewsEnabled,
    contract,   \* filterDefinition: which fields there are is known
    applied,    \* visibilityFilters: what the list on display applies
    behind,     \* the route changed and its reads are to be sent
    awaited,    \* the newest read of the list, until it settles
    editor,     \* the filter editor
    posting,    \* a view on its way to the server
    changes     \* how much of MaxChanges is used

offering == <<offered, savedViewsEnabled, contract>>
listFiltersVars == <<query, recorded, offering, applied, behind, awaited, editor, posting, changes>>

NoFilters == [type |-> Unset, window |-> Unset, labels |-> {}, attributes |-> {}]

NoAnswerYet == [known |-> FALSE]
NoListRead == [waiting |-> FALSE]
NoEditor == [open |-> FALSE]
NoPost == [kind |-> "none"]
-----------------------------------------------------------------------------
(***************************************************************************)
(* Several filters at once.                                                *)
(***************************************************************************)
BugAnyIsUnset(base, over) ==
    [type |-> IF over.type # Unset THEN over.type ELSE base.type,
     window |-> IF over.window \notin {Unset, AnyTime} THEN over.window ELSE base.window,
     labels |-> base.labels \cup over.labels,
     attributes |-> base.attributes \cup over.attributes]

\* merge: the later filters win, field by field; the parts of a start-time
\* window are one field, and its "any" is a value like another.
Merge(base, over) ==
    [type |-> IF over.type # Unset THEN over.type ELSE base.type,
     window |-> IF over.window # Unset THEN over.window ELSE base.window,
     labels |-> base.labels \cup over.labels,
     attributes |-> base.attributes \cup over.attributes]

\* mergeFilterPayloads: the browser's, which replaces the search attributes
\* as a whole.
MergeFilterPayloads(base, over) ==
    [Merge(base, over) EXCEPT !.attributes =
        IF over.attributes # {} THEN over.attributes ELSE base.attributes]

\* V2VisibilityFilterContext: what the API applies for an address.
Applies(q) ==
    IF q.view # NoId /\ recorded[q.view].supported
      THEN Merge(recorded[q.view].filters, q.own)
      ELSE q.own

\* Two filters with which the same runs are listed.
Lists(f) == [f EXCEPT !.window = IF @ = AnyTime THEN Unset ELSE @]

\* The view of the address, where the selector has it.
SelectedCustomView == IF query.view \in DOMAIN offered THEN query.view ELSE NoId

SavedViewVersionSupported == SelectedCustomView # NoId => offered[SelectedCustomView].supported

BugRequestOnly == query.own

\* effectiveFilterPayload: the filters of the answer on display, else of the
\* address, under those of a view that the API did not apply.
EffectiveFilterPayload ==
    LET requestOrApplied == IF applied.known THEN applied.filters ELSE query.own
    IN  IF /\ ~SavedViewVersionSupported
           /\ applied.known => applied.savedView = "not applied"
          THEN MergeFilterPayloads(offered[SelectedCustomView].filters, requestOrApplied)
          ELSE requestOrApplied
-----------------------------------------------------------------------------
(***************************************************************************)
(* Reading.                                                                *)
(***************************************************************************)
ListFiltersInit ==
    /\ query \in Links
    /\ recorded \in Stores
    /\ query.view \in DOMAIN recorded \cup {NoId}
    /\ offered = << >> /\ savedViewsEnabled = FALSE /\ contract = FALSE
    /\ applied = NoAnswerYet
    /\ behind = TRUE
    /\ awaited = NoListRead
    /\ editor = NoEditor
    /\ posting = NoPost
    /\ changes = 0

MayChange == changes < MaxChanges /\ changes' = changes + 1

\* The router goes to q: handleRouteChange reads the views first.
GoesTo(q) == query' = q /\ behind' = (behind \/ q # query)

\* loadFlows for the address there is then.
Loads(q, refreshing) == awaited' = [waiting |-> TRUE, address |-> q, refreshing |-> refreshing]

\* loadSavedViews, and the list behind it.  A view that is gone, and every
\* view when they could not be read, is taken out of the address.
ViewsRead(views) ==
    /\ behind
    /\ offered' = views
    /\ IF query.view \in DOMAIN views \cup {NoId}
         THEN behind' = FALSE /\ Loads(query, FALSE) /\ UNCHANGED query
         ELSE query' = [query EXCEPT !.view = NoId] /\ UNCHANGED <<behind, awaited>>
    /\ UNCHANGED <<recorded, applied, editor, posting, changes>>

ViewsArrive == ViewsRead(recorded) /\ savedViewsEnabled' = TRUE /\ contract' = TRUE
ViewsFail == ViewsRead(<< >>) /\ savedViewsEnabled' = FALSE /\ UNCHANGED contract

\* The list's answer: 404 for a view that is gone.
FiltersArrive ==
    /\ awaited.waiting
    /\ awaited.address.view \in DOMAIN recorded \cup {NoId}
    /\ awaited' = NoListRead
    /\ applied' = [known |-> TRUE, filters |-> Applies(awaited.address),
                   savedView |-> IF awaited.address.view = NoId THEN "none"
                                 ELSE IF recorded[awaited.address.view].supported
                                        THEN "applied" ELSE "not applied"]
    /\ contract' = TRUE
    /\ UNCHANGED <<query, recorded, offered, savedViewsEnabled, behind, editor, posting,
                   changes>>

\* A refresh that fails leaves what is known.
FiltersFail ==
    /\ awaited.waiting
    /\ awaited' = NoListRead
    /\ applied' = IF awaited.refreshing THEN applied ELSE NoAnswerYet
    /\ UNCHANGED <<query, recorded, offering, behind, editor, posting, changes>>

\* Retry, and the timer.
ReadAgain(refreshing) ==
    /\ ~behind /\ ~awaited.waiting
    /\ refreshing \/ ~applied.known
    /\ Loads(query, refreshing)
    /\ UNCHANGED <<query, recorded, offering, applied, behind, editor, posting, changes>>
-----------------------------------------------------------------------------
(***************************************************************************)
(* The operator.  Behind a dialog only Back and Forward are left.          *)
(***************************************************************************)
Follow(q) ==
    /\ MayChange
    /\ q # query
    /\ GoesTo(q)
    /\ UNCHANGED <<recorded, offering, applied, awaited, editor, posting>>

\* selectSavedView keeps the filters of the address.
SelectView(v) ==
    /\ MayChange
    /\ ~editor.open /\ offered # << >>
    /\ v \in DOMAIN offered \cup {NoId}
    /\ GoesTo([query EXCEPT !.view = v])
    /\ UNCHANGED <<recorded, offering, applied, awaited, editor, posting>>

\* hasActiveFilters: the chips over the table, or a view.
HasActiveFilters ==
    \/ Lists(IF applied.known THEN applied.filters ELSE query.own) # NoFilters
    \/ SelectedCustomView # NoId

ClearFilters ==
    /\ MayChange
    /\ ~editor.open /\ contract /\ HasActiveFilters
    /\ query # [own |-> NoFilters, view |-> NoId]
    /\ GoesTo([own |-> NoFilters, view |-> NoId])
    /\ UNCHANGED <<recorded, offering, applied, awaited, editor, posting>>

\* timeWindowEditorState: no window is "any" in the editor.
Editable(f) == [f EXCEPT !.window = IF @ = Unset THEN AnyTime ELSE @]

\* The unit in which the editor shows a window: the largest that divides it.
EditorUnit(seconds) ==
    CASE seconds % 604800 = 0 -> 604800
      [] seconds % 604800 # 0 /\ seconds % 86400 = 0 -> 86400
      [] seconds % 86400 # 0 /\ seconds % 3600 = 0 -> 3600
      [] seconds % 3600 # 0 /\ seconds % 60 = 0 -> 60
      [] OTHER -> 1

\* timeWindowPayload: what the window's two inputs say, back in seconds.
TimeWindowPayload(duration, unit) == duration * unit

\* readTimeWindowEditor, and the other inputs as they are.
Submitted(f) ==
    [f EXCEPT !.window = IF @ \in Windows
                           THEN TimeWindowPayload(@ \div EditorUnit(@), EditorUnit(@))
                           ELSE @]

\* editFilters: over a view of another version, the view's filters under
\* those of the address.
EditFilters ==
    /\ ~editor.open /\ contract
    /\ changes < MaxChanges
    /\ LET current == IF SavedViewVersionSupported
                        THEN EffectiveFilterPayload
                        ELSE MergeFilterPayloads(offered[SelectedCustomView].filters, query.own)
       IN  editor' = [open |-> TRUE, start |-> current, draft |-> Editable(current)]
    /\ UNCHANGED <<query, recorded, offering, applied, behind, awaited, posting, changes>>

\* One input of the editor is changed.
Edit(f) ==
    /\ editor.open
    /\ editor.draft = Editable(editor.start)
    /\ f # editor.draft
    /\ \/ f = [editor.draft EXCEPT !.type = f.type]
       \/ f = [editor.draft EXCEPT !.window = f.window] /\ f.window # Unset
       \/ f = [editor.draft EXCEPT !.labels = f.labels]
       \/ f = [editor.draft EXCEPT !.attributes = f.attributes]
    /\ editor' = [editor EXCEPT !.draft = f]
    /\ UNCHANGED <<query, recorded, offering, applied, behind, awaited, posting, changes>>

\* pushVisibilityFilters: the editor's filters are the address's own, and the
\* view stays.
ApplyFilters ==
    /\ editor.open
    /\ MayChange
    /\ GoesTo([query EXCEPT !.own = Submitted(editor.draft)])
    /\ editor' = NoEditor
    /\ UNCHANGED <<recorded, offering, applied, awaited, posting>>

CancelEditor ==
    /\ editor.open
    /\ editor' = NoEditor
    /\ UNCHANGED <<query, recorded, offering, applied, behind, awaited, posting, changes>>

\* saveCurrentView, manageCurrentView.  from, lists and settled are for the
\* properties: the address, what a list of it applies, and whether the screen
\* had nothing left to read when the button was pressed.
PostsView(kind, v) ==
    /\ ~editor.open /\ posting = NoPost
    /\ changes < MaxChanges
    /\ posting' = [kind |-> kind, view |-> v, filters |-> EffectiveFilterPayload,
                   answered |-> applied, from |-> query,
                   applies |-> IF query.view \in DOMAIN recorded \cup {NoId}
                                 THEN Applies(query) ELSE query.own,
                   settled |-> ~behind /\ ~awaited.waiting]
    /\ UNCHANGED <<query, recorded, offering, applied, behind, awaited, editor, changes>>

SaveView == savedViewsEnabled /\ contract /\ \E v \in SavedIds \ DOMAIN recorded : PostsView("save", v)

ManageView ==
    /\ SelectedCustomView # NoId
    /\ \E kind \in {"update", "delete"} : PostsView(kind, SelectedCustomView)

\* SavedViewsController: an update is stored under the version of today.
Recorded(v, f) ==
    [w \in DOMAIN recorded \cup {v} |->
        IF w = v THEN [filters |-> f, supported |-> TRUE] ELSE recorded[w]]

\* The server's answer, and what follows it: the screen selects the view it
\* saved, selects none in place of a deleted one, and reads again after an
\* update.
ViewStored ==
    /\ posting # NoPost
    /\ MayChange
    /\ posting' = NoPost
    /\ posting.kind # "save" => posting.view \in DOMAIN recorded
    /\ CASE posting.kind = "delete" ->
              /\ recorded' = [w \in DOMAIN recorded \ {posting.view} |-> recorded[w]]
              /\ GoesTo([query EXCEPT !.view = NoId])
         [] posting.kind = "save" ->
              /\ recorded' = Recorded(posting.view, posting.filters)
              /\ GoesTo([query EXCEPT !.view = posting.view])
         [] posting.kind = "update" ->
              /\ recorded' = Recorded(posting.view, posting.filters)
              /\ behind' = TRUE /\ UNCHANGED query
    /\ UNCHANGED <<offering, applied, awaited, editor>>

\* A refusal, or no answer: the dialog says so and nothing is read.
ViewRefused ==
    /\ posting # NoPost
    /\ posting' = NoPost
    /\ UNCHANGED <<query, recorded, offering, applied, behind, awaited, editor, changes>>

\* The operator's other tab rewrites a view.
RewrittenElsewhere(v, f) ==
    /\ MayChange
    /\ v \in DOMAIN recorded
    /\ recorded' = Recorded(v, f)
    /\ UNCHANGED <<query, offering, applied, behind, awaited, editor, posting>>

ListFiltersNext ==
    \/ ViewsArrive \/ ViewsFail
    \/ FiltersArrive \/ FiltersFail
    \/ \E refreshing \in BOOLEAN : ReadAgain(refreshing)
    \/ \E q \in Links : Follow(q)
    \/ \E v \in SavedIds \cup {NoId} : SelectView(v)
    \/ ClearFilters
    \/ EditFilters \/ CancelEditor \/ ApplyFilters
    \/ \E f \in Filters : Edit(f)
    \/ SaveView \/ ManageView
    \/ ViewStored \/ ViewRefused
    \/ \E v \in SavedIds, f \in {q.own : q \in Links} : RewrittenElsewhere(v, f)

ListFiltersSpec == ListFiltersInit /\ [][ListFiltersNext]_listFiltersVars
-----------------------------------------------------------------------------
\* The screen shows the answer to its address as the server would give it now.
UpToDate ==
    /\ ~behind /\ ~awaited.waiting /\ applied.known
    /\ query.view \in DOMAIN recorded \cup {NoId}
    /\ applied.filters = Applies(query)

\* On a list that is up to date and was when the editor opened, Apply lists
\* what the editor said: a field left as it was filters as before, one that
\* was set filters by its value, and a start-time window given up is gone,
\* also when the saved view has one (editFilters, pushVisibilityFilters,
\* merge).
EditorKeepsItsWord ==
    [][ApplyFilters /\ UpToDate /\ SavedViewVersionSupported /\ editor.start = applied.filters =>
          LET now == Applies(query')
          IN  /\ Lists(now).window = Lists(editor.draft).window
              /\ editor.draft.type # Unset => now.type = editor.draft.type
              /\ editor.draft.labels \cup editor.draft.attributes
                    \subseteq now.labels \cup now.attributes
              /\ editor.draft = Editable(editor.start) => Lists(now) = Lists(applied.filters)]_listFiltersVars

\* A view saved from a list that was up to date lists the same runs: once the
\* screen has selected it, whatever view was selected before, and by a link
\* that names nothing else (saveCurrentView, effectiveFilterPayload).  A view
\* the API did not apply adds its filters, and is excepted.
SavedViewListsTheSame ==
    [][ViewStored /\ posting.kind = "save" /\ posting.settled /\ posting.answered.known
        /\ posting.answered.filters = posting.applies /\ query = posting.from
        /\ posting.answered.savedView # "not applied" =>
          LET filters == recorded'[posting.view].filters
          IN  /\ Lists(filters) = Lists(posting.answered.filters)
              /\ Lists(Merge(filters, query'.own)) = Lists(posting.answered.filters)]_listFiltersVars

\* "Update uses the current applied filters" (the dialog of manageCurrentView):
\* an update of the selected view, by a screen that has nothing left to read,
\* stores filters that list the runs the view listed at its address.
UpdateStoresAppliedFilters ==
    [][ViewStored /\ posting.kind = "update" /\ posting.settled /\ query = posting.from
        /\ recorded[posting.view].supported =>
          \/ recorded[posting.view] # offered[posting.view]
          \/ Lists(recorded'[posting.view].filters) = Lists(posting.applies)]_listFiltersVars
=============================================================================
