------------------------- MODULE WorkflowListProofs -------------------------
(***************************************************************************)
(* For any buckets, saved views, route changes and reads, failing or not:  *)
(* the list screen reads as LatestRead promises, and what it shows is what *)
(* its address says.                                                       *)
(***************************************************************************)
EXTENDS WorkflowList, Preferences, FiniteSetTheorems, TLAPS

AnyView == Views \cup {NoView}

ChainRecords ==
    [id : Nat, kind : {"route", "save", "delete", "update"},
     stage : {"views", "preferences", "posting"}, bucket : Buckets, view : AnyView]

\* flows is a record of these fields, whatever is in them.
IsFlows(f) ==
    \E first, of, p, matching, read :
        f = [first |-> first, route |-> of, page |-> p, matching |-> matching, read |-> read]

ListTypeOK ==
    /\ route \in Routes
    /\ selectedSavedView \in AnyView
    /\ savedViews \in [bucket : Buckets, views : SUBSET Views]
    /\ chains \subseteq ChainRecords
    /\ started \in Nat
    /\ IsFlows(flows)
    /\ listRequest \in 0..MaxReads
    /\ viewsOf \in [Buckets -> SUBSET Views]
    /\ started = 0 => chains = {}

\* Reads carry the numbers they were given, no number twice.
Numbered ==
    /\ \A q \in reads : q.id \in 1..listRequest
    /\ \A q, r \in reads : q.id = r.id => q = r

\* Only dialogs post, and they save a view.
DialogsPost ==
    \A c \in chains :
        /\ c.stage = "posting" => c.kind # "route"
        /\ c.kind = "save" => c.view \in Views

Following == \E c \in chains : c.kind = "route"

Match == flows.route = route /\ flows.page = page

\* With no route change to follow, the newest read asks for the address and the
\* page on the screen, and rows that may stay on display are those.
ListFollows ==
    started > 0 /\ ~Following =>
        /\ \A q \in reads : q.id = listRequest =>
              /\ q.route = route /\ q.page = page
              /\ q.refreshing /\ flows.first # 0 => Match
        /\ ~listRequestPending /\ (~listLoadError \/ flows.first # 0) => Match

Shows == selectedSavedView = route.view \/ (CanFail /\ savedViews.views = {})

Offers == savedViews.views \subseteq viewsOf[route.bucket]

\* For an operator who waits there is one chain at a time, and the views it
\* reads are those of the bucket of the address.
OneChain ==
    ~hasty /\ started > 0 =>
        /\ \A c, d \in chains : c = d
        /\ (\A c \in chains : c.stage = "posting") => Shows /\ Offers
        /\ \A c \in chains :
              /\ c.stage = "views" => c.bucket = route.bucket
              /\ c.stage = "preferences" => Offers
              /\ c.kind = "update" => route.view \in viewsOf[route.bucket]
              /\ c.kind = "update" /\ c.stage = "views" => selectedSavedView = route.view

IInv ==
    /\ ListTypeOK /\ Numbered /\ PendingIsOwned /\ DialogsPost
    /\ ListFollows /\ OneChain
-----------------------------------------------------------------------------
LEMMA InitEstablishes == ListInit => IInv
<1>. SUFFICES ASSUME ListInit PROVE IInv
  OBVIOUS
<1>1. IsFlows(flows)
  BY DEF ListInit, NoFlows, IsFlows
<1>2. ListTypeOK
  BY <1>1, WorkflowListAssumption DEF ListInit, ListTypeOK, AnyView, Routes
<1>3. reads = {} /\ chains = {} /\ started = 0 /\ listRequestPending = FALSE
  BY DEF ListInit
<1>. QED
  BY <1>2, <1>3
  DEF IInv, Numbered, PendingIsOwned, DialogsPost, ListFollows, OneChain

\* Clearing the rows leaves the rest of what they answer.
LEMMA ClearedRows ==
    ASSUME IsFlows(flows)
    PROVE  /\ IsFlows([flows EXCEPT !.first = 0])
           /\ [flows EXCEPT !.first = 0].first = 0
           /\ [flows EXCEPT !.first = 0].read = flows.read
<1>1. PICK first, of, p, matching, read :
         flows = [first |-> first, route |-> of, page |-> p, matching |-> matching,
                  read |-> read]
  BY DEF IsFlows
<1>2. [flows EXCEPT !.first = 0] =
         [first |-> 0, route |-> of, page |-> p, matching |-> matching, read |-> read]
  BY <1>1
<1>3. IsFlows([flows EXCEPT !.first = 0])
  BY <1>2, Zenon DEF IsFlows
<1>4. [flows EXCEPT !.first = 0].first = 0
  BY <1>2
<1>5. [flows EXCEPT !.first = 0].read = flows.read
  BY <1>1, <1>2
<1>. QED
  BY <1>3, <1>4, <1>5

-----------------------------------------------------------------------------
(***************************************************************************)
(* Reads of the list.                                                      *)
(***************************************************************************)
LEMMA LoadFacts ==
    ASSUME IInv, NEW p, NEW refreshing \in BOOLEAN, LoadFlows(route, p, refreshing)
    PROVE  /\ listRequest' \in 0..MaxReads /\ listRequest' = listRequest + 1
           /\ Numbered' /\ PendingIsOwned' /\ listRequestPending'
           /\ page' = p
           /\ \A q \in reads' : q.id = listRequest' =>
                 q.route = route /\ q.page = p /\ q.refreshing = refreshing
<1>. DEFINE n == [id |-> listRequest + 1, route |-> route, page |-> p,
                  refreshing |-> refreshing]
<1>1. /\ listRequest' = listRequest + 1 /\ listRequest < MaxReads
      /\ listRequestPending' = TRUE /\ page' = p
      /\ reads' = reads \cup {n}
  BY DEF LoadFlows
<1>2. listRequest \in 0..MaxReads /\ MaxReads \in Nat
  BY WorkflowListAssumption DEF IInv, ListTypeOK
<1>3. \A q \in reads : q.id \in 1..listRequest
  BY DEF IInv, Numbered
<1>4. listRequest' \in 0..MaxReads
  BY <1>1, <1>2
<1>5. n.id = listRequest'
  BY <1>1
<1>6. Numbered'
  <2>1. \A q \in reads' : q.id \in 1..listRequest'
    BY <1>1, <1>2, <1>3, <1>5
  <2>2. \A q \in reads : q.id # n.id
    BY <1>2, <1>3
  <2>3. \A q, r \in reads' : q.id = r.id => q = r
    BY <1>1, <2>2 DEF IInv, Numbered
  <2>. QED
    BY <2>1, <2>3 DEF Numbered
<1>7. PendingIsOwned'
  BY <1>1, <1>5 DEF PendingIsOwned
<1>8. \A q \in reads' : q.id = listRequest' => q = n
  BY <1>1, <1>2, <1>3
<1>. QED
  BY <1>1, <1>4, <1>6, <1>7, <1>8

\* A read of the address on the screen.
LEMMA LoadFollows ==
    ASSUME IInv, NEW p, LoadFlows(route, p, FALSE), UNCHANGED route
    PROVE  ListFollows'
<1>1. /\ listRequestPending'
      /\ \A q \in reads' : q.id = listRequest' =>
            q.route = route /\ q.page = page' /\ q.refreshing = FALSE
  BY LoadFacts
<1>. QED
  BY <1>1 DEF ListFollows

\* A step by the operator on the page, which leaves what the screen follows.
LEMMA PageStepKeeps ==
    ASSUME IInv, NEW p, LoadFlows(route, p, FALSE), Acts \/ UNCHANGED hasty,
           flows' = flows \/ flows' = [flows EXCEPT !.first = 0],
           UNCHANGED <<following, server>>
    PROVE  IInv'
<1>. USE DEF following, server
<1>1. IsFlows(flows')
  BY ClearedRows DEF IInv, ListTypeOK
<1>2. /\ listRequest' \in 0..MaxReads /\ Numbered' /\ PendingIsOwned'
  BY LoadFacts
<1>3. ListTypeOK'
  BY <1>1, <1>2 DEF IInv, ListTypeOK
<1>4. DialogsPost'
  BY DEF IInv, DialogsPost
<1>5. ListFollows'
  BY LoadFollows
<1>6. ~hasty' => ~hasty
  BY DEF Acts
<1>7. OneChain'
  BY <1>6 DEF IInv, OneChain, Shows, Offers
<1>. QED
  BY <1>2, <1>3, <1>4, <1>5, <1>7 DEF IInv

LEMMA TickKeeps == ASSUME IInv, Tick PROVE IInv'
<1>. USE DEF following, server
<1>1. /\ LoadFlows(route, 1, TRUE) /\ page = 1 /\ ~listRequestPending
      /\ UNCHANGED <<following, flows, server, hasty>>
  BY DEF Tick, MayTick
<1>2. /\ listRequest' \in 0..MaxReads /\ Numbered' /\ PendingIsOwned'
      /\ listRequestPending' /\ page' = 1
      /\ \A q \in reads' : q.id = listRequest' => q.route = route /\ q.page = 1
  BY <1>1, LoadFacts
<1>3. ListTypeOK' /\ DialogsPost'
  BY <1>1, <1>2 DEF IInv, ListTypeOK, DialogsPost
<1>4. ListFollows'
  BY <1>1, <1>2 DEF IInv, ListFollows, Following, Match
<1>5. OneChain'
  BY <1>1 DEF IInv, OneChain, Shows, Offers
<1>. QED
  BY <1>2, <1>3, <1>4, <1>5 DEF IInv

LEMMA SettlesFacts ==
    ASSUME IInv, NEW q \in reads, ReadSettles(q), UNCHANGED listRequest
    PROVE  /\ Numbered' /\ PendingIsOwned'
           /\ reads' = reads \ {q}
           /\ IsNewest(q) => ~listRequestPending' /\ \A r \in reads' : r.id # listRequest
           /\ ~IsNewest(q) => (listRequestPending' <=> listRequestPending)
<1>1. /\ reads' = reads \ {q}
      /\ listRequestPending' <=> (listRequestPending /\ ~IsNewest(q))
  BY DEF ReadSettles
<1>2. Numbered'
  BY <1>1 DEF IInv, Numbered
<1>3. IsNewest(q) => \A r \in reads' : r.id # listRequest
  BY <1>1 DEF IInv, Numbered, IsNewest
<1>4. PendingIsOwned'
  BY <1>1, <1>3 DEF IInv, PendingIsOwned, IsNewest
<1>. QED
  BY <1>1, <1>2, <1>3, <1>4

LEMMA ListArrivesKeeps == ASSUME IInv, NEW q \in reads, ListArrives(q) PROVE IInv'
<1>. USE DEF following, server
<1>1. /\ IsNewest(q) /\ ReadSettles(q)
      /\ UNCHANGED <<following, listRequest, server, hasty>>
  BY DEF ListArrives
<1>2. /\ Numbered' /\ PendingIsOwned' /\ reads' = reads \ {q}
      /\ ~listRequestPending' /\ \A r \in reads' : r.id # listRequest
  BY <1>1, SettlesFacts
<1>3. \/ Withheld(q) /\ UNCHANGED <<flows, page, totalPages>>
      \/ ~Withheld(q) /\ ShowAnswer(q)
  BY DEF ListArrives
<1>4. IsFlows(flows')
  <2>1. IsFlows(ListAnswer(q))
    BY DEF ListAnswer, IsFlows
  <2>. QED
    BY <1>3, <2>1 DEF IInv, ListTypeOK, ShowAnswer
<1>5. ListTypeOK' /\ DialogsPost'
  BY <1>1, <1>4 DEF IInv, ListTypeOK, DialogsPost
<1>6. ASSUME started > 0, ~Following PROVE Match'
  <2>1. /\ q.route = route /\ q.page = page
        /\ q.refreshing /\ flows.first # 0 => Match
    BY <1>1, <1>6 DEF IInv, ListFollows, IsNewest
  <2>2. CASE Withheld(q) /\ UNCHANGED <<flows, page, totalPages>>
    BY <1>1, <2>1, <2>2 DEF Withheld, Match
  <2>3. CASE ShowAnswer(q)
    <3>1. ListAnswer(q).route = q.route
      BY DEF ListAnswer
    <3>. QED
      BY <1>1, <2>1, <2>3, <3>1 DEF ShowAnswer, Match
  <2>. QED
    BY <1>3, <2>2, <2>3
<1>7. ListFollows'
  BY <1>1, <1>2, <1>6 DEF ListFollows, Following
<1>8. OneChain'
  BY <1>1 DEF IInv, OneChain, Shows, Offers
<1>. QED
  BY <1>2, <1>5, <1>7, <1>8 DEF IInv

LEMMA ListFailsKeeps == ASSUME IInv, NEW q \in reads, ListFails(q) PROVE IInv'
<1>. USE DEF following, server
<1>1. /\ IsNewest(q) /\ ReadSettles(q) /\ listLoadError' = TRUE
      /\ flows' = IF q.refreshing THEN flows ELSE [flows EXCEPT !.first = 0]
      /\ UNCHANGED <<following, page, listRequest, server, hasty>>
  BY DEF ListFails
<1>2. /\ Numbered' /\ PendingIsOwned' /\ reads' = reads \ {q}
      /\ ~listRequestPending' /\ \A r \in reads' : r.id # listRequest
  BY <1>1, SettlesFacts
<1>3. /\ IsFlows(flows')
      /\ flows'.first # 0 => q.refreshing /\ flows' = flows
  BY <1>1, ClearedRows DEF IInv, ListTypeOK
<1>4. ListTypeOK' /\ DialogsPost'
  BY <1>1, <1>3 DEF IInv, ListTypeOK, DialogsPost
<1>5. ASSUME started > 0, ~Following, flows'.first # 0 PROVE Match'
  BY <1>1, <1>3, <1>5 DEF IInv, ListFollows, IsNewest, Match
<1>6. ListFollows'
  BY <1>1, <1>2, <1>5 DEF ListFollows, Following
<1>7. OneChain'
  BY <1>1 DEF IInv, OneChain, Shows, Offers
<1>. QED
  BY <1>2, <1>4, <1>6, <1>7 DEF IInv

LEMMA SupersededKeeps == ASSUME IInv, NEW q \in reads, SupersededListSettles(q) PROVE IInv'
<1>. USE DEF following, server
<1>1. /\ ~IsNewest(q) /\ ReadSettles(q)
      /\ UNCHANGED <<following, page, flows, listLoadError, listRequest, server, hasty>>
  BY DEF SupersededListSettles, IsNewest
<1>2. /\ Numbered' /\ PendingIsOwned' /\ reads' = reads \ {q}
      /\ listRequestPending' <=> listRequestPending
  BY <1>1, SettlesFacts
<1>3. ListTypeOK' /\ DialogsPost'
  BY <1>1 DEF IInv, ListTypeOK, DialogsPost
<1>4. ListFollows'
  BY <1>1, <1>2 DEF IInv, ListFollows, Following, Match
<1>5. OneChain'
  BY <1>1 DEF IInv, OneChain, Shows, Offers
<1>. QED
  BY <1>2, <1>3, <1>4, <1>5 DEF IInv
-----------------------------------------------------------------------------
(***************************************************************************)
(* Following the address.                                                  *)
(***************************************************************************)
LEMMA HandleRouteChangeFacts ==
    ASSUME IInv, NEW r \in Routes, NEW c \in SUBSET chains, HandleRouteChange(r, c)
    PROVE  /\ started' \in Nat /\ started' # 0 /\ chains' \subseteq ChainRecords
           /\ route' = r /\ selectedSavedView' \in AnyView
           /\ Following' /\ (DialogsPost => DialogsPost')
           /\ chains \subseteq c => \A d \in chains' :
                 d.stage = "views" /\ d.kind = "route" /\ d.bucket = r.bucket
           /\ chains \subseteq c => \A d, e \in chains' : d = e
<1>. DEFINE n == Chain("route", "views", r)
<1>1. /\ started' = started + 1
      /\ chains' = (chains \ c) \cup {n}
      /\ route' = r /\ selectedSavedView' = r.view
  BY DEF HandleRouteChange
<1>2. started \in Nat /\ chains \subseteq ChainRecords
  BY DEF IInv, ListTypeOK
<1>3. /\ n \in ChainRecords /\ n.kind = "route" /\ n.stage = "views" /\ n.bucket = r.bucket
      /\ r.view \in AnyView
  BY <1>2 DEF Chain, ChainRecords, Routes, AnyView
<1>. HIDE DEF n
<1>4. DialogsPost => DialogsPost'
  BY <1>1, <1>3 DEF DialogsPost
<1>. QED
  BY <1>1, <1>2, <1>3, <1>4 DEF Following

\* A step that begins to follow a route, as the only chain where that matters.
LEMMA RouteStepKeeps ==
    ASSUME IInv, NEW r \in Routes, NEW c \in SUBSET chains, HandleRouteChange(r, c),
           NoListStep, savedViews' \in [bucket : Buckets, views : SUBSET Views],
           UNCHANGED server, ~hasty' => chains \subseteq c
    PROVE  IInv'
<1>. USE DEF NoListStep, server
<1>1. /\ started' \in Nat /\ started' # 0 /\ chains' \subseteq ChainRecords
      /\ route' = r /\ selectedSavedView' \in AnyView /\ Following'
      /\ DialogsPost'
  BY HandleRouteChangeFacts DEF IInv
<1>2. ~hasty' => /\ \A d \in chains' : d.stage = "views" /\ d.kind = "route"
                                        /\ d.bucket = route'.bucket
                 /\ \A d, e \in chains' : d = e
  BY <1>1, HandleRouteChangeFacts
<1>3. chains' # {}
  BY DEF HandleRouteChange
<1>4. ListTypeOK'
  BY <1>1 DEF IInv, ListTypeOK
<1>5. Numbered' /\ PendingIsOwned'
  BY DEF IInv, Numbered, PendingIsOwned
<1>6. ListFollows'
  BY <1>1 DEF ListFollows
<1>7. OneChain'
  BY <1>2, <1>3 DEF OneChain
<1>. QED
  BY <1>1, <1>4, <1>5, <1>6, <1>7 DEF IInv

LEMMA MountKeeps == ASSUME IInv, Mount PROVE IInv'
<1>1. /\ route \in Routes /\ chains = {}
      /\ savedViews \in [bucket : Buckets, views : SUBSET Views]
  BY DEF Mount, IInv, ListTypeOK
<1>. QED
  BY <1>1, RouteStepKeeps DEF Mount

LEMMA NavigateKeeps == ASSUME IInv, NEW r \in Routes, Navigate(r) PROVE IInv'
<1>1. /\ ~hasty' => chains = {}
      /\ savedViews \in [bucket : Buckets, views : SUBSET Views]
  BY DEF Navigate, Acts, Settled, IInv, ListTypeOK
<1>. QED
  BY <1>1, RouteStepKeeps DEF Navigate

\* The address is left alone and the chains c, which post or follow a dialog, end.
LEMMA ChainsEndKeeps ==
    ASSUME IInv, NEW c \in SUBSET chains, \A d \in c : d.kind # "route",
           chains' = chains \ c, selectedSavedView' \in AnyView,
           savedViews' \in [bucket : Buckets, views : SUBSET Views],
           NoListStep, UNCHANGED <<route, page, started, server>>,
           ~hasty' /\ started > 0 =>
               ~hasty /\ Shows' /\ Offers' /\ (c = {} => chains = {})
    PROVE  IInv'
<1>. USE DEF NoListStep, server
<1>1. ListTypeOK' /\ DialogsPost'
  BY DEF IInv, ListTypeOK, DialogsPost
<1>2. Numbered' /\ PendingIsOwned'
  BY DEF IInv, Numbered, PendingIsOwned
<1>3. Following' <=> Following
  BY DEF Following
<1>4. ListFollows'
  BY <1>3 DEF IInv, ListFollows, Match
<1>5. OneChain'
  <2>. SUFFICES ASSUME ~hasty', started > 0 PROVE OneChain'
    BY DEF OneChain
  <2>1. \A d, e \in chains : d = e
    BY DEF IInv, OneChain
  <2>2. chains' = {}
    BY <2>1
  <2>. QED
    BY <2>2 DEF OneChain
<1>. QED
  BY <1>1, <1>2, <1>4, <1>5 DEF IInv

LEMMA ChooseViewKeeps == ASSUME IInv, NEW v \in AnyView, ChooseView(v) PROVE IInv'
<1>1. /\ started > 0 /\ SelectSavedView(v, {}) /\ NoListStep
      /\ UNCHANGED <<savedViews, server>>
  BY DEF ChooseView
<1>2. ~hasty' => ~hasty /\ chains = {}
  BY DEF ChooseView, Acts, Settled
<1>3. route \in Routes /\ savedViews \in [bucket : Buckets, views : SUBSET Views]
  BY DEF IInv, ListTypeOK
<1>4. CASE route.view = v
  <2>1. /\ selectedSavedView' = v /\ chains' = chains \ {}
        /\ UNCHANGED <<route, started, page>>
    BY <1>1, <1>4 DEF SelectSavedView
  <2>2. ~hasty' => Shows' /\ Offers'
    BY <1>1, <1>2, <1>4, <2>1 DEF IInv, OneChain, Shows, Offers, server
  <2>. QED
    BY <1>1, <1>2, <1>3, <2>1, <2>2, ChainsEndKeeps
<1>5. CASE route.view # v
  <2>1. [route EXCEPT !.view = v] \in Routes
    BY <1>3 DEF Routes, AnyView
  <2>2. HandleRouteChange([route EXCEPT !.view = v], {})
    BY <1>1, <1>5 DEF SelectSavedView
  <2>3. {} \in SUBSET chains /\ (~hasty' => chains \subseteq {})
    BY <1>2
  <2>. QED
    BY <1>1, <1>3, <2>1, <2>2, <2>3, RouteStepKeeps
<1>. QED
  BY <1>4, <1>5

\* A chain goes on to its next stage, d, and nothing is read.
LEMMA ChainMovesKeeps ==
    ASSUME IInv, NEW c \in chains, NEW d \in ChainRecords,
           d.kind = c.kind, d.stage # "posting", d.kind = "save" => d.view = c.view,
           chains' = (chains \ {c}) \cup {d}, selectedSavedView' \in AnyView,
           savedViews' \in [bucket : Buckets, views : SUBSET Views],
           viewsOf' \in [Buckets -> SUBSET Views],
           NoListStep, UNCHANGED <<route, page, started, hasty>>,
           ~hasty /\ started > 0 =>
               /\ d.stage = "views" => d.bucket = route.bucket
               /\ d.stage = "preferences" => Offers'
               /\ d.kind = "update" => route.view \in viewsOf'[route.bucket]
               /\ d.kind = "update" /\ d.stage = "views" => selectedSavedView' = route.view
    PROVE  IInv'
<1>. USE DEF NoListStep
<1>1. ListTypeOK' /\ DialogsPost'
  BY DEF IInv, ListTypeOK, DialogsPost
<1>2. Numbered' /\ PendingIsOwned'
  BY DEF IInv, Numbered, PendingIsOwned
<1>3. Following' <=> Following
  BY DEF Following
<1>4. ListFollows'
  BY <1>3 DEF IInv, ListFollows, Match
<1>5. OneChain'
  <2>. SUFFICES ASSUME ~hasty', started' > 0 PROVE OneChain'
    BY DEF OneChain
  <2>1. chains' = {d}
    BY DEF IInv, OneChain
  <2>. QED
    BY <2>1 DEF OneChain
<1>. QED
  BY <1>1, <1>2, <1>4, <1>5 DEF IInv

LEMMA ViewPostedKeeps == ASSUME IInv, NEW c \in chains, ViewPosted(c) PROVE IInv'
<1>. DEFINE d == [c EXCEPT !.stage = "views", !.bucket = route.bucket]
<1>1. /\ c.stage = "posting"
      /\ chains' = (chains \ {c}) \cup {d}
      /\ selectedSavedView' = route.view /\ NoListStep
      /\ UNCHANGED <<route, savedViews, started, page, hasty>>
      /\ viewsOf' = CASE c.kind = "save" -> [viewsOf EXCEPT ![c.bucket] = @ \cup {c.view}]
                     [] c.kind = "delete" -> [b \in Buckets |-> viewsOf[b] \ {c.view}]
                     [] OTHER -> viewsOf
  BY DEF ViewPosted
<1>2. c \in ChainRecords /\ route \in Routes /\ viewsOf \in [Buckets -> SUBSET Views]
  BY DEF IInv, ListTypeOK
<1>3. /\ d \in ChainRecords /\ d.kind = c.kind /\ d.view = c.view
      /\ d.stage = "views" /\ d.bucket = route.bucket
  BY <1>2 DEF ChainRecords, Routes
<1>. HIDE DEF d
<1>4. selectedSavedView' \in AnyView
  BY <1>1, <1>2 DEF Routes, AnyView
<1>5. viewsOf' \in [Buckets -> SUBSET Views]
  <2>1. CASE c.kind = "save"
    <3>1. c.view \in Views
      BY <2>1 DEF IInv, DialogsPost
    <3>. QED
      BY <1>1, <1>2, <2>1, <3>1
  <2>2. CASE c.kind = "delete"
    BY <1>1, <1>2, <2>2
  <2>3. CASE c.kind \notin {"save", "delete"}
    BY <1>1, <1>2, <2>3
  <2>. QED
    BY <2>1, <2>2, <2>3
<1>6. ~hasty /\ started > 0 /\ d.kind = "update" => route.view \in viewsOf'[route.bucket]
  BY <1>1, <1>3 DEF IInv, OneChain
<1>7. /\ savedViews' \in [bucket : Buckets, views : SUBSET Views]
  BY <1>1 DEF IInv, ListTypeOK
<1>. QED
  BY <1>1, <1>3, <1>4, <1>5, <1>6, <1>7, ChainMovesKeeps

LEMMA PostFailsKeeps == ASSUME IInv, NEW c \in chains, PostFails(c) PROVE IInv'
<1>1. /\ c.stage = "posting" /\ chains' = chains \ {c} /\ NoListStep
      /\ UNCHANGED <<route, selectedSavedView, savedViews, started, page, server, hasty>>
  BY DEF PostFails
<1>2. c.kind # "route"
  BY <1>1 DEF IInv, DialogsPost
<1>3. ~hasty /\ started > 0 => Shows /\ Offers
  <2>1. ~hasty /\ started > 0 => \A d \in chains : d = c
    BY DEF IInv, OneChain
  <2>. QED
    BY <1>1, <2>1 DEF IInv, OneChain
<1>4. ~hasty' /\ started > 0 => ~hasty /\ Shows' /\ Offers'
  BY <1>1, <1>3 DEF Shows, Offers, server
<1>5. /\ selectedSavedView' \in AnyView
      /\ savedViews' \in [bucket : Buckets, views : SUBSET Views]
  BY <1>1 DEF IInv, ListTypeOK
<1>6. {c} # {} /\ {c} \in SUBSET chains /\ \A d \in {c} : d.kind # "route"
  BY <1>2
<1>. QED
  BY <1>1, <1>4, <1>5, <1>6, ChainsEndKeeps

LEMMA ViewsAnsweredKeeps == ASSUME IInv, NEW c \in chains, ViewsAnswered(c) PROVE IInv'
<1>. USE DEF server
<1>1. PICK vs \in ViewsReturned(c) :
         /\ savedViews' = [bucket |-> c.bucket, views |-> vs]
         /\ CASE c.kind = "route" ->
                    /\ selectedSavedView' = Kept(selectedSavedView, vs)
                    /\ chains' = (chains \ {c}) \cup
                                   {[c EXCEPT !.stage = "preferences", !.view = route.view]}
                    /\ NoListStep
                    /\ UNCHANGED <<route, started, puts, page>>
               [] c.kind = "update" ->
                    /\ selectedSavedView' = Kept(selectedSavedView, vs)
                    /\ chains' = chains \ {c}
                    /\ LoadFlows(route, page, FALSE)
                    /\ UNCHANGED <<route, started, puts, flows, hasNewEntries,
                                   autoLoadsNewEntries>>
               [] OTHER ->
                    /\ SelectSavedView(IF c.kind = "save" THEN c.view ELSE NoView, {c})
                    /\ NoListStep
  BY DEF ViewsAnswered, CheckSelection
<1>2. c.stage = "views" /\ UNCHANGED <<server, hasty>>
  BY DEF ViewsAnswered
<1>3. /\ c \in ChainRecords /\ route \in Routes /\ selectedSavedView \in AnyView
      /\ viewsOf \in [Buckets -> SUBSET Views]
      /\ c.bucket \in Buckets
  BY DEF IInv, ListTypeOK, ChainRecords
<1>4. vs = viewsOf[c.bucket] \/ (CanFail /\ vs = {})
  BY <1>1 DEF ViewsReturned
<1>5. /\ vs \subseteq viewsOf[c.bucket] /\ vs \in SUBSET Views
      /\ savedViews' \in [bucket : Buckets, views : SUBSET Views]
      /\ savedViews'.views = vs
  BY <1>1, <1>3, <1>4
<1>6. Kept(selectedSavedView, vs) \in AnyView
  BY <1>3 DEF Kept, AnyView
<1>7. /\ started # 0 /\ started \in Nat
      /\ ~hasty /\ started > 0 => c.bucket = route.bucket /\ \A e \in chains : e = c
  BY <1>2 DEF IInv, ListTypeOK, OneChain
<1>8. ~hasty /\ started > 0 /\ UNCHANGED route => Offers'
  BY <1>2, <1>5, <1>7 DEF Offers
<1>9. CASE c.kind = "route"
  <2>. DEFINE d == [c EXCEPT !.stage = "preferences", !.view = route.view]
  <2>1. d \in ChainRecords /\ d.kind = c.kind /\ d.stage = "preferences"
    BY <1>3 DEF ChainRecords, Routes, AnyView
  <2>2. /\ selectedSavedView' = Kept(selectedSavedView, vs)
        /\ chains' = (chains \ {c}) \cup {d}
        /\ NoListStep /\ UNCHANGED <<route, started, page>>
    BY <1>1, <1>9
  <2>. HIDE DEF d
  <2>. QED
    BY <1>2, <1>3, <1>5, <1>6, <1>8, <1>9, <2>1, <2>2, ChainMovesKeeps
<1>10. CASE c.kind = "update"
  <2>1. /\ selectedSavedView' = Kept(selectedSavedView, vs)
        /\ chains' = chains \ {c}
        /\ LoadFlows(route, page, FALSE)
        /\ UNCHANGED <<route, started, flows>>
    BY <1>1, <1>10
  <2>2. /\ listRequest' \in 0..MaxReads /\ Numbered' /\ PendingIsOwned'
    BY <2>1, LoadFacts
  <2>3. ListTypeOK' /\ DialogsPost'
    BY <1>2, <1>5, <1>6, <2>1, <2>2 DEF IInv, ListTypeOK, DialogsPost
  <2>4. ListFollows'
    BY <2>1, LoadFollows
  <2>5. OneChain'
    <3>. SUFFICES ASSUME ~hasty, started > 0 PROVE OneChain'
      BY <1>2, <2>1 DEF OneChain
    <3>1. selectedSavedView = route.view /\ route.view \in viewsOf[route.bucket]
      BY <1>2, <1>10 DEF IInv, OneChain
    <3>2. Shows'
      BY <1>4, <1>5, <1>7, <2>1, <3>1 DEF Shows, Kept
    <3>3. chains' = {}
      BY <1>7, <2>1
    <3>. QED
      BY <1>8, <2>1, <3>2, <3>3 DEF OneChain
  <2>. QED
    BY <2>2, <2>3, <2>4, <2>5 DEF IInv
<1>11. CASE c.kind \notin {"route", "update"}
  <2>. DEFINE v == IF c.kind = "save" THEN c.view ELSE NoView
  <2>1. v \in AnyView
    BY DEF IInv, DialogsPost, AnyView
  <2>2. SelectSavedView(v, {c}) /\ NoListStep
    BY <1>1, <1>11
  <2>. HIDE DEF v
  <2>3. {c} \in SUBSET chains /\ {c} # {} /\ \A e \in {c} : e.kind # "route"
    BY <1>11
  <2>4. CASE route.view = v
    <3>1. /\ selectedSavedView' = v /\ chains' = chains \ {c}
          /\ UNCHANGED <<route, started, page>>
      BY <2>2, <2>4 DEF SelectSavedView
    <3>2. ~hasty' /\ started > 0 => ~hasty /\ Shows' /\ Offers'
      BY <1>2, <1>8, <2>4, <3>1 DEF Shows
    <3>. QED
      BY <1>2, <1>5, <2>1, <2>2, <2>3, <3>1, <3>2, ChainsEndKeeps
  <2>5. CASE route.view # v
    <3>. DEFINE r == [route EXCEPT !.view = v]
    <3>1. r \in Routes
      BY <1>3, <2>1 DEF Routes, AnyView
    <3>2. HandleRouteChange(r, {c})
      BY <2>2, <2>5 DEF SelectSavedView
    <3>. HIDE DEF r
    <3>. QED
      BY <1>2, <1>5, <1>7, <2>2, <2>3, <3>1, <3>2, RouteStepKeeps
  <2>. QED
    BY <2>4, <2>5
<1>. QED
  BY <1>9, <1>10, <1>11

LEMMA PreferencesAnsweredKeeps ==
    ASSUME IInv, NEW c \in chains, PreferencesAnswered(c)
    PROVE  IInv'
<1>1. PICK v \in AfterPreferences(c) : NormalizeOrLoad(v, c)
  BY DEF PreferencesAnswered
<1>2. c.stage = "preferences" /\ UNCHANGED <<savedViews, puts, server, hasty>>
  BY DEF PreferencesAnswered
<1>3. /\ c \in ChainRecords /\ route \in Routes /\ selectedSavedView \in AnyView
      /\ savedViews \in [bucket : Buckets, views : SUBSET Views]
  BY DEF IInv, ListTypeOK
<1>4. v \in AnyView
  BY <1>1, <1>3 DEF AfterPreferences, Kept, AnyView
<1>5. ~hasty /\ started > 0 => Offers /\ \A e \in chains : e = c
  BY <1>2 DEF IInv, OneChain
<1>6. started # 0 /\ started \in Nat
  BY DEF IInv, ListTypeOK
<1>7. CASE v # route.view
  <2>. DEFINE r == [route EXCEPT !.view = v]
  <2>1. r \in Routes
    BY <1>3, <1>4 DEF Routes, AnyView
  <2>2. HandleRouteChange(r, {c}) /\ NoListStep
    BY <1>1, <1>7 DEF NormalizeOrLoad
  <2>3. {c} \in SUBSET chains /\ (~hasty' => chains \subseteq {c})
    BY <1>2, <1>5, <1>6
  <2>. HIDE DEF r
  <2>. QED
    BY <1>2, <1>3, <2>1, <2>2, <2>3, RouteStepKeeps
<1>8. CASE v = route.view
  <2>. USE DEF server
  <2>1. /\ selectedSavedView' = v /\ chains' = chains \ {c}
        /\ LoadFlows(route, 1, FALSE) /\ UNCHANGED <<route, started, flows>>
    BY <1>1, <1>8 DEF NormalizeOrLoad
  <2>2. /\ listRequest' \in 0..MaxReads /\ Numbered' /\ PendingIsOwned'
    BY <2>1, LoadFacts
  <2>3. ListTypeOK' /\ DialogsPost'
    BY <1>2, <1>4, <2>1, <2>2 DEF IInv, ListTypeOK, DialogsPost
  <2>4. ListFollows'
    BY <2>1, LoadFollows
  <2>5. ~hasty /\ started > 0 => chains' = {} /\ Shows' /\ Offers'
    BY <1>2, <1>5, <1>8, <2>1 DEF Shows, Offers
  <2>6. OneChain'
    BY <1>2, <2>1, <2>5 DEF OneChain
  <2>. QED
    BY <2>2, <2>3, <2>4, <2>6 DEF IInv
<1>. QED
  BY <1>7, <1>8

\* A dialog posts; the view it is about is offered, unless it saves a new one.
LEMMA PostViewKeeps ==
    ASSUME IInv, NEW kind \in {"save", "delete", "update"}, NEW v \in Views,
           kind = "update" => v = selectedSavedView /\ v \in savedViews.views,
           PostView(kind, v)
    PROVE  IInv'
<1>. USE DEF NoListStep, server
<1>. DEFINE n == Chain(kind, "posting", [route EXCEPT !.view = v])
<1>1. /\ started \in 1..(MaxChains - 1) /\ started' = started + 1
      /\ chains' = chains \cup {n}
      /\ NoListStep /\ UNCHANGED <<route, selectedSavedView, savedViews, page, server>>
  BY DEF PostView
<1>2. route \in Routes /\ started \in Nat
  BY DEF IInv, ListTypeOK
<1>3. n \in ChainRecords /\ n.kind = kind /\ n.stage = "posting" /\ n.view = v
  BY <1>2 DEF Chain, ChainRecords, Routes, AnyView
<1>. HIDE DEF n
<1>4. ListTypeOK' /\ DialogsPost'
  BY <1>1, <1>3 DEF IInv, ListTypeOK, DialogsPost
<1>5. Numbered' /\ PendingIsOwned'
  BY <1>1 DEF IInv, Numbered, PendingIsOwned
<1>6. Following' <=> Following
  BY <1>1, <1>3 DEF Following
<1>7. ListFollows'
  BY <1>1, <1>2, <1>6 DEF IInv, ListFollows, Match
<1>8. OneChain'
  <2>. SUFFICES ASSUME ~hasty' PROVE OneChain'
    BY DEF OneChain
  <2>1. ~hasty /\ chains = {} /\ started > 0
    <3>1. Acts
      BY DEF PostView
    <3>2. ~hasty /\ chains = {}
      BY <3>1 DEF Acts, Settled
    <3>3. started > 0
      BY <1>1, <1>2
    <3>. QED
      BY <3>2, <3>3
  <2>2. Shows /\ Offers
    BY <2>1 DEF IInv, OneChain
  <2>3. Shows' /\ Offers'
    BY <1>1, <2>2 DEF Shows, Offers
  <2>4. chains' = {n}
    BY <1>1, <2>1
  <2>5. kind = "update" => route.view \in viewsOf[route.bucket]
    BY <2>2 DEF Shows, Offers
  <2>. QED
    BY <1>1, <1>3, <2>3, <2>4, <2>5 DEF OneChain
<1>. QED
  BY <1>4, <1>5, <1>7, <1>8 DEF IInv
-----------------------------------------------------------------------------
(***************************************************************************)
(* The screen.                                                             *)
(***************************************************************************)
LEMMA OperatorKeeps == ASSUME IInv, Operator PROVE IInv'
<1>1. CASE \E r \in Routes : Navigate(r)
  BY <1>1, NavigateKeeps
<1>2. CASE \E v \in Views \cup {NoView} : ChooseView(v)
  BY <1>2, ChooseViewKeeps DEF AnyView
<1>3. CASE \E v \in Views : SaveCurrentView(v)
  BY <1>3, PostViewKeeps DEF SaveCurrentView
<1>4. CASE DeleteView
  <2>1. selectedSavedView \in Views
    BY <1>4 DEF DeleteView, IInv, ListTypeOK
  <2>. QED
    BY <1>4, <2>1, PostViewKeeps DEF DeleteView
<1>5. CASE UpdateView
  <2>1. selectedSavedView \in Views
    BY <1>5 DEF UpdateView, IInv, ListTypeOK
  <2>. QED
    BY <1>5, <2>1, PostViewKeeps DEF UpdateView
<1>6. CASE Previous
  BY <1>6, PageStepKeeps DEF Previous, TurnPage
<1>7. CASE NextPage
  BY <1>7, PageStepKeeps DEF NextPage, TurnPage
<1>8. CASE Retry
  BY <1>8, PageStepKeeps DEF Retry
<1>9. CASE LoadNewEntries
  BY <1>9, PageStepKeeps DEF LoadNewEntries
<1>10. CASE AutoLoadNewEntries
  BY <1>10 DEF AutoLoadNewEntries, following, listing, server, IInv, ListTypeOK, Numbered,
     PendingIsOwned, DialogsPost, ListFollows, Following, Match, OneChain, Shows, Offers
<1>. QED
  BY <1>1, <1>2, <1>3, <1>4, <1>5, <1>6, <1>7, <1>8, <1>9, <1>10 DEF Operator

\* Steps of the server leave what the invariant speaks of.
LEMMA OutsideKeeps ==
    ASSUME IInv,
           UNCHANGED <<route, selectedSavedView, savedViews, chains, started, listing, viewsOf,
                       hasty>>
    PROVE  IInv'
  BY DEF listing, IInv, ListTypeOK, Numbered, PendingIsOwned, DialogsPost, ListFollows,
     Following, Match, OneChain, Shows, Offers

LEMMA NextKeeps == ASSUME IInv, [ListNext]_listVars PROVE IInv'
<1>1. CASE Mount
  BY <1>1, MountKeeps
<1>2. CASE Operator
  BY <1>2, OperatorKeeps
<1>3. CASE Tick
  BY <1>3, TickKeeps
<1>4. ASSUME NEW q \in reads, SettleList(q) PROVE IInv'
  BY <1>4, ListArrivesKeeps, ListFailsKeeps, SupersededKeeps DEF SettleList
<1>5. ASSUME NEW c \in chains,
             ViewsAnswered(c) \/ PreferencesAnswered(c) \/ ViewPosted(c) \/ PostFails(c)
      PROVE  IInv'
  BY <1>5, ViewsAnsweredKeeps, PreferencesAnsweredKeeps, ViewPostedKeeps, PostFailsKeeps
<1>6. ASSUME NEW p \in puts, PreferenceStored(p) PROVE IInv'
  BY <1>6, OutsideKeeps DEF PreferenceStored
<1>7. ASSUME NEW b \in Buckets, NEW r \in Runs, RunEnters(b, r) \/ RunLeaves(b, r)
      PROVE  IInv'
  BY <1>7, OutsideKeeps DEF RunEnters, RunLeaves, following
<1>8. CASE UNCHANGED listVars
  BY <1>8, OutsideKeeps DEF listVars, following, server
<1>. QED
  BY <1>1, <1>2, <1>3, <1>4, <1>5, <1>6, <1>7, <1>8 DEF ListNext

\* The invariant the results below rest on.
THEOREM Invariance == ListSafeSpec => []IInv
<1>. QED
  BY InitEstablishes, NextKeeps, PTL DEF ListSafeSpec

\* The screen waits for the list exactly while its newest read is in flight.
THEOREM WaitingIsOwned == ListSafeSpec => []PendingIsOwned
<1>1. IInv => PendingIsOwned
  BY DEF IInv
<1>. QED
  BY <1>1, Invariance, PTL

\* Once everything asked for is answered, rows, page and selector are those of
\* the address, whatever order the chains of several route changes answered in.
THEOREM ScreenMatches == ListSafeSpec => []ScreenMatchesAddress
<1>1. IInv => ListMatchesAddress
  BY DEF IInv, ListMatchesAddress, Settled, ListFollows, Following, Match
<1>2. IInv => SelectorMatchesAddress
  BY DEF IInv, SelectorMatchesAddress, Settled, OneChain, Shows
<1>3. IInv => ScreenMatchesAddress
  BY <1>1, <1>2 DEF ScreenMatchesAddress
<1>. QED
  BY <1>3, Invariance, PTL
-----------------------------------------------------------------------------
(***************************************************************************)
(* The screen implements LatestRead.                                       *)
(***************************************************************************)
LEMMA LoadIsIssue ==
    ASSUME IInv, NEW p, NEW refreshing, LoadFlows(route, p, refreshing),
           flows'.read = flows.read
    PROVE  Latest!Issue
<1>1. PICK n : n.id = listRequest + 1 /\ reads' = reads \cup {n}
  BY DEF LoadFlows
<1>2. {q.id : q \in reads}' = {q.id : q \in reads} \cup {listRequest + 1}
  BY <1>1
<1>. QED
  BY <1>2 DEF LoadFlows, Latest!Issue

LEMMA SettleListImplements ==
    ASSUME IInv, NEW q \in reads, SettleList(q)
    PROVE  Latest!Next
<1>1. /\ reads' = reads \ {q}
      /\ {r.id : r \in reads}' = {r.id : r \in reads} \ {q.id}
      /\ q.id \in {r.id : r \in reads} /\ q.id \in 1..MaxReads
      /\ listRequest' = listRequest
  <2>1. reads' = reads \ {q} /\ listRequest' = listRequest
    BY DEF SettleList, ListArrives, ListFails, SupersededListSettles, ReadSettles
  <2>2. \A r \in reads \ {q} : r.id # q.id
    BY DEF IInv, Numbered
  <2>3. q.id \in 1..MaxReads
    BY WorkflowListAssumption DEF IInv, ListTypeOK, Numbered
  <2>. QED
    BY <2>1, <2>2, <2>3
<1>2. CASE ListArrives(q)
  <2>1. ListAnswer(q).read = q.id
    BY DEF ListAnswer
  <2>2. flows'.read \in {flows.read, q.id} /\ q.id = listRequest
    BY <1>2, <2>1 DEF ListArrives, ShowAnswer, IsNewest
  <2>. QED
    BY <1>1, <2>2 DEF Latest!Settle, Latest!Next
<1>3. CASE ListFails(q)
  <2>1. flows'.read = flows.read /\ q.id = listRequest
    BY <1>3, ClearedRows DEF ListFails, IsNewest, IInv, ListTypeOK
  <2>. QED
    BY <1>1, <2>1 DEF Latest!Settle, Latest!Next
<1>4. CASE SupersededListSettles(q)
  <2>1. flows' = flows /\ q.id # listRequest
    BY <1>4 DEF SupersededListSettles, IsNewest
  <2>2. Latest!Ignore(q.id)
    BY <1>1, <2>1 DEF Latest!Ignore
  <2>. QED
    BY <1>1, <2>2 DEF Latest!Next
<1>. QED
  BY <1>2, <1>3, <1>4 DEF SettleList

LEMMA ViewsAnsweredImplements ==
    ASSUME IInv, NEW c \in chains, ViewsAnswered(c)
    PROVE  Latest!Issue \/ UNCHANGED Latest!vars
<1>1. CASE NoListStep
  BY <1>1 DEF NoListStep, Latest!vars
<1>2. CASE ~NoListStep
  <2>1. LoadFlows(route, page, FALSE) /\ flows' = flows
    BY <1>2 DEF ViewsAnswered
  <2>. QED
    BY <2>1, LoadIsIssue
<1>. QED
  BY <1>1, <1>2

LEMMA PreferencesAnsweredImplements ==
    ASSUME IInv, NEW c \in chains, PreferencesAnswered(c)
    PROVE  Latest!Issue \/ UNCHANGED Latest!vars
<1>1. PICK v \in AfterPreferences(c) : NormalizeOrLoad(v, c)
  BY DEF PreferencesAnswered
<1>2. CASE v # route.view
  BY <1>1, <1>2 DEF NormalizeOrLoad, NoListStep, Latest!vars
<1>3. CASE v = route.view
  <2>1. LoadFlows(route, 1, FALSE) /\ flows' = flows
    BY <1>1, <1>3 DEF NormalizeOrLoad
  <2>. QED
    BY <2>1, LoadIsIssue
<1>. QED
  BY <1>2, <1>3

LEMMA OperatorImplements ==
    ASSUME IInv, Operator
    PROVE  Latest!Issue \/ UNCHANGED Latest!vars
<1>1. CASE Previous \/ NextPage \/ Retry \/ LoadNewEntries
  <2>1. PICK p : LoadFlows(route, p, FALSE)
    BY <1>1 DEF Previous, NextPage, TurnPage, Retry, LoadNewEntries
  <2>2. flows'.read = flows.read
    BY <1>1, ClearedRows DEF Previous, NextPage, TurnPage, Retry, LoadNewEntries, IInv, ListTypeOK
  <2>. QED
    BY <2>1, <2>2, LoadIsIssue
<1>2. CASE ~(Previous \/ NextPage \/ Retry \/ LoadNewEntries)
  <2>1. NoListStep \/ UNCHANGED listing
    BY <1>2 DEF Operator, Navigate, ChooseView, SaveCurrentView, DeleteView, UpdateView,
       PostView, AutoLoadNewEntries
  <2>. QED
    BY <2>1 DEF NoListStep, listing, Latest!vars
<1>. QED
  BY <1>1, <1>2

\* Only the newest read's answer ever replaces the rows: the list implements
\* LatestRead, reading flows.read as the number of the read that is shown.
THEOREM ListReadsLatest == ListSafeSpec => ImplementsLatestRead
<1>1. ListInit => Latest!Init
  BY DEF ListInit, Latest!Init, NoFlows
<1>2. IInv /\ [ListNext]_listVars => [Latest!Next]_Latest!vars
  <2>. SUFFICES ASSUME IInv, [ListNext]_listVars
                PROVE  [Latest!Next]_Latest!vars
    OBVIOUS
  <2>1. CASE Mount
    BY <2>1 DEF Mount, NoListStep, Latest!vars
  <2>2. CASE Operator
    BY <2>2, OperatorImplements DEF Latest!Next
  <2>3. CASE Tick
    <3>1. LoadFlows(route, 1, TRUE) /\ flows' = flows
      BY <2>3 DEF Tick
    <3>. QED
      BY <3>1, LoadIsIssue DEF Latest!Next
  <2>4. ASSUME NEW q \in reads, SettleList(q) PROVE Latest!Next
    BY <2>4, SettleListImplements
  <2>5. ASSUME NEW c \in chains, ViewsAnswered(c) \/ PreferencesAnswered(c)
        PROVE  [Latest!Next]_Latest!vars
    BY <2>5, ViewsAnsweredImplements, PreferencesAnsweredImplements DEF Latest!Next
  <2>6. ASSUME NEW c \in chains, ViewPosted(c) \/ PostFails(c)
        PROVE  UNCHANGED Latest!vars
    BY <2>6 DEF ViewPosted, PostFails, NoListStep, Latest!vars
  <2>7. ASSUME NEW p \in puts, PreferenceStored(p) PROVE UNCHANGED Latest!vars
    BY <2>7 DEF PreferenceStored, listing, Latest!vars
  <2>8. ASSUME NEW b \in Buckets, NEW r \in Runs, RunEnters(b, r) \/ RunLeaves(b, r)
        PROVE  UNCHANGED Latest!vars
    BY <2>8 DEF RunEnters, RunLeaves, listing, Latest!vars
  <2>9. CASE UNCHANGED listVars
    BY <2>9 DEF listVars, listing, Latest!vars
  <2>. QED
    BY <2>1, <2>2, <2>3, <2>4, <2>5, <2>6, <2>7, <2>8, <2>9 DEF ListNext
<1>. QED
  BY <1>1, <1>2, Invariance, PTL DEF ListSafeSpec, ImplementsLatestRead, Latest!SafeSpec
-----------------------------------------------------------------------------
(***************************************************************************)
(* The view a link names.                                                  *)
(***************************************************************************)

\* A selector that was not misled shows the view of the address, if the bucket
\* has it.
LinkSelected ==
    started > 0 /\ ~misled /\ route.view \in viewsOf[route.bucket] =>
        selectedSavedView = route.view

KeepsLink == ~misled => CorrectsToKnown

\* Another address selects its own view.
LEMMA RouteStepSelects ==
    ASSUME NEW r, NEW done, HandleRouteChange(r, done)
    PROVE  LinkSelected'
  BY DEF HandleRouteChange, LinkSelected

\* Where nothing of it changes, the selection stands.
LEMMA StaysSelected ==
    ASSUME LinkSelected, UNCHANGED <<route, selectedSavedView, viewsOf, misled>>,
           started' > 0 => started > 0
    PROVE  LinkSelected'
  BY DEF LinkSelected

\* A checked selector keeps the view of the address, or is misled from then on.
LEMMA CheckedSelects ==
    ASSUME LinkSelected, NEW vs, CheckSelection(vs), UNCHANGED <<route, started, viewsOf>>
    PROVE  LinkSelected'
  BY DEF CheckSelection, Kept, LinkSelected

\* Selecting a view puts it into the address.
LEMMA SelectionSelects ==
    ASSUME NEW v, NEW done, SelectSavedView(v, done), UNCHANGED viewsOf
    PROVE  LinkSelected'
<1>1. CASE route.view = v
  BY <1>1 DEF SelectSavedView, LinkSelected
<1>2. CASE route.view # v
  BY <1>2, RouteStepSelects DEF SelectSavedView
<1> QED
  BY <1>1, <1>2

LEMMA OperatorSelects ==
    ASSUME IInv, LinkSelected, Operator
    PROVE  LinkSelected' /\ (started' > started => chains \subseteq chains')
<1>1. ASSUME NEW r \in Routes, Navigate(r)
      PROVE  LinkSelected' /\ chains \subseteq chains'
  BY <1>1, RouteStepSelects DEF Navigate, HandleRouteChange
<1>2. ASSUME NEW v \in AnyView, ChooseView(v)
      PROVE  LinkSelected' /\ (started' > started => chains \subseteq chains')
  <2>1. SelectSavedView(v, {}) /\ UNCHANGED viewsOf /\ started \in Nat
    BY <1>2 DEF ChooseView, server, IInv, ListTypeOK
  <2>2. started' > started => chains \subseteq chains'
    BY <2>1 DEF SelectSavedView, HandleRouteChange
  <2> QED
    BY <2>1, <2>2, SelectionSelects
<1>3. ASSUME NEW kind, NEW v, PostView(kind, v)
      PROVE  LinkSelected' /\ chains \subseteq chains'
  <2>1. /\ UNCHANGED <<route, selectedSavedView, viewsOf, misled>>
        /\ started > 0 /\ chains \subseteq chains'
    BY <1>3 DEF PostView, server
  <2> QED
    BY <2>1, StaysSelected
<1>4. ASSUME Previous \/ NextPage \/ Retry \/ LoadNewEntries \/ AutoLoadNewEntries
      PROVE  LinkSelected' /\ started' = started
  <2>1. UNCHANGED <<route, selectedSavedView, viewsOf, started, misled>>
    BY <1>4 DEF Previous, NextPage, TurnPage, Retry, LoadNewEntries, AutoLoadNewEntries,
       following, server
  <2> QED
    BY <2>1, StaysSelected
<1>5. started' = started => ~(started' > started)
  BY DEF IInv, ListTypeOK
<1> QED
  BY <1>1, <1>2, <1>3, <1>4, <1>5
     DEF Operator, SaveCurrentView, DeleteView, UpdateView, AnyView

LEMMA ViewsAnsweredSelects ==
    ASSUME IInv, LinkSelected, NEW c \in chains, ViewsAnswered(c)
    PROVE  LinkSelected' /\ KeepsLink
<1>1. UNCHANGED viewsOf /\ started \in Nat
  BY DEF ViewsAnswered, server, IInv, ListTypeOK
<1>2. CASE c.kind \in {"route", "update"}
  <2>1. PICK vs : CheckSelection(vs) /\ UNCHANGED <<route, started>>
    BY <1>2 DEF ViewsAnswered
  <2> QED
    BY <1>1, <2>1, CheckedSelects DEF KeepsLink, CorrectsToKnown
<1>3. CASE c.kind \notin {"route", "update"}
  <2>1. PICK v : SelectSavedView(v, {c})
    BY <1>3 DEF ViewsAnswered
  <2>2. chains \ {c} \subseteq chains' \/ started' = started
    BY <2>1 DEF SelectSavedView, HandleRouteChange
  <2> QED
    BY <1>1, <1>3, <2>1, <2>2, SelectionSelects DEF KeepsLink, CorrectsToKnown
<1> QED
  BY <1>2, <1>3

LEMMA PreferencesAnsweredSelects ==
    ASSUME IInv, LinkSelected, NEW c \in chains, PreferencesAnswered(c)
    PROVE  LinkSelected' /\ KeepsLink
<1>1. PICK v \in AfterPreferences(c) : NormalizeOrLoad(v, c)
  BY DEF PreferencesAnswered
<1>2. UNCHANGED viewsOf /\ started > 0 /\ started \in Nat
  BY DEF PreferencesAnswered, server, IInv, ListTypeOK
<1>3. CASE v = route.view
  BY <1>1, <1>2, <1>3 DEF NormalizeOrLoad, LinkSelected, KeepsLink, CorrectsToKnown
<1>4. CASE v # route.view
  <2>1. HandleRouteChange([route EXCEPT !.view = v], {c})
    BY <1>1, <1>4 DEF NormalizeOrLoad
  <2>2. ASSUME ~misled, route.view \in viewsOf[route.bucket]
        PROVE  FALSE
    <3>1. selectedSavedView = route.view
      BY <1>2, <2>2 DEF LinkSelected
    <3>2. route.view # NoView
      BY <2>2, WorkflowListAssumption DEF IInv, ListTypeOK, Routes
    <3>3. v = selectedSavedView
      BY <1>1, <3>2 DEF AfterPreferences
    <3> QED
      BY <1>4, <3>1, <3>3
  <2> QED
    BY <2>1, <2>2, RouteStepSelects DEF KeepsLink, CorrectsToKnown
<1> QED
  BY <1>3, <1>4

LEMMA PostSelects ==
    ASSUME IInv, LinkSelected, NEW c \in chains, ViewPosted(c) \/ PostFails(c)
    PROVE  LinkSelected' /\ started' = started
<1>1. CASE ViewPosted(c)
  BY <1>1 DEF ViewPosted, LinkSelected
<1>2. CASE PostFails(c)
  BY <1>2, StaysSelected DEF PostFails, server
<1> QED
  BY <1>1, <1>2

LEMMA NextSelects ==
    ASSUME IInv, LinkSelected, [ListNext]_listVars
    PROVE  LinkSelected' /\ [KeepsLink]_listVars
<1>1. started' = started \/ ~(started' > started) \/ chains \subseteq chains' => KeepsLink
  BY DEF KeepsLink, CorrectsToKnown, IInv, ListTypeOK
<1>2. CASE Mount
  <2>1. HandleRouteChange(route, {})
    BY <1>2 DEF Mount
  <2>2. chains \subseteq chains'
    BY <2>1 DEF HandleRouteChange
  <2> QED
    BY <1>1, <2>1, <2>2, RouteStepSelects
<1>3. CASE Operator
  BY <1>1, <1>3, OperatorSelects
<1>4. ASSUME NEW c \in chains,
             ViewsAnswered(c) \/ PreferencesAnswered(c) \/ ViewPosted(c) \/ PostFails(c)
      PROVE  LinkSelected' /\ KeepsLink
  BY <1>1, <1>4, ViewsAnsweredSelects, PreferencesAnsweredSelects, PostSelects
<1>5. ASSUME \/ Tick \/ \E q \in reads : SettleList(q)
             \/ \E p \in puts : PreferenceStored(p)
             \/ \E b \in Buckets, r \in Runs : RunEnters(b, r) \/ RunLeaves(b, r)
             \/ UNCHANGED listVars
      PROVE  LinkSelected' /\ KeepsLink
  <2>1. UNCHANGED <<route, selectedSavedView, viewsOf, started, misled>>
    BY <1>5 DEF Tick, SettleList, ListArrives, ListFails, SupersededListSettles,
       PreferenceStored, RunEnters, RunLeaves, listVars, following, server
  <2> QED
    BY <1>1, <2>1, StaysSelected
<1> QED
  BY <1>2, <1>3, <1>4, <1>5 DEF ListNext

\* The screen takes no view out of the address that the bucket has, whatever
\* reads fail and however the chains of several route changes overlap, unless
\* the selector was checked against views without it (normalizeRouteViewQuery).
THEOREM LinkedViewStays == ListSafeSpec => LinkedViewKept
<1>1. ListInit => LinkSelected
  BY DEF ListInit, LinkSelected
<1>2. IInv /\ LinkSelected /\ [ListNext]_listVars => LinkSelected' /\ [KeepsLink]_listVars
  BY NextSelects
<1>3. ListSafeSpec => [][KeepsLink]_listVars
  BY <1>1, <1>2, Invariance, PTL DEF ListSafeSpec
<1> QED
  BY <1>3 DEF KeepsLink, LinkedViewKept
-----------------------------------------------------------------------------
(***************************************************************************)
(* The preferences of a screen: for any number of view options, saved      *)
(* views and requests, what the operator chose is what is stored and       *)
(* shown, and the buttons are only disabled while a save is on its way.    *)
(***************************************************************************)
Gets == [id : Nat, over : Documents, got : Documents, handled : BOOLEAN]
Writes == [id : Nat, doc : Documents, handled : BOOLEAN, waited : BOOLEAN]

PreferencesTypeOK ==
    /\ screen \in Screens
    /\ stored \in Documents /\ address \in Documents /\ last \in Documents
    /\ known \in Documents /\ shown \in Documents
    /\ due \in Nat /\ sent \in Nat
    /\ saving \in BOOLEAN /\ hurried \in BOOLEAN /\ failed \in BOOLEAN
    /\ gets \subseteq Gets
    /\ writes \subseteq Writes

\* Only a failure makes the screen give a save up, and only one the server has
\* not handled is kept then.
AllWaited == \A w \in writes : ~failed \/ w.handled => w.waited

\* Where only the buttons save, no two saves overlap.
SavesAlone ==
    /\ saving => Waited # {}
    /\ screen # "workflowList" =>
          /\ Waited # {} => saving
          /\ \A u, w \in Waited : u = w

\* ... and each writes what the operator saved last.
SavedInOrder ==
    screen # "workflowList" /\ ~failed =>
        /\ writes = {} => stored = last
        /\ \A w \in writes : w.doc = last /\ (w.handled => stored = last)

\* On the workflow list no save but that of the options changes the options,
\* and it starts from what the last answer said, while nothing is awaited.
OptionsKept ==
    screen = "workflowList" /\ ~failed /\ ~hurried =>
        /\ writes = {} \/ due > 0 \/ gets # {} => stored["options"] = last["options"]
        /\ \A w \in writes :
              /\ w.doc["options"] = last["options"]
              /\ w.handled => stored["options"] = last["options"]
        /\ \A q \in gets :
              /\ q.over["options"] = address["options"]
              /\ q.handled => q.got["options"] = last["options"]
        /\ AllAnswered =>
              /\ known["options"] = last["options"]
              /\ shown["options"] \in {last["options"], address["options"]}

\* On the run detail screen a read and a save are never in flight together.
TabShown ==
    screen = "runDetail" /\ ~failed /\ ~hurried =>
        /\ due > 0 \/ gets # {} => writes = {}
        /\ \A w \in writes : address["tab"] \in {0, w.doc["tab"]}
        /\ \A q \in gets :
              /\ q.over["tab"] = address["tab"]
              /\ q.handled => q.got["tab"] = stored["tab"]
        /\ AllAnswered =>
              shown["tab"] = IF address["tab"] # 0 THEN address["tab"] ELSE stored["tab"]

PreferencesInv ==
    /\ PreferencesTypeOK /\ AllWaited /\ SavesAlone /\ SavedInOrder
    /\ OptionsKept /\ TabShown
-----------------------------------------------------------------------------
LEMMA KeysOfScreen ==
    ASSUME screen \in Screens
    PROVE  /\ screen = "runDetail" => Keys = {"tab"}
           /\ screen = "workflowList" => Keys = {"view", "options"}
           /\ screen = "table" => Keys = {"options"}
  BY DEF Screens, Keys

LEMMA SameScreen ==
    ASSUME UNCHANGED screen
    PROVE  Documents' = Documents /\ Gets' = Gets /\ Writes' = Writes
  BY DEF Documents, Keys, Values, Gets, Writes

LEMMA NothingIsDocument == Nothing \in Documents
  BY DEF Nothing, Documents

LEMMA PreferencesStart == PreferencesInit => PreferencesInv
<1>. SUFFICES ASSUME PreferencesInit PROVE PreferencesInv
  OBVIOUS
<1>1. PreferencesTypeOK
  BY NothingIsDocument DEF PreferencesInit, PreferencesTypeOK
<1>. QED
  BY <1>1 DEF PreferencesInit, PreferencesInv, AllWaited, SavesAlone, SavedInOrder, OptionsKept,
     TabShown, Waited, AllAnswered

LEMMA SendReadKeeps == ASSUME PreferencesInv, SendRead PROVE PreferencesInv'
<1>. DEFINE q == [id |-> sent + 1, over |-> address, got |-> Nothing, handled |-> FALSE]
<1>1. /\ gets' = gets \cup {q} /\ due' = due - 1 /\ due > 0 /\ sent' = sent + 1
      /\ UNCHANGED <<stored, address, known, shown, saving, writes, last, screen,
                     hurried, failed>>
  BY DEF SendRead
<1>2. q \in Gets /\ q.over = address /\ q.handled = FALSE
  BY NothingIsDocument DEF PreferencesInv, PreferencesTypeOK, Gets
<1>. HIDE DEF q
<1>3. PreferencesTypeOK'
  BY <1>1, <1>2, SameScreen DEF PreferencesInv, PreferencesTypeOK
<1>4. AllWaited' /\ SavesAlone' /\ SavedInOrder'
  BY <1>1 DEF PreferencesInv, AllWaited, SavesAlone, SavedInOrder, Waited
<1>5. OptionsKept'
  BY <1>1, <1>2 DEF PreferencesInv, OptionsKept, AllAnswered
<1>6. TabShown'
  BY <1>1, <1>2 DEF PreferencesInv, TabShown, AllAnswered
<1>. QED
  BY <1>3, <1>4, <1>5, <1>6 DEF PreferencesInv

LEMMA HandleReadKeeps == ASSUME PreferencesInv, NEW q \in gets, HandleRead(q) PROVE PreferencesInv'
<1>. DEFINE r == [q EXCEPT !.handled = TRUE, !.got = stored]
<1>1. /\ gets' = (gets \ {q}) \cup {r}
      /\ UNCHANGED <<stored, address, due, known, shown, saving, writes, sent, last,
                     screen, hurried, failed>>
  BY DEF HandleRead
<1>2. r \in Gets /\ r.over = q.over /\ r.got = stored
  BY DEF PreferencesInv, PreferencesTypeOK, Gets
<1>. HIDE DEF r
<1>3. PreferencesTypeOK'
  BY <1>1, <1>2, SameScreen DEF PreferencesInv, PreferencesTypeOK
<1>4. AllWaited' /\ SavesAlone' /\ SavedInOrder'
  BY <1>1 DEF PreferencesInv, AllWaited, SavesAlone, SavedInOrder, Waited
<1>5. OptionsKept'
  BY <1>1, <1>2 DEF PreferencesInv, OptionsKept, AllAnswered
<1>6. TabShown'
  BY <1>1, <1>2 DEF PreferencesInv, TabShown, AllAnswered
<1>. QED
  BY <1>3, <1>4, <1>5, <1>6 DEF PreferencesInv

LEMMA OverOptions ==
    ASSUME NEW d, NEW p, screen \in Screens
    PROVE  /\ screen = "workflowList" =>
                 Over(d, p)["options"] = IF p["options"] # 0 THEN p["options"] ELSE d["options"]
           /\ screen = "runDetail" =>
                 Over(d, p)["tab"] = IF p["tab"] # 0 THEN p["tab"] ELSE d["tab"]
  BY KeysOfScreen DEF Over

LEMMA OverIsDocument ==
    ASSUME NEW d \in Documents, NEW p \in Documents
    PROVE  Over(d, p) \in Documents
  BY DEF Over, Documents

LEMMA ReadArrivesKeeps == ASSUME PreferencesInv, NEW q \in gets, ReadArrives(q) PROVE PreferencesInv'
<1>1. /\ gets' = gets \ {q} /\ known' = q.got /\ shown' = Over(q.got, q.over) /\ q.handled
      /\ UNCHANGED <<stored, address, due, saving, writes, sent, last, screen, hurried,
                     failed>>
  BY DEF ReadArrives, Effective
<1>2. q.got \in Documents /\ q.over \in Documents /\ screen \in Screens
  BY DEF PreferencesInv, PreferencesTypeOK, Gets
<1>3. Over(q.got, q.over) \in Documents
  BY <1>2, OverIsDocument
<1>4. PreferencesTypeOK'
  BY <1>1, <1>2, <1>3, SameScreen DEF PreferencesInv, PreferencesTypeOK
<1>5. AllWaited' /\ SavesAlone' /\ SavedInOrder'
  BY <1>1 DEF PreferencesInv, AllWaited, SavesAlone, SavedInOrder, Waited
<1>6. OptionsKept'
  <2>1. screen = "workflowList" =>
           shown'["options"] = IF q.over["options"] # 0 THEN q.over["options"]
                                                        ELSE q.got["options"]
    BY <1>1, <1>2, OverOptions
  <2>. QED
    BY <1>1, <2>1 DEF PreferencesInv, OptionsKept, AllAnswered
<1>7. TabShown'
  <2>1. screen = "runDetail" =>
           shown'["tab"] = IF q.over["tab"] # 0 THEN q.over["tab"] ELSE q.got["tab"]
    BY <1>1, <1>2, OverOptions
  <2>. QED
    BY <1>1, <2>1 DEF PreferencesInv, TabShown, AllAnswered
<1>. QED
  BY <1>4, <1>5, <1>6, <1>7 DEF PreferencesInv

LEMMA ReadFailsKeeps == ASSUME PreferencesInv, NEW q \in gets, ReadFails(q) PROVE PreferencesInv'
<1>1. /\ gets' = gets \ {q} /\ known' = Nothing /\ shown' = Nothing /\ failed' = TRUE
      /\ UNCHANGED <<stored, address, due, saving, writes, sent, last, screen, hurried>>
  BY DEF ReadFails
<1>2. PreferencesTypeOK'
  BY <1>1, NothingIsDocument, SameScreen DEF PreferencesInv, PreferencesTypeOK
<1>3. SavesAlone'
  BY <1>1 DEF PreferencesInv, SavesAlone, Waited
<1>. QED
  BY <1>1, <1>2, <1>3
  DEF PreferencesInv, AllWaited, SavedInOrder, OptionsKept, TabShown
-----------------------------------------------------------------------------
\* While no request failed, an operator who waits finds no write in flight.
LEMMA NoneInFlight ==
    ASSUME PreferencesInv, ~failed, Waited = {}
    PROVE  writes = {}
  BY DEF PreferencesInv, AllWaited, Waited

\* The write that Persist posts.
LEMMA PersistFacts ==
    ASSUME PreferencesInv, NEW k \in Keys, NEW x \in {0} \cup Values, Persist(k, x)
    PROVE  \E w \in Writes :
              /\ writes' = writes \cup {w} /\ w.waited /\ ~w.handled
              /\ saving' = TRUE /\ sent' \in Nat /\ last' \in Documents
              /\ last'[k] = x /\ w.doc[k] = x
              /\ \A j \in Keys \ {k} : last'[j] = last[j] /\ w.doc[j] = known[j]
              /\ Keys = {k} => w.doc = last'
<1>. DEFINE w == [id |-> sent + 1, doc |-> [known EXCEPT ![k] = x],
                  handled |-> FALSE, waited |-> TRUE]
<1>1. /\ known \in [Keys -> {0} \cup Values] /\ last \in [Keys -> {0} \cup Values]
      /\ sent \in Nat
  BY DEF PreferencesInv, PreferencesTypeOK, Documents
<1>2. [known EXCEPT ![k] = x] \in Documents /\ last' \in Documents
  BY <1>1 DEF Persist, Documents
<1>3. w \in Writes
  BY <1>1, <1>2 DEF Writes
<1>4. /\ last'[k] = x /\ w.doc[k] = x
      /\ \A j \in Keys \ {k} : last'[j] = last[j] /\ w.doc[j] = known[j]
  BY <1>1 DEF Persist
<1>5. Keys = {k} => w.doc = last'
  <2>. SUFFICES ASSUME Keys = {k} PROVE w.doc = last'
    OBVIOUS
  <2>1. \A j \in Keys : w.doc[j] = last'[j]
    BY <1>4
  <2>2. w.doc \in [Keys -> {0} \cup Values] /\ last' \in [Keys -> {0} \cup Values]
    BY <1>2 DEF Documents
  <2>. QED
    BY <2>1, <2>2
<1>6. /\ writes' = writes \cup {w} /\ w.waited /\ ~w.handled
      /\ saving' = TRUE /\ sent' \in Nat
  BY <1>1 DEF Persist
<1>. QED
  BY <1>2, <1>3, <1>4, <1>5, <1>6

LEMMA PersistKeeps ==
    ASSUME PreferencesInv, NEW k \in Keys, NEW x \in {0} \cup Values, Persist(k, x), Goes,
           address' \in Documents, due' \in Nat,
           UNCHANGED <<stored, known, shown, gets, screen, failed>>,
           k = "view" \/ (UNCHANGED <<address, due>> /\ ~saving),
           k = "view" => screen = "workflowList" /\ address'["options"] = address["options"],
           k = "tab" => address["tab"] \in {0, x}
    PROVE  PreferencesInv'
<1>1. PICK w \in Writes :
         /\ writes' = writes \cup {w} /\ w.waited /\ ~w.handled
         /\ saving' = TRUE /\ sent' \in Nat /\ last' \in Documents
         /\ last'[k] = x /\ w.doc[k] = x
         /\ \A j \in Keys \ {k} : last'[j] = last[j] /\ w.doc[j] = known[j]
         /\ Keys = {k} => w.doc = last'
  BY PersistFacts
<1>2. /\ screen = "runDetail" => Keys = {"tab"}
      /\ screen = "workflowList" => Keys = {"view", "options"}
      /\ screen = "table" => Keys = {"options"}
      /\ screen \in Screens
  BY KeysOfScreen DEF PreferencesInv, PreferencesTypeOK
<1>3. hurried' = (hurried \/ ~AllAnswered)
  BY DEF Goes
<1>4. PreferencesTypeOK'
  BY <1>1, <1>2, <1>3, SameScreen DEF PreferencesInv, PreferencesTypeOK
<1>5. AllWaited'
  BY <1>1 DEF PreferencesInv, AllWaited
<1>6. w \in Waited' /\ Waited' \subseteq Waited \cup {w}
  BY <1>1 DEF Waited
<1>7. screen # "workflowList" => Waited = {}
  BY DEF PreferencesInv, SavesAlone
<1>8. SavesAlone'
  BY <1>1, <1>6, <1>7 DEF SavesAlone
<1>9. SavedInOrder'
  <2>. SUFFICES ASSUME screen # "workflowList", ~failed PROVE SavedInOrder'
    BY DEF SavedInOrder
  <2>1. writes = {}
    BY <1>7, NoneInFlight
  <2>2. Keys = {k}
    BY <1>2 DEF Screens
  <2>. QED
    BY <1>1, <2>1, <2>2 DEF SavedInOrder
<1>10. OptionsKept'
  <2>. SUFFICES ASSUME screen = "workflowList", ~failed, ~hurried' PROVE OptionsKept'
    BY DEF OptionsKept
  <2>1. ~hurried /\ AllAnswered
    BY <1>3
  <2>2. due = 0 /\ gets = {} /\ writes = {}
    BY <2>1, NoneInFlight DEF AllAnswered
  <2>3. /\ stored["options"] = last["options"] /\ known["options"] = last["options"]
    BY <2>1, <2>2 DEF PreferencesInv, OptionsKept
  <2>4. ~AllAnswered'
    BY <1>6 DEF AllAnswered
  <2>5. CASE k = "view"
    <3>1. last'["options"] = last["options"] /\ w.doc["options"] = known["options"]
      BY <1>1, <1>2, <2>5
    <3>. QED
      BY <1>1, <2>2, <2>3, <2>4, <3>1 DEF OptionsKept
  <2>6. CASE k = "options"
    <3>1. due' = 0 /\ gets' = {} /\ writes' = {w} /\ writes' # {}
      BY <1>1, <2>2, <2>6
    <3>2. w.doc["options"] = last'["options"]
      BY <1>1, <2>6
    <3>3. \A u \in writes' : u.doc["options"] = last'["options"]
      BY <3>1, <3>2
    <3>4. \A u \in writes' : ~u.handled
      BY <1>1, <3>1
    <3>. QED
      BY <2>4, <3>1, <3>3, <3>4 DEF OptionsKept
  <2>. QED
    BY <1>2, <2>5, <2>6
<1>11. TabShown'
  <2>. SUFFICES ASSUME screen = "runDetail", ~failed, ~hurried' PROVE TabShown'
    BY DEF TabShown
  <2>1. k = "tab"
    BY <1>2
  <2>2. due = 0 /\ gets = {} /\ writes = {}
    BY <1>3, NoneInFlight DEF AllAnswered
  <2>3. ~AllAnswered'
    BY <1>6 DEF AllAnswered
  <2>4. due' = 0 /\ gets' = {} /\ writes' = {w} /\ writes' # {}
    BY <1>1, <2>1, <2>2
  <2>5. \A u \in writes' : address'["tab"] \in {0, u.doc["tab"]}
    BY <1>1, <2>1, <2>4
  <2>. QED
    BY <2>3, <2>4, <2>5 DEF TabShown
<1>. QED
  BY <1>4, <1>5, <1>8, <1>9, <1>10, <1>11 DEF PreferencesInv

\* The address changes, and the screen will read again.
LEMMA GoingKeeps ==
    ASSUME PreferencesInv, Goes, address' \in Documents, due' = due + 1,
           UNCHANGED <<stored, known, shown, saving, gets, writes, sent, last, screen,
                       failed>>
    PROVE  PreferencesInv'
<1>1. hurried' = (hurried \/ ~AllAnswered)
  BY DEF Goes
<1>2. PreferencesTypeOK'
  BY <1>1, SameScreen DEF PreferencesInv, PreferencesTypeOK
<1>3. AllWaited' /\ SavesAlone' /\ SavedInOrder'
  BY DEF PreferencesInv, AllWaited, SavesAlone, SavedInOrder, Waited
<1>4. due' > 0 /\ ~AllAnswered'
  BY DEF PreferencesInv, PreferencesTypeOK, AllAnswered
<1>5. ~failed /\ ~hurried' => ~hurried /\ gets = {} /\ writes = {}
  BY <1>1, NoneInFlight DEF AllAnswered
<1>6. OptionsKept'
  BY <1>4, <1>5 DEF PreferencesInv, OptionsKept
<1>7. TabShown'
  BY <1>4, <1>5 DEF PreferencesInv, TabShown
<1>. QED
  BY <1>2, <1>3, <1>6, <1>7 DEF PreferencesInv

LEMMA HandleWriteKeeps == ASSUME PreferencesInv, NEW w \in writes, HandleWrite(w) PROVE PreferencesInv'
<1>. DEFINE v == [w EXCEPT !.handled = TRUE]
<1>1. /\ ~w.handled /\ stored' = w.doc
      /\ writes' = (writes \ {w}) \cup (IF w.waited THEN {v} ELSE {})
      /\ UNCHANGED <<address, due, known, shown, saving, gets, sent, last, screen,
                     hurried, failed>>
  BY DEF HandleWrite
<1>2. /\ w \in Writes /\ v \in Writes /\ v.doc = w.doc /\ v.waited = w.waited
      /\ v.handled = TRUE
  BY DEF PreferencesInv, PreferencesTypeOK, Writes
<1>. HIDE DEF v
<1>3. PreferencesTypeOK'
  BY <1>1, <1>2, SameScreen DEF PreferencesInv, PreferencesTypeOK, Writes
<1>4. AllWaited'
  BY <1>1, <1>2 DEF PreferencesInv, AllWaited
<1>5. Waited' = (Waited \ {w}) \cup (IF w.waited THEN {v} ELSE {})
  BY <1>1, <1>2 DEF Waited
<1>6. w.waited <=> w \in Waited
  BY DEF Waited
<1>7. SavesAlone'
  BY <1>1, <1>5, <1>6 DEF PreferencesInv, SavesAlone
<1>8. SavedInOrder'
  BY <1>1, <1>2 DEF PreferencesInv, SavedInOrder
<1>9. ~failed => v \in Waited'
  BY <1>5 DEF PreferencesInv, AllWaited
<1>10. OptionsKept'
  BY <1>1, <1>2, <1>9 DEF PreferencesInv, OptionsKept, AllAnswered
<1>11. TabShown'
  BY <1>1, <1>2, <1>9 DEF PreferencesInv, TabShown, AllAnswered
<1>. QED
  BY <1>3, <1>4, <1>7, <1>8, <1>10, <1>11 DEF PreferencesInv

LEMMA WriteArrivesKeeps == ASSUME PreferencesInv, NEW w \in writes, WriteArrives(w) PROVE PreferencesInv'
<1>1. /\ w.handled /\ writes' = writes \ {w} /\ known' = w.doc /\ shown' = w.doc
      /\ saving' = FALSE
      /\ UNCHANGED <<stored, address, due, gets, sent, last, screen, hurried, failed>>
  BY DEF WriteArrives, SavingAfter
<1>2. w \in Waited /\ Waited' = Waited \ {w} /\ w.doc \in Documents
  BY <1>1 DEF PreferencesInv, AllWaited, Waited, PreferencesTypeOK, Writes
<1>3. PreferencesTypeOK'
  BY <1>1, <1>2, SameScreen DEF PreferencesInv, PreferencesTypeOK
<1>4. AllWaited' /\ SavesAlone' /\ SavedInOrder'
  BY <1>1, <1>2 DEF PreferencesInv, AllWaited, SavesAlone, SavedInOrder
<1>5. OptionsKept'
  BY <1>1 DEF PreferencesInv, OptionsKept, AllAnswered
<1>6. TabShown'
  <2>1. screen = "runDetail" /\ ~failed => stored = w.doc
    BY <1>1 DEF PreferencesInv, SavedInOrder
  <2>. QED
    BY <1>1, <2>1 DEF PreferencesInv, TabShown, AllAnswered
<1>. QED
  BY <1>3, <1>4, <1>5, <1>6 DEF PreferencesInv

LEMMA WriteFailsKeeps == ASSUME PreferencesInv, NEW w \in writes, WriteFails(w) PROVE PreferencesInv'
<1>. DEFINE v == [w EXCEPT !.waited = FALSE]
<1>1. /\ w.waited /\ failed' = TRUE /\ saving' = FALSE
      /\ writes' = (writes \ {w}) \cup (IF w.handled THEN {} ELSE {v})
      /\ UNCHANGED <<stored, address, due, known, shown, gets, sent, last, screen,
                     hurried>>
  BY DEF WriteFails, SavingAfter
<1>2. v \in Writes /\ v.waited = FALSE /\ v.handled = w.handled
  BY DEF PreferencesInv, PreferencesTypeOK, Writes
<1>. HIDE DEF v
<1>3. PreferencesTypeOK'
  BY <1>1, <1>2, SameScreen DEF PreferencesInv, PreferencesTypeOK
<1>4. AllWaited'
  BY <1>1, <1>2 DEF PreferencesInv, AllWaited
<1>5. w \in Waited /\ Waited' = Waited \ {w}
  BY <1>1, <1>2 DEF Waited
<1>6. SavesAlone'
  BY <1>1, <1>5 DEF PreferencesInv, SavesAlone
<1>. QED
  BY <1>1, <1>3, <1>4, <1>6 DEF PreferencesInv, SavedInOrder, OptionsKept, TabShown

LEMMA SetTabKeeps == ASSUME PreferencesInv, NEW t \in Values, SetTab(t) PROVE PreferencesInv'
<1>1. "tab" \in Keys /\ Keys = {"tab"} /\ address \in [Keys -> {0} \cup Values] /\ due \in Nat
  BY KeysOfScreen DEF SetTab, PreferencesInv, PreferencesTypeOK, Documents
<1>2. CASE /\ address' = [address EXCEPT !["tab"] = t]
           /\ due' = due + 1 /\ UNCHANGED <<saving, writes, sent, last>>
  <2>1. address' \in Documents
    BY <1>1, <1>2 DEF Documents
  <2>. QED
    BY <1>2, <2>1, GoingKeeps DEF SetTab
<1>3. CASE address["tab"] \in {0, t} /\ Persist("tab", t) /\ UNCHANGED <<address, due>>
  <2>1. address' \in Documents /\ due' \in Nat /\ t \in {0} \cup Values
    BY <1>1, <1>3 DEF Documents
  <2>. QED
    BY <1>1, <1>3, <2>1, PersistKeeps DEF SetTab, Enabled
<1>. QED
  BY <1>2, <1>3 DEF SetTab, PickTab

LEMMA SelectViewKeeps ==
    ASSUME PreferencesInv, NEW v \in {0} \cup Values, SelectView(v)
    PROVE  PreferencesInv'
<1>1. /\ Keys = {"view", "options"} /\ address \in [Keys -> {0} \cup Values] /\ due \in Nat
      /\ screen = "workflowList"
  BY KeysOfScreen DEF SelectView, PreferencesInv, PreferencesTypeOK, Documents
<1>2. address' \in Documents
  BY <1>1 DEF SelectView, Documents
<1>3. address'["options"] = address["options"]
  BY <1>1 DEF SelectView
<1>4. due' \in Nat
  BY <1>1 DEF SelectView
<1>5. /\ Persist("view", v) /\ Goes
      /\ UNCHANGED <<stored, known, shown, gets, screen, failed>>
  BY DEF SelectView
<1>. QED
  BY <1>1, <1>2, <1>3, <1>4, <1>5, PersistKeeps

LEMMA SaveOptionsKeeps ==
    ASSUME PreferencesInv, NEW x \in Values, SaveOptions(x)
    PROVE  PreferencesInv'
<1>1. "options" \in Keys /\ address \in Documents /\ due \in Nat
  BY KeysOfScreen DEF SaveOptions, PreferencesInv, PreferencesTypeOK, Screens
<1>2. address' \in Documents /\ due' \in Nat
  BY <1>1 DEF SaveOptions
<1>. QED
  BY <1>1, <1>2, PersistKeeps DEF SaveOptions, Enabled

LEMMA PreferencesKeep == PreferencesInv /\ [PreferencesNext]_preferencesVars => PreferencesInv'
<1>. SUFFICES ASSUME PreferencesInv, [PreferencesNext]_preferencesVars PROVE PreferencesInv'
  OBVIOUS
<1>1. CASE SendRead
  BY <1>1, SendReadKeeps
<1>2. ASSUME NEW q \in gets, HandleRead(q) \/ ReadArrives(q) \/ ReadFails(q) PROVE PreferencesInv'
  BY <1>2, HandleReadKeeps, ReadArrivesKeeps, ReadFailsKeeps
<1>3. ASSUME NEW t \in Values, SetTab(t) \/ SaveOptions(t) PROVE PreferencesInv'
  BY <1>3, SetTabKeeps, SaveOptionsKeeps
<1>4. ASSUME NEW v \in {0} \cup Values, SelectView(v) PROVE PreferencesInv'
  BY <1>4, SelectViewKeeps
<1>5. ASSUME NEW a \in Documents, GoTo(a) PROVE PreferencesInv'
  BY <1>5, GoingKeeps DEF GoTo
<1>6. ASSUME NEW w \in writes, HandleWrite(w) \/ WriteArrives(w) \/ WriteFails(w)
      PROVE  PreferencesInv'
  BY <1>6, HandleWriteKeeps, WriteArrivesKeeps, WriteFailsKeeps
<1>7. CASE UNCHANGED preferencesVars
  <2>. USE <1>7 DEF preferencesVars
  <2>1. PreferencesTypeOK'
    BY SameScreen DEF PreferencesInv, PreferencesTypeOK
  <2>2. AllWaited' /\ SavesAlone' /\ SavedInOrder'
    BY DEF PreferencesInv, AllWaited, SavesAlone, SavedInOrder, Waited
  <2>3. OptionsKept' /\ TabShown'
    BY DEF PreferencesInv, OptionsKept, TabShown, AllAnswered, Waited
  <2>. QED
    BY <2>1, <2>2, <2>3 DEF PreferencesInv
<1>. QED
  BY <1>1, <1>2, <1>3, <1>4, <1>5, <1>6, <1>7 DEF PreferencesNext

\* What the theorem follows from: no two saves overlap where only the buttons
\* save, and for an operator who waits no read and no save can bring an older
\* choice back.
THEOREM PreferencesInvariance == PreferencesSafeSpec => []PreferencesInv
<1>1. PreferencesInit => PreferencesInv
  BY PreferencesStart
<1>2. PreferencesInv /\ [PreferencesNext]_preferencesVars => PreferencesInv'
  BY PreferencesKeep
<1>. QED
  BY <1>1, <1>2, PTL DEF PreferencesSafeSpec

LEMMA SavingOwned == PreferencesInv => SavingIsOwned
<1>. SUFFICES ASSUME PreferencesInv PROVE SavingIsOwned
  OBVIOUS
<1>1. SavesAlone
  BY DEF PreferencesInv
<1>2. ASSUME screen # "workflowList" PROVE Cardinality(Waited) <= 1
  <2>1. CASE Waited = {}
    BY <2>1, FS_EmptySet
  <2>2. CASE Waited # {}
    <3>1. PICK w : w \in Waited
      BY <2>2
    <3>2. Waited = {w}
      BY <1>1, <1>2, <3>1 DEF SavesAlone
    <3>3. Cardinality(Waited) = 1
      BY <3>2, FS_Singleton
    <3>. QED
      BY <3>3
  <2>. QED
    BY <2>1, <2>2
<1>. QED
  BY <1>1, <1>2 DEF SavesAlone, SavingIsOwned

LEMMA ShownStored == PreferencesInv => ShownIsStored
<1>. SUFFICES ASSUME PreferencesInv, ~hurried, ~failed, AllAnswered
     PROVE  /\ screen = "runDetail" => shown = Over(stored, address)
            /\ screen = "workflowList" =>
                  shown["options"] \in {stored["options"], address["options"]}
  BY DEF ShownIsStored
<1>1. writes = {}
  BY NoneInFlight DEF AllAnswered
<1>2. ASSUME screen = "runDetail" PROVE shown = Over(stored, address)
  <2>1. Keys = {"tab"}
    BY <1>2, KeysOfScreen DEF PreferencesInv, PreferencesTypeOK
  <2>2. /\ shown \in Documents /\ Over(stored, address) \in Documents
    BY OverIsDocument DEF PreferencesInv, PreferencesTypeOK
  <2>3. Over(stored, address)["tab"] =
           IF address["tab"] # 0 THEN address["tab"] ELSE stored["tab"]
    BY <1>2, OverOptions DEF PreferencesInv, PreferencesTypeOK
  <2>4. shown["tab"] = Over(stored, address)["tab"]
    BY <1>2, <2>3 DEF PreferencesInv, TabShown
  <2>. QED
    BY <2>1, <2>2, <2>4 DEF Documents
<1>3. screen = "workflowList" => shown["options"] \in {stored["options"], address["options"]}
  BY <1>1 DEF PreferencesInv, OptionsKept
<1>. QED
  BY <1>2, <1>3

\* Whatever order reads and saves are handled and answered in, the operator
\* finds the last choice again, in the store and on the screen, as long as no
\* request fails; and a screen that waits for a save has one on its way.
THEOREM ChoicesKept == PreferencesSafeSpec => []ChoicesAreKept
<1>1. PreferencesInv => LastSaveStored
  BY DEF PreferencesInv, SavedInOrder, OptionsKept, LastSaveStored
<1>2. PreferencesInv => ChoicesAreKept
  BY <1>1, SavingOwned, ShownStored DEF ChoicesAreKept
<1>. QED
  BY <1>2, PreferencesInvariance, PTL
=============================================================================
