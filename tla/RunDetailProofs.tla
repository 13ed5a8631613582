-------------------------- MODULE RunDetailProofs ---------------------------
(***************************************************************************)
(* Theorems about RunDetail, for every set of runs, every page size and    *)
(* every number of reads, about the page it is shown on (RunTimeline), and *)
(* about what that page tells of a run (RunFacts), for every answer.       *)
(***************************************************************************)
EXTENDS MCRunTimeline, FieldsProofs, FiniteSetTheorems, TLAPS

\* Reads in flight are numbered apart, none beyond the newest; only the
\* operator opens a legacy route, so the redirect stays within the bound.
ReadsNumbered ==
    /\ \A q \in reads : q.id \in 1..historyPageRequest
    /\ \A p, q \in reads : p.id = q.id => p = q
    /\ \A q \in reads : q.op = "legacy" => q.id <= MaxReads

\* What the screen remembers of the newest read while it is in flight.
NewestRemembered ==
    \A q \in reads : IsNewest(q) =>
        IF q.op = "page"
          THEN /\ ready
               /\ flow.run \in V2Runs
               /\ q.path = FlowEndpoint(FALSE, flow.next)
               /\ flow.next # NoToken
          ELSE /\ q.path = lastFlowPath
               /\ ~ready /\ ~loadingError

\* The detail on display is either nothing or an answer for its run.
FlowIsAnswer ==
    /\ IsFiniteSet(flow.events)
    /\ \A e \in flow.events : e.run = flow.run
    /\ flow.next # NoToken => flow.run \in V2Runs /\ flow.next.run = flow.run
    /\ flow.run \in Runs /\ flow.complete /\ ~Service => flow.total \in Nat

\* The flags of the screen exclude each other as its template expects.
FlagsOK ==
    /\ ready => flow.run \in Runs /\ ~loadingError
    /\ ready \/ loadingError => historyPageRequest > 0
    /\ loadingMoreHistory => ready

\* An address the server understands: run addresses are of runs with an
\* instance, and a cursor is only sent to the run it belongs to.
GoodPath(p) ==
    /\ p \in Path
    /\ p.kind = "run" => p.id \in V2Runs
    /\ p.page # NoToken => p.kind = "run" /\ p.page.run = p.id

PathsOK ==
    /\ \A q \in reads : GoodPath(q.path)
    /\ historyPageRequest > 0 => GoodPath(lastFlowPath)

ServerOK == \A i \in Instances : InstanceOf[currentRun[i]] = i

IInv ==
    /\ TypeOK
    /\ ServerOK
    /\ ReadsNumbered
    /\ NewestRemembered
    /\ FlowIsAnswer
    /\ FlagsOK
    /\ PathsOK
    /\ ShownRunIsRequested
    /\ WaitingIsOwned

-----------------------------------------------------------------------------
(* The server's answers are run details of the run they address. *)

LEMMA WindowType ==
    ASSUME NEW r \in Runs, NEW lo \in Nat, NEW hi \in Nat
    PROVE  /\ Window(r, lo, hi) \subseteq Event
           /\ IsFiniteSet(Window(r, lo, hi))
           /\ \A e \in Window(r, lo, hi) : e.run = r
<1>1. Window(r, lo, hi) \subseteq Event
  BY DEF Window, Event
<1>2. IsFiniteSet(lo..hi)
  BY FS_Interval
<1>3. IsFiniteSet(Window(r, lo, hi))
  <2> DEFINE f == [n \in lo..hi |-> [run |-> r, seq |-> n]]
  <2>1. f \in Surjection(lo..hi, Window(r, lo, hi))
    BY DEF Surjection, Window
  <2> QED
    BY <2>1, <1>2, FS_Surjection
<1>4. \A e \in Window(r, lo, hi) : e.run = r
  BY DEF Window
<1> QED
  BY <1>1, <1>3, <1>4

LEMMA AddressedRunType ==
    ASSUME TypeOK, ServerOK, NEW path \in Path
    PROVE  /\ AddressedRun(path) \in Runs
           /\ Selects(path, AddressedRun(path))
  BY RunDetailAssumption DEF TypeOK, ServerOK, Path, AddressedRun, Selects, V2Runs

LEMMA ForwardPageType ==
    ASSUME TypeOK, NEW r \in Runs, NEW path \in Path, NEW limit \in Nat, NEW id \in Nat,
           path.page # NoToken => path.page.run = r
    PROVE  LET d == ForwardPage(r, path, limit, id)
           IN  /\ d \in Detail
               /\ d.run = r /\ d.read = id
               /\ d.complete = ~IsBounded(path)
               /\ IsFiniteSet(d.events)
               /\ \A e \in d.events : e.run = r
               /\ d.next # NoToken => d.next.run = r
<1> DEFINE tok == path.page
           through == IF tok = NoToken THEN hist[r] ELSE tok.through
           last == IF r \in pruned THEN tok.after ELSE Least(tok.after + limit, through)
           more == r \notin pruned /\ last < through
           d == ForwardPage(r, path, limit, id)
<1>1. tok \in Tokens /\ tok.after \in Nat
  BY DEF Path, Tokens, Token, NoToken
<1>2. through \in Nat
  BY <1>1, RunDetailAssumption DEF TypeOK, Tokens, Token, NoToken
<1>3. last \in Nat
  BY <1>1, <1>2 DEF Least
<1> HIDE DEF tok, last, through
<1>4. /\ Window(r, tok.after + 1, last) \subseteq Event
      /\ IsFiniteSet(Window(r, tok.after + 1, last))
      /\ \A e \in Window(r, tok.after + 1, last) : e.run = r
  <2>1. tok.after + 1 \in Nat
    BY <1>1
  <2> QED
    BY <2>1, <1>3, WindowType
<1>5. [run |-> r, after |-> last, through |-> through] \in Tokens
  BY <1>2, <1>3 DEF Tokens, Token
<1>6. d.events = Window(r, tok.after + 1, last)
  BY DEF ForwardPage, tok, last, through
<1>7. d.next \in Tokens /\ (d.next # NoToken => d.next.run = r)
  BY <1>5 DEF ForwardPage, tok, last, through, Tokens
<1>8. d.total \in Nat \cup {Unknown}
  BY <1>3 DEF ForwardPage, tok, last, through
<1>9. d \in Detail
  BY <1>4, <1>6, <1>7, <1>8 DEF ForwardPage, Detail, IsBounded
<1> QED
  BY <1>4, <1>6, <1>7, <1>9 DEF ForwardPage

LEMMA LatestWindowType ==
    ASSUME TypeOK, NEW r \in Runs, NEW limit \in Nat, NEW id \in Nat
    PROVE  LET d == LatestWindow(r, limit, id)
           IN  /\ d \in Detail
               /\ d.run = r /\ d.read = id /\ d.complete
               /\ IsFiniteSet(d.events)
               /\ \A e \in d.events : e.run = r
               /\ d.next = NoToken
               /\ d.total \in Nat
<1> DEFINE total == IF r \in pruned THEN 0 ELSE hist[r]
           first == IF total > limit THEN total - limit + 1 ELSE 1
           d == LatestWindow(r, limit, id)
<1>1. total \in Nat /\ first \in Nat
  BY RunDetailAssumption DEF TypeOK
<1>2. /\ Window(r, first, total) \subseteq Event
      /\ IsFiniteSet(Window(r, first, total))
      /\ \A e \in Window(r, first, total) : e.run = r
  BY <1>1, WindowType
<1> HIDE DEF total, first
<1>3. d.events = Window(r, first, total) /\ d.total = total
  BY DEF LatestWindow, total, first
<1>4. d \in Detail
  BY <1>1, <1>2, <1>3 DEF LatestWindow, Detail, Tokens
<1> QED
  BY <1>1, <1>2, <1>3, <1>4 DEF LatestWindow

LEMMA AnswerType ==
    ASSUME TypeOK, ServerOK, NEW q \in Read,
           q.path.page # NoToken => q.path.page.run = AddressedRun(q.path),
           AddressedRun(q.path) \notin V2Runs => q.path.kind = "flow"
    PROVE  LET d == Answer(q)
           IN  /\ d \in Detail
               /\ d.run = AddressedRun(q.path) /\ d.read = q.id
               /\ d.complete = ~IsBounded(q.path)
               /\ IsFiniteSet(d.events)
               /\ \A e \in d.events : e.run = d.run
               /\ d.next # NoToken => d.run \in V2Runs /\ d.next.run = d.run
               /\ d.complete /\ ~Service => d.total \in Nat
<1> DEFINE r == AddressedRun(q.path)
<1>0. q.path \in Path /\ q.id \in Nat /\ q.limit \in Nat
  BY DEF Read
<1>1. r \in Runs
  BY <1>0, AddressedRunType
<1> HIDE DEF r
<1>2. CASE IsBounded(q.path) \/ Service
  <2>1. Answer(q) = ForwardPage(r, q.path, q.limit, q.id)
    BY <1>2 DEF Answer, r
  <2>2. r \in V2Runs
    BY <1>1, <1>2, RunDetailAssumption DEF IsBounded, V2Runs, r
  <2>3. q.path.page # NoToken => q.path.page.run = r
    BY DEF r
  <2> DEFINE d == ForwardPage(r, q.path, q.limit, q.id)
  <2>4. /\ d \in Detail
        /\ d.run = r /\ d.read = q.id
        /\ d.complete = ~IsBounded(q.path)
        /\ IsFiniteSet(d.events)
        /\ \A e \in d.events : e.run = r
        /\ d.next # NoToken => d.next.run = r
    BY <1>0, <1>1, <2>3, ForwardPageType
  <2>5. d.complete /\ ~Service => d.total \in Nat
    BY <1>2, <2>4
  <2> HIDE DEF d
  <2> QED
    BY <2>1, <2>2, <2>4, <2>5 DEF r, d
<1>3. CASE ~(IsBounded(q.path) \/ Service)
  <2>1. Answer(q) = LatestWindow(r, q.limit, q.id)
    BY <1>3 DEF Answer, r
  <2> DEFINE d == LatestWindow(r, q.limit, q.id)
  <2>2. /\ d \in Detail
        /\ d.run = r /\ d.read = q.id /\ d.complete
        /\ IsFiniteSet(d.events)
        /\ \A e \in d.events : e.run = r
        /\ d.next = NoToken
        /\ d.total \in Nat
    BY <1>0, <1>1, LatestWindowType
  <2>3. d.complete = ~IsBounded(q.path)
    BY <1>3, <2>2 DEF LatestWindow
  <2> HIDE DEF d
  <2> QED
    BY <2>1, <2>2, <2>3 DEF r, d
<1> QED
  BY <1>2, <1>3

LEMMA AppendType ==
    ASSUME NEW current \in Detail, NEW page \in Detail,
           IsFiniteSet(current.events), IsFiniteSet(page.events),
           current.run = page.run,
           \A e \in current.events : e.run = current.run,
           \A e \in page.events : e.run = page.run
    PROVE  LET d == AppendRunHistoryPage(current, page)
           IN  /\ d \in Detail
               /\ d.run = page.run /\ d.read = page.read
               /\ d.complete = page.complete /\ d.next = page.next
               /\ IsFiniteSet(d.events)
               /\ \A e \in d.events : e.run = d.run
               /\ current.events \subseteq d.events
<1> DEFINE paged == {e.seq : e \in page.events}
           merged == page.events \cup {e \in current.events : e.seq \notin paged}
           d == AppendRunHistoryPage(current, page)
<1>1. merged \subseteq Event /\ \A e \in merged : e.run = page.run
  BY DEF Detail
<1>2. IsFiniteSet(merged)
  <2>1. IsFiniteSet({e \in current.events : e.seq \notin paged})
    BY FS_Subset
  <2> QED
    BY <2>1, FS_Union
<1>3. Cardinality(merged) \in Nat
  BY <1>2, FS_CardinalityType
<1>4. current.events \subseteq merged
  <2> SUFFICES ASSUME NEW e \in current.events, e.seq \in paged
               PROVE  e \in page.events
    OBVIOUS
  <2>1. PICK f \in page.events : f.seq = e.seq
    OBVIOUS
  <2>2. e \in Event /\ f \in Event /\ e.run = f.run
    BY DEF Detail
  <2>3. e = f
    BY <2>1, <2>2 DEF Event
  <2> QED
    BY <2>3
<1> HIDE DEF merged
<1>5. /\ d.events = merged
      /\ d.run = page.run /\ d.read = page.read
      /\ d.complete = page.complete /\ d.next = page.next
  BY DEF AppendRunHistoryPage, merged, Detail
<1>6. d \in Detail
  BY <1>1, <1>3 DEF AppendRunHistoryPage, merged, Detail
<1> QED
  BY <1>1, <1>2, <1>4, <1>5, <1>6
-----------------------------------------------------------------------------
(* Every way to open a run goes through fetchFlow. *)

LEMMA RouteIsGoodPath ==
    ASSUME NEW rt \in Routes
    PROVE  GoodPath(rt) /\ rt = [kind |-> rt.kind, id |-> rt.id,
                                 complete |-> rt.complete, page |-> rt.page]
<1>1. CASE rt \in RunRoutes /\ rt.page.run \in {NoRun, rt.id}
  <2>1. rt.page \in Tokens
    <3>1. \A s \in V2Runs, n \in Bookmarks : BookmarkToken(s, n) \in Token
      BY RunDetailAssumption DEF Token, BookmarkToken, V2Runs
    <3>2. rt.page = NoToken \/ \E s \in V2Runs, n \in Bookmarks : rt.page = BookmarkToken(s, n)
      BY <1>1 DEF RunRoutes
    <3> QED
      BY <3>1, <3>2 DEF Tokens
  <2>2. rt.page # NoToken => rt.page.run = rt.id
    BY <1>1, <2>1, RunDetailAssumption DEF Tokens, Token
  <2> QED
    BY <1>1, <2>1, <2>2 DEF GoodPath, Path, RunRoutes, V2Runs
<1>2. CASE rt \in InstanceRoutes
  BY <1>2 DEF GoodPath, Path, Tokens, InstanceRoutes
<1>3. CASE rt \in FlowRoutes
  BY <1>3 DEF GoodPath, Path, Tokens, FlowRoutes
<1> QED
  BY <1>1, <1>2, <1>3 DEF Routes

LEMMA FetchFlowKeepsIInv ==
    ASSUME IInv,
           NEW op \in {"open", "legacy"}, NEW path, NEW limit \in Nat,
           NEW inFlight \in SUBSET reads,
           GoodPath(path),
           historyPageRequest <= MaxReads,
           op = "legacy" => historyPageRequest < MaxReads,
           FetchFlow(op, path, limit, inFlight),
           route' \in Routes,
           flow' \in Detail, FlowIsAnswer',
           UNCHANGED server
    PROVE  IInv'
<1> DEFINE n == historyPageRequest + 1
           new == [id |-> n, op |-> op, path |-> path, limit |-> limit]
<1>0. TypeOK /\ historyPageRequest \in Nat /\ n \in 1..(MaxReads + 1)
  BY RunDetailAssumption DEF IInv, TypeOK
<1>1. /\ historyPageRequest' = n
      /\ reads' = inFlight \cup {new}
      /\ ~loadingMoreHistory' /\ ~ready' /\ ~loadingError'
      /\ lastFlowPath' = path
  BY DEF FetchFlow
<1>2. new \in Read /\ path \in Path
  BY <1>0 DEF Read, GoodPath
<1>3. TypeOK'
  <2>1. reads' \subseteq Read
    BY <1>0, <1>1, <1>2 DEF TypeOK
  <2>2. /\ ready' \in BOOLEAN /\ loadingError' \in BOOLEAN
        /\ loadingMoreHistory' \in BOOLEAN /\ historyLoadError' \in BOOLEAN
        /\ historyLimit' \in Nat
        /\ lastFlowPath' \in Path \cup {NoPath}
    BY <1>2 DEF FetchFlow
  <2>3. /\ hist' \in [Runs -> 0..MaxEvents] /\ pruned' \subseteq Runs
        /\ currentRun' \in [Instances -> V2Runs]
    BY <1>0 DEF TypeOK, server
  <2>4. historyPageRequest' \in 0..(MaxReads + 1)
    BY <1>0, <1>1, RunDetailAssumption
  <2> QED
    BY <2>1, <2>2, <2>3, <2>4 DEF TypeOK
<1>4. ServerOK'
  BY DEF IInv, ServerOK, server
<1>5. \A q \in inFlight : q.id \in 1..historyPageRequest
  BY DEF IInv, ReadsNumbered
<1>6. ReadsNumbered'
  BY <1>0, <1>1, <1>5, RunDetailAssumption DEF IInv, ReadsNumbered
<1>7. NewestRemembered'
  <2> SUFFICES ASSUME NEW q \in reads', q.id = historyPageRequest'
               PROVE  q.op # "page" /\ q.path = lastFlowPath' /\ ~ready' /\ ~loadingError'
    BY DEF NewestRemembered, IsNewest
  <2>1. q = new
    BY <1>0, <1>1, <1>5
  <2> QED
    BY <1>1, <2>1
<1>8. FlagsOK' /\ ShownRunIsRequested'
  BY <1>0, <1>1 DEF FlagsOK, ShownRunIsRequested
<1>9. PathsOK'
  <2>1. \A q \in reads' : GoodPath(q.path)
    BY <1>1 DEF IInv, PathsOK
  <2> QED
    BY <1>1, <2>1 DEF PathsOK, GoodPath, V2Runs
<1>10. WaitingIsOwned'
  <2>1. new \in reads' /\ new.id = historyPageRequest' /\ new.op # "page"
    BY <1>1
  <2> QED
    BY <1>1, <2>1 DEF WaitingIsOwned, IsNewest
<1> QED
  BY <1>3, <1>4, <1>6, <1>7, <1>8, <1>9, <1>10 DEF IInv
-----------------------------------------------------------------------------
(* The operator's actions. *)

LEMMA FlowEndpointIsGood ==
    ASSUME TypeOK, FlowIsAnswer, flow.run \in Runs, NEW c \in BOOLEAN,
           NEW t \in {NoToken, flow.next}
    PROVE  GoodPath(FlowEndpoint(c, t)) /\ FlowEndpoint(c, t).id = flow.run
<1>1. t \in Tokens
  BY DEF TypeOK, Detail, Tokens
<1>2. t # NoToken => flow.run \in V2Runs /\ t.run = flow.run
  BY DEF FlowIsAnswer
<1> QED
  BY <1>1, <1>2 DEF FlowEndpoint, GoodPath, Path

LEMMA RouteLoadKeepsIInv ==
    ASSUME IInv, NEW rt \in Routes, NEW inFlight \in SUBSET reads,
           LoadRouteFlow(rt, inFlight),
           historyPageRequest <= MaxReads,
           rt.kind = "flow" => historyPageRequest < MaxReads,
           route' \in Routes, flow' \in Detail, FlowIsAnswer', UNCHANGED server
    PROVE  IInv'
<1> DEFINE op == IF rt.kind = "flow" THEN "legacy" ELSE "open"
<1>1. FetchFlow(op, rt, PageSize, inFlight)
  BY RouteIsGoodPath DEF LoadRouteFlow
<1>2. op \in {"open", "legacy"} /\ (op = "legacy" => rt.kind = "flow")
  OBVIOUS
<1>3. PageSize \in Nat
  BY RunDetailAssumption
<1> HIDE DEF op
<1> QED
  BY <1>1, <1>2, <1>3, RouteIsGoodPath, FetchFlowKeepsIInv

ContinuesFlow(path) == path = FlowEndpoint(FALSE, flow.next)

\* What LoadHistoryPage changes, for the address it reads.
PageRead(path) ==
    /\ historyPageRequest' = historyPageRequest + 1
    /\ reads' = reads \cup {[id |-> historyPageRequest + 1, op |-> "page",
                             path |-> path, limit |-> historyLimit]}
    /\ loadingMoreHistory' = TRUE
    /\ historyLoadError' = FALSE
    /\ UNCHANGED <<route, flow, ready, loadingError, lastFlowPath, historyLimit, server>>

LEMMA PageReadKeepsIInv ==
    ASSUME IInv, NEW path, GoodPath(path), ContinuesFlow(path),
           ready, ~loadingError, flow.next # NoToken, flow.run \in V2Runs,
           historyPageRequest < MaxReads,
           PageRead(path)
    PROVE  IInv'
<1> DEFINE n == historyPageRequest + 1
           new == [id |-> n, op |-> "page", path |-> path, limit |-> historyLimit]
<1>0. /\ TypeOK /\ historyPageRequest \in Nat /\ n \in 1..(MaxReads + 1)
      /\ historyLimit \in Nat /\ FlowIsAnswer /\ FlagsOK /\ PathsOK
  BY RunDetailAssumption DEF IInv, TypeOK
<1>1. /\ reads' = reads \cup {new} /\ historyPageRequest' = n
      /\ loadingMoreHistory' = TRUE /\ historyLoadError' = FALSE
      /\ UNCHANGED <<route, flow, ready, loadingError, lastFlowPath, historyLimit,
                      hist, pruned, currentRun>>
  BY DEF PageRead, server
<1>2. new \in Read /\ path \in Path
  BY <1>0 DEF Read, GoodPath
<1>3. \A q \in reads : q.id \in 1..historyPageRequest
  BY DEF IInv, ReadsNumbered
<1>4. TypeOK'
  <2>1. /\ reads' \subseteq Read /\ historyPageRequest' \in 0..(MaxReads + 1)
        /\ loadingMoreHistory' \in BOOLEAN /\ historyLoadError' \in BOOLEAN
    <3>1. reads \subseteq Read
      BY <1>0 DEF TypeOK
    <3>2. reads' \subseteq Read
      BY <1>1, <1>2, <3>1
    <3>3. n \in 0..(MaxReads + 1)
      BY <1>0, RunDetailAssumption
    <3> QED
      BY <1>1, <3>2, <3>3
  <2>2. /\ route' \in Routes /\ flow' \in Detail /\ ready' \in BOOLEAN
        /\ loadingError' \in BOOLEAN /\ lastFlowPath' \in Path \cup {NoPath}
        /\ historyLimit' \in Nat
        /\ hist' \in [Runs -> 0..MaxEvents] /\ pruned' \subseteq Runs
        /\ currentRun' \in [Instances -> V2Runs]
    BY <1>0, <1>1 DEF TypeOK
  <2> QED
    BY <2>1, <2>2 DEF TypeOK
<1>5. ServerOK' /\ FlowIsAnswer' /\ ShownRunIsRequested'
  BY <1>1 DEF IInv, ServerOK, FlowIsAnswer, ShownRunIsRequested, V2Runs, Selects
<1>6. ReadsNumbered'
  BY <1>0, <1>1, <1>3 DEF IInv, ReadsNumbered
<1>7. NewestRemembered'
  <2> SUFFICES ASSUME NEW q \in reads', q.id = historyPageRequest'
               PROVE  /\ q.op = "page" /\ ready' /\ flow'.run \in V2Runs
                      /\ q.path = FlowEndpoint(FALSE, flow.next)'
                      /\ flow'.next # NoToken
    BY DEF NewestRemembered, IsNewest, V2Runs
  <2>1. q = new
    BY <1>0, <1>1, <1>3
  <2> QED
    BY <1>1, <2>1 DEF ContinuesFlow, FlowEndpoint, V2Runs
<1>8. FlagsOK'
  BY <1>0, <1>1 DEF FlagsOK
<1>9. PathsOK'
  <2>1. \A q \in reads' : GoodPath(q.path)
    BY <1>0, <1>1 DEF PathsOK
  <2>2. GoodPath(lastFlowPath)
    BY <1>0 DEF FlagsOK, PathsOK
  <2> QED
    BY <1>1, <2>1, <2>2 DEF PathsOK, GoodPath, V2Runs
<1>10. WaitingIsOwned'
  <2>1. new \in reads' /\ new.id = historyPageRequest' /\ new.op = "page"
    BY <1>1
  <2> QED
    BY <1>1, <2>1 DEF WaitingIsOwned, IsNewest
<1> QED
  BY <1>4, <1>5, <1>6, <1>7, <1>8, <1>9, <1>10 DEF IInv

LEMMA OperatorKeepsIInv ==
    ASSUME IInv, Operator
    PROVE  IInv'
<1>0. /\ TypeOK /\ FlowIsAnswer /\ FlagsOK /\ PathsOK
      /\ historyPageRequest \in Nat /\ historyLimit \in Nat
      /\ PageSize \in Nat /\ MaxReads \in Nat
  BY RunDetailAssumption DEF IInv, TypeOK
<1>1. ASSUME UNCHANGED flow
      PROVE  flow' \in Detail /\ FlowIsAnswer'
  BY <1>0, <1>1 DEF TypeOK, FlowIsAnswer, V2Runs
<1>2. CASE Mount
  BY <1>0, <1>1, <1>2, RouteLoadKeepsIInv DEF Mount, OperatorMayRead, TypeOK
<1>3. ASSUME NEW rt \in Routes, Navigate(rt)
      PROVE  IInv'
  BY <1>0, <1>1, <1>3, RouteLoadKeepsIInv DEF Navigate, OperatorMayRead
<1>4. CASE RetryFlowLoad
  <2>1. GoodPath(lastFlowPath)
    BY <1>0, <1>4 DEF RetryFlowLoad, FlagsOK, PathsOK
  <2> QED
    BY <1>0, <1>1, <1>4, <2>1, FetchFlowKeepsIInv DEF RetryFlowLoad, OperatorMayRead, TypeOK
<1>5. CASE LoadCompleteDetails
  <2> DEFINE path == IF flow.run # NoRun
                       THEN FlowEndpoint(TRUE, NoToken)
                       ELSE [kind |-> route.kind, id |-> route.id,
                             complete |-> TRUE, page |-> NoToken]
  <2>1. GoodPath(path)
    <3>1. CASE flow.run # NoRun
      <4>1. flow.run \in Runs
        BY <1>0, <3>1 DEF TypeOK, Detail
      <4> QED
        BY <1>0, <3>1, <4>1, FlowEndpointIsGood
    <3>2. CASE flow.run = NoRun
      <4>1. route \in Routes
        BY <1>0 DEF TypeOK
      <4>2. GoodPath(route)
        BY <4>1, RouteIsGoodPath
      <4> QED
        BY <3>2, <4>2 DEF GoodPath, Path, Tokens
    <3> QED
      BY <3>1, <3>2
  <2>2. FetchFlow("open", path, PageSize, reads)
    BY <1>5 DEF LoadCompleteDetails
  <2> HIDE DEF path
  <2> QED
    BY <1>0, <1>1, <1>5, <2>1, <2>2, FetchFlowKeepsIInv
       DEF LoadCompleteDetails, OperatorMayRead, TypeOK
<1>6. CASE LoadOlderHistory
  <2>1. flow.run \in Runs /\ flow.total \in Nat
    BY <1>0, <1>6 DEF LoadOlderHistory, PagesForward, FlagsOK, FlowIsAnswer
  <2> DEFINE path == FlowEndpoint(TRUE, NoToken)
             limit == Least(flow.total, historyLimit + PageSize)
  <2>2. GoodPath(path)
    BY <1>0, <2>1, FlowEndpointIsGood
  <2>3. limit \in Nat
    BY <1>0, <2>1 DEF Least
  <2>4. FetchFlow("open", path, limit, reads)
    BY <1>6 DEF LoadOlderHistory
  <2> HIDE DEF path, limit
  <2> QED
    BY <1>0, <1>1, <1>6, <2>2, <2>3, <2>4, FetchFlowKeepsIInv
       DEF LoadOlderHistory, OperatorMayRead, TypeOK
<1>7. CASE LoadHistoryPage
  <2> DEFINE path == FlowEndpoint(FALSE, flow.next)
  <2>1. /\ ready /\ ~loadingError /\ flow.next # NoToken
        /\ flow.run \in V2Runs /\ flow.run \in Runs
        /\ historyPageRequest < MaxReads
    BY <1>0, <1>7 DEF LoadHistoryPage, FlagsOK, FlowIsAnswer, V2Runs, OperatorMayRead
  <2>2. GoodPath(path)
    <3>1. flow.next \in {NoToken, flow.next} /\ FALSE \in BOOLEAN
      OBVIOUS
    <3> QED
      BY <1>0, <2>1, <3>1, FlowEndpointIsGood
  <2>3. PageRead(path)
    BY <1>7 DEF LoadHistoryPage, PageRead
  <2>4. ContinuesFlow(path)
    BY DEF ContinuesFlow
  <2> HIDE DEF path
  <2> QED
    BY <2>1, <2>2, <2>3, <2>4, PageReadKeepsIInv
<1> QED
  BY <1>2, <1>3, <1>4, <1>5, <1>6, <1>7 DEF Operator
-----------------------------------------------------------------------------
(* Reads that settle. *)

\* A read in flight is answered by a run detail of the run it addresses.
LEMMA ReadIsAnswered ==
    ASSUME IInv, NEW q \in reads
    PROVE  /\ Answer(q) \in Detail
           /\ Answer(q).read = q.id
           /\ Answer(q).run = AddressedRun(q.path)
           /\ Answer(q).run \in Runs
           /\ Selects(q.path, Answer(q).run)
           /\ Answer(q).complete = ~IsBounded(q.path)
           /\ IsFiniteSet(Answer(q).events)
           /\ \A e \in Answer(q).events : e.run = Answer(q).run
           /\ Answer(q).next # NoToken =>
                 Answer(q).run \in V2Runs /\ Answer(q).next.run = Answer(q).run
           /\ Answer(q).complete /\ ~Service => Answer(q).total \in Nat
<1>1. TypeOK /\ ServerOK /\ q \in Read /\ GoodPath(q.path)
  BY DEF IInv, TypeOK, PathsOK
<1>2. q.path \in Path
  BY <1>1 DEF GoodPath
<1>3. AddressedRun(q.path) \in Runs /\ Selects(q.path, AddressedRun(q.path))
  BY <1>1, <1>2, AddressedRunType
<1>4. q.path.page # NoToken => q.path.page.run = AddressedRun(q.path)
  BY <1>1 DEF GoodPath, AddressedRun
<1>5. AddressedRun(q.path) \notin V2Runs => q.path.kind = "flow"
  BY <1>1, <1>2 DEF GoodPath, AddressedRun, Path, TypeOK
<1> QED
  BY <1>1, <1>3, <1>4, <1>5, AnswerType

\* What stays true of the reads when one of them leaves and no other starts.
LEMMA SettledReadLeaves ==
    ASSUME IInv, NEW q \in reads, reads' = reads \ {q},
           UNCHANGED <<historyPageRequest, lastFlowPath, server>>
    PROVE  ReadsNumbered' /\ PathsOK' /\ ServerOK' /\ reads' \subseteq Read
<1>1. ReadsNumbered /\ PathsOK /\ ServerOK /\ reads \subseteq Read
  BY DEF IInv, TypeOK
<1>2. ReadsNumbered'
  BY <1>1 DEF ReadsNumbered
<1>3. PathsOK'
  BY <1>1 DEF PathsOK, GoodPath, V2Runs
<1>4. ServerOK'
  BY <1>1 DEF ServerOK, server
<1> QED
  BY <1>1, <1>2, <1>3, <1>4

LEMMA SupersededKeepsIInv ==
    ASSUME IInv, NEW q \in reads, SupersededSettled(q)
    PROVE  IInv'
<1>1. ReadsNumbered' /\ PathsOK' /\ ServerOK' /\ reads' \subseteq Read
  BY SettledReadLeaves DEF SupersededSettled
<1>2. /\ reads' = reads \ {q} /\ q.id # historyPageRequest
      /\ UNCHANGED <<route, flow, ready, loadingError, lastFlowPath, historyLimit,
                      historyPageRequest, loadingMoreHistory, historyLoadError,
                      hist, pruned, currentRun>>
  BY DEF SupersededSettled, IsNewest, server
<1>3. TypeOK'
  BY <1>1, <1>2 DEF IInv, TypeOK
<1>4. NewestRemembered'
  <2> SUFFICES ASSUME NEW p \in reads, p.id = historyPageRequest
               PROVE  IF p.op = "page"
                        THEN /\ ready
                             /\ flow.run \in V2Runs
                             /\ p.path = FlowEndpoint(FALSE, flow.next)
                             /\ flow.next # NoToken
                        ELSE /\ p.path = lastFlowPath
                             /\ ~ready /\ ~loadingError
    BY <1>2 DEF NewestRemembered, IsNewest, FlowEndpoint, V2Runs
  <2> QED
    BY DEF IInv, NewestRemembered, IsNewest
<1>5. FlowIsAnswer' /\ FlagsOK' /\ ShownRunIsRequested'
  BY <1>2 DEF IInv, FlowIsAnswer, FlagsOK, ShownRunIsRequested, V2Runs, Selects
<1>6. WaitingIsOwned'
  BY <1>2 DEF IInv, WaitingIsOwned, IsNewest
<1> QED
  BY <1>1, <1>3, <1>4, <1>5, <1>6 DEF IInv

\* Once the newest read has settled, no read in flight is the newest.
LEMMA NoNewestRemains ==
    ASSUME IInv, NEW q \in reads, IsNewest(q), reads' = reads \ {q},
           UNCHANGED historyPageRequest
    PROVE  NewestRemembered' /\ historyPageRequest > 0
<1>1. ReadsNumbered /\ historyPageRequest \in Nat
  BY RunDetailAssumption DEF IInv, TypeOK
<1>2. \A p \in reads' : p.id # historyPageRequest'
  BY <1>1 DEF IsNewest, ReadsNumbered
<1>3. historyPageRequest > 0
  BY <1>1 DEF ReadsNumbered
<1> QED
  BY <1>2, <1>3 DEF NewestRemembered, IsNewest

LEMMA OpenFailedKeepsIInv ==
    ASSUME IInv, NEW q \in reads, OpenFailed(q)
    PROVE  IInv'
<1>1. ReadsNumbered' /\ PathsOK' /\ ServerOK' /\ reads' \subseteq Read
  BY SettledReadLeaves DEF OpenFailed
<1>2. NewestRemembered' /\ historyPageRequest > 0
  BY NoNewestRemains DEF OpenFailed
<1>3. /\ loadingError' = TRUE
      /\ UNCHANGED <<route, flow, ready, lastFlowPath, historyLimit,
                      historyPageRequest, loadingMoreHistory, historyLoadError,
                      hist, pruned, currentRun>>
  BY DEF OpenFailed, server
<1>4. ~ready /\ ~loadingMoreHistory
  BY DEF IInv, NewestRemembered, OpenFailed, FlagsOK
<1>5. TypeOK'
  BY <1>1, <1>3 DEF IInv, TypeOK
<1>6. FlowIsAnswer' /\ FlagsOK' /\ ShownRunIsRequested' /\ WaitingIsOwned'
  BY <1>2, <1>3, <1>4
     DEF IInv, FlowIsAnswer, FlagsOK, ShownRunIsRequested, WaitingIsOwned, V2Runs
<1> QED
  BY <1>1, <1>2, <1>5, <1>6 DEF IInv

\* A page in flight continues the bounded view on display.
LEMMA NewestPageContinuesFlow ==
    ASSUME IInv, NEW q \in reads, IsNewest(q), q.op = "page"
    PROVE  ready /\ ~loadingError /\ flow.run \in V2Runs /\ IsBounded(q.path)
<1>1. ready /\ flow.run \in V2Runs /\ q.path = FlowEndpoint(FALSE, flow.next)
  BY DEF IInv, NewestRemembered
<1>2. ~loadingError
  BY <1>1 DEF IInv, FlagsOK
<1>3. IsBounded(q.path)
  BY <1>1 DEF IsBounded, FlowEndpoint
<1> QED
  BY <1>1, <1>2, <1>3

LEMMA PageSettledKeepsIInv ==
    ASSUME IInv, NEW q \in reads, IsNewest(q), q.op = "page",
           reads' = reads \ {q}, loadingMoreHistory' = FALSE,
           historyLoadError' \in BOOLEAN,
           flow' \in Detail, FlowIsAnswer', flow'.run = flow.run,
           UNCHANGED <<route, ready, loadingError, lastFlowPath, historyLimit,
                       historyPageRequest, server>>
    PROVE  IInv'
<1>1. ReadsNumbered' /\ PathsOK' /\ ServerOK' /\ reads' \subseteq Read
  BY SettledReadLeaves
<1>2. NewestRemembered' /\ historyPageRequest > 0
  BY NoNewestRemains
<1>3. UNCHANGED <<hist, pruned, currentRun>>
  BY DEF server
<1>4. ready /\ ~loadingError
  BY NewestPageContinuesFlow
<1>5. TypeOK'
  BY <1>1, <1>3 DEF IInv, TypeOK
<1>6. FlagsOK' /\ ShownRunIsRequested' /\ WaitingIsOwned'
  BY <1>2, <1>4 DEF IInv, FlagsOK, ShownRunIsRequested, WaitingIsOwned, Selects
<1> QED
  BY <1>1, <1>2, <1>5, <1>6 DEF IInv

LEMMA PageFailedKeepsIInv ==
    ASSUME IInv, NEW q \in reads, PageFailed(q)
    PROVE  IInv'
<1>1. flow' \in Detail /\ FlowIsAnswer' /\ flow'.run = flow.run
  BY DEF PageFailed, IInv, TypeOK, FlowIsAnswer, V2Runs
<1>2. historyLoadError' \in BOOLEAN
  BY DEF PageFailed
<1> QED
  BY <1>1, <1>2, PageSettledKeepsIInv DEF PageFailed

\* What a merged page is, and that merging takes no row away.
LEMMA PageMerges ==
    ASSUME IInv, NEW q \in reads, IsNewest(q), q.op = "page",
           Answer(q).run = flow.run
    PROVE  LET d == AppendRunHistoryPage(flow, Answer(q))
           IN  /\ d \in Detail /\ d.run = flow.run
               /\ ~d.complete
               /\ IsFiniteSet(d.events)
               /\ \A e \in d.events : e.run = d.run
               /\ d.next # NoToken => d.run \in V2Runs /\ d.next.run = d.run
               /\ flow.events \subseteq d.events
               /\ d.read = Answer(q).read
<1> DEFINE page == Answer(q)
<1>1. /\ page \in Detail /\ IsFiniteSet(page.events)
      /\ \A e \in page.events : e.run = page.run
      /\ page.next # NoToken => page.run \in V2Runs /\ page.next.run = page.run
      /\ page.complete = ~IsBounded(q.path)
  BY ReadIsAnswered
<1>2. /\ flow \in Detail /\ IsFiniteSet(flow.events)
      /\ \A e \in flow.events : e.run = flow.run
  BY DEF IInv, TypeOK, FlowIsAnswer
<1>3. IsBounded(q.path)
  BY NewestPageContinuesFlow
<1>4. page.run = flow.run
  OBVIOUS
<1> HIDE DEF page
<1>5. LET d == AppendRunHistoryPage(flow, page)
      IN  /\ d \in Detail
          /\ d.run = page.run /\ d.read = page.read
          /\ d.complete = page.complete /\ d.next = page.next
          /\ IsFiniteSet(d.events)
          /\ \A e \in d.events : e.run = d.run
          /\ flow.events \subseteq d.events
  BY <1>1, <1>2, <1>4, AppendType
<1> DEFINE d == AppendRunHistoryPage(flow, page)
<1> HIDE DEF d
<1>6. /\ d \in Detail /\ d.run = flow.run /\ ~d.complete
      /\ IsFiniteSet(d.events)
      /\ \A e \in d.events : e.run = d.run
      /\ d.next # NoToken => d.run \in V2Runs /\ d.next.run = d.run
      /\ flow.events \subseteq d.events
      /\ d.read = page.read
  BY <1>1, <1>3, <1>4, <1>5 DEF d
<1> QED
  BY <1>6 DEF d, page

LEMMA PageAnsweredKeepsIInv ==
    ASSUME IInv, NEW q \in reads, PageAnswered(q)
    PROVE  IInv'
<1>0. /\ IsNewest(q) /\ q.op = "page"
      /\ loadingMoreHistory' = FALSE /\ reads' = reads \ {q}
      /\ UNCHANGED <<route, ready, loadingError, lastFlowPath, historyLimit,
                      historyPageRequest, server>>
  BY DEF PageAnswered
<1>1. CASE Answer(q).run = flow.run
  <2> DEFINE d == AppendRunHistoryPage(flow, Answer(q))
  <2>1. flow' = d /\ historyLoadError' = historyLoadError
    BY <1>1 DEF PageAnswered
  <2>2. /\ d \in Detail /\ d.run = flow.run /\ ~d.complete
        /\ IsFiniteSet(d.events)
        /\ \A e \in d.events : e.run = d.run
        /\ d.next # NoToken => d.run \in V2Runs /\ d.next.run = d.run
    BY <1>0, <1>1, PageMerges
  <2> HIDE DEF d
  <2>3. flow' \in Detail /\ FlowIsAnswer' /\ flow'.run = flow.run
    BY <2>1, <2>2 DEF FlowIsAnswer, V2Runs
  <2>4. historyLoadError' \in BOOLEAN
    BY <2>1 DEF IInv, TypeOK
  <2> QED
    BY <1>0, <2>3, <2>4, PageSettledKeepsIInv
<1>2. CASE Answer(q).run # flow.run
  <2>1. flow' = flow /\ historyLoadError' = TRUE
    BY <1>2 DEF PageAnswered
  <2>2. flow' \in Detail /\ FlowIsAnswer' /\ flow'.run = flow.run
    BY <2>1 DEF IInv, TypeOK, FlowIsAnswer, V2Runs
  <2> QED
    BY <1>0, <2>1, <2>2, PageSettledKeepsIInv
<1> QED
  BY <1>1, <1>2

LEMMA CanonicalRouteIsRoute ==
    ASSUME NEW r \in V2Runs
    PROVE  CanonicalRoute(r) \in Routes /\ CanonicalRoute(r).kind = "run"
<1>1. CanonicalRoute(r) \in RunRoutes
  BY DEF RunRoutes, CanonicalRoute
<1>2. CanonicalRoute(r).page.run = NoRun /\ CanonicalRoute(r).kind = "run"
  BY DEF CanonicalRoute, NoToken
<1> QED
  BY <1>1, <1>2 DEF Routes

\* The answer of an open becomes the flow.
LEMMA OpenAnswerIsFlow ==
    ASSUME IInv, NEW q \in reads, flow' = Answer(q)
    PROVE  flow' \in Detail /\ FlowIsAnswer' /\ flow'.run \in Runs
<1> DEFINE d == Answer(q)
<1>1. /\ d \in Detail /\ d.run \in Runs /\ IsFiniteSet(d.events)
      /\ \A e \in d.events : e.run = d.run
      /\ d.next # NoToken => d.run \in V2Runs /\ d.next.run = d.run
      /\ d.complete /\ ~Service => d.total \in Nat
  BY ReadIsAnswered
<1>2. flow' = d
  OBVIOUS
<1> HIDE DEF d
<1> QED
  BY <1>1, <1>2 DEF FlowIsAnswer, V2Runs

LEMMA OpenAnsweredKeepsIInv ==
    ASSUME IInv, NEW q \in reads, OpenAnswered(q)
    PROVE  IInv'
<1> DEFINE r == AddressedRun(q.path)
<1>0. /\ IsNewest(q) /\ q.op # "page" /\ flow' = Answer(q) /\ UNCHANGED server
  BY DEF OpenAnswered
<1>1. flow' \in Detail /\ FlowIsAnswer' /\ flow'.run \in Runs
  BY <1>0, OpenAnswerIsFlow
<1>2. CASE q.op = "legacy" /\ r \in V2Runs
  <2> DEFINE c == CanonicalRoute(r)
  <2>1. c \in Routes /\ c.kind = "run"
    BY <1>2, CanonicalRouteIsRoute
  <2>2. route' = c /\ LoadRouteFlow(route', reads \ {q})
    BY <1>2 DEF OpenAnswered
  <2>3. historyPageRequest <= MaxReads
    BY <1>0, <1>2 DEF IInv, ReadsNumbered, IsNewest
  <2>4. reads \ {q} \in SUBSET reads
    OBVIOUS
  <2> HIDE DEF c
  <2>5. LoadRouteFlow(c, reads \ {q})
    BY <2>2 DEF LoadRouteFlow, FetchFlow
  <2> QED
    BY <1>0, <1>1, <2>1, <2>2, <2>3, <2>4, <2>5, RouteLoadKeepsIInv
<1>3. CASE ~(q.op = "legacy" /\ r \in V2Runs)
  <2>1. /\ ready' = TRUE /\ reads' = reads \ {q}
        /\ UNCHANGED <<route, loadingError, lastFlowPath, historyLimit,
                        historyPageRequest, loadingMoreHistory, historyLoadError>>
    BY <1>3 DEF OpenAnswered
  <2>2. ReadsNumbered' /\ PathsOK' /\ ServerOK' /\ reads' \subseteq Read
    BY <1>0, <2>1, SettledReadLeaves
  <2>3. NewestRemembered' /\ historyPageRequest > 0
    BY <1>0, <2>1, NoNewestRemains
  <2>4. q.path = lastFlowPath /\ ~ready /\ ~loadingError /\ ~loadingMoreHistory
    BY <1>0 DEF IInv, NewestRemembered, FlagsOK
  <2>5. TypeOK'
    <3>1. UNCHANGED <<hist, pruned, currentRun>>
      BY <1>0 DEF server
    <3> QED
      BY <1>1, <2>1, <2>2, <3>1 DEF IInv, TypeOK
  <2>6. FlagsOK' /\ WaitingIsOwned'
    BY <1>1, <2>1, <2>3, <2>4 DEF FlagsOK, WaitingIsOwned
  <2>7. ShownRunIsRequested'
    <3>1. Selects(q.path, Answer(q).run)
      BY ReadIsAnswered
    <3>2. Selects(lastFlowPath, flow'.run)
      BY <1>0, <2>4, <3>1
    <3> QED
      BY <2>1, <3>2 DEF ShownRunIsRequested, Selects
  <2> QED
    BY <1>1, <2>2, <2>3, <2>5, <2>6, <2>7 DEF IInv
<1> QED
  BY <1>2, <1>3

LEMMA SettleKeepsIInv ==
    ASSUME IInv, NEW q \in reads, Settle(q)
    PROVE  IInv'
  BY OpenAnsweredKeepsIInv, OpenFailedKeepsIInv, PageAnsweredKeepsIInv,
     PageFailedKeepsIInv, SupersededKeepsIInv DEF Settle
-----------------------------------------------------------------------------
(* The engine only changes what the server would answer. *)

LEMMA EngineKeepsIInv ==
    ASSUME IInv, Engine
    PROVE  IInv'
<1>1. UNCHANGED <<route, flow, ready, loadingError, lastFlowPath, historyLimit,
                  historyPageRequest, loadingMoreHistory, historyLoadError, reads>>
  BY DEF Engine, RecordEvent, PruneHistory, ContinueAsNew, screen
<1>2. /\ hist' \in [Runs -> 0..MaxEvents] /\ pruned' \subseteq Runs
      /\ currentRun' \in [Instances -> V2Runs] /\ ServerOK'
  <2>0. TypeOK /\ ServerOK
    BY DEF IInv
  <2>1. ASSUME NEW r \in Runs, RecordEvent(r)
        PROVE  hist' \in [Runs -> 0..MaxEvents]
               /\ UNCHANGED <<pruned, currentRun>>
    BY <2>0, <2>1, RunDetailAssumption DEF RecordEvent, TypeOK
  <2>2. ASSUME NEW r \in Runs, PruneHistory(r)
        PROVE  pruned' \subseteq Runs /\ UNCHANGED <<hist, currentRun>>
    BY <2>0, <2>2 DEF PruneHistory, TypeOK, V2Runs
  <2>3. ASSUME NEW i \in Instances, NEW r \in V2Runs, ContinueAsNew(i, r)
        PROVE  currentRun' \in [Instances -> V2Runs] /\ ServerOK'
               /\ UNCHANGED <<hist, pruned>>
    BY <2>0, <2>3 DEF ContinueAsNew, TypeOK, ServerOK
  <2> QED
    BY <2>0, <2>1, <2>2, <2>3 DEF Engine, TypeOK, ServerOK, V2Runs
<1>3. TypeOK'
  BY <1>1, <1>2 DEF IInv, TypeOK
<1>4. ReadsNumbered' /\ FlowIsAnswer' /\ FlagsOK' /\ PathsOK'
  BY <1>1 DEF IInv, ReadsNumbered, FlowIsAnswer, FlagsOK, PathsOK, GoodPath, V2Runs
<1>5. NewestRemembered'
  BY <1>1 DEF IInv, NewestRemembered, IsNewest, FlowEndpoint, V2Runs
<1>6. ShownRunIsRequested' /\ WaitingIsOwned'
  BY <1>1 DEF IInv, ShownRunIsRequested, WaitingIsOwned, Selects, IsNewest
<1> QED
  BY <1>2, <1>3, <1>4, <1>5, <1>6 DEF IInv
-----------------------------------------------------------------------------
LEMMA InitIInv == Init => IInv
<1> SUFFICES ASSUME Init PROVE IInv
  OBVIOUS
<1>1. NoFlow \in Detail /\ NoFlow.run = NoRun
  BY DEF NoFlow, Detail, Tokens
<1>2. TypeOK
  <2>1. PageSize \in Nat /\ 0 \in 0..(MaxReads + 1)
    BY RunDetailAssumption
  <2> QED
    BY <1>1, <2>1 DEF Init, TypeOK
<1>3. FlowIsAnswer
  <2>1. IsFiniteSet({})
    BY FS_EmptySet
  <2> QED
    BY <2>1, RunDetailAssumption DEF Init, FlowIsAnswer, NoFlow
<1> QED
  BY <1>2, <1>3, RunDetailAssumption
     DEF Init, IInv, ServerOK, ReadsNumbered, NewestRemembered, FlagsOK, PathsOK,
         ShownRunIsRequested, WaitingIsOwned

LEMMA StutterKeepsIInv ==
    ASSUME IInv, UNCHANGED vars
    PROVE  IInv'
  BY DEF IInv, vars, screen, server, TypeOK, ServerOK, ReadsNumbered, NewestRemembered,
         FlowIsAnswer, FlagsOK, PathsOK, GoodPath, ShownRunIsRequested, WaitingIsOwned,
         IsNewest, FlowEndpoint, Selects, V2Runs

\* The inductive invariant holds in every behaviour.
THEOREM Invariance == SafeSpec => []IInv
<1>1. Init => IInv
  BY InitIInv
<1>2. IInv /\ [Next]_vars => IInv'
  BY OperatorKeepsIInv, SettleKeepsIInv, EngineKeepsIInv, StutterKeepsIInv DEF Next
<1> QED
  BY <1>1, <1>2, PTL DEF SafeSpec

\* Every variable keeps its type, for any runs, page size and bounds.
THEOREM TypeCorrect == SafeSpec => []TypeOK
<1>1. IInv => TypeOK
  BY DEF IInv
<1> QED
  BY <1>1, Invariance, PTL

\* No late answer, failed page or route change puts a run on display that the
\* newest open did not ask for.
THEOREM ShownRunRequested == SafeSpec => []ShownRunIsRequested
<1>1. IInv => ShownRunIsRequested
  BY DEF IInv
<1> QED
  BY <1>1, Invariance, PTL

\* The screen never waits, and never disables Load more, without the read in
\* flight that will end it.
THEOREM WaitingOwned == SafeSpec => []WaitingIsOwned
<1>1. IInv => WaitingIsOwned
  BY DEF IInv
<1> QED
  BY <1>1, Invariance, PTL
-----------------------------------------------------------------------------
(* Action properties. *)

\* A step that keeps the detail rendered keeps its rows.
LEMMA StepKeepsEvents ==
    ASSUME IInv, Next, ready, ready'
    PROVE  flow.events \subseteq flow'.events
<1>1. CASE Operator
  BY <1>1 DEF Operator, Mount, Navigate, RetryFlowLoad, LoadCompleteDetails,
              LoadOlderHistory, LoadHistoryPage, LoadRouteFlow, FetchFlow
<1>2. ASSUME NEW q \in reads, Settle(q)
      PROVE  flow.events \subseteq flow'.events
  <2>1. CASE OpenAnswered(q)
    BY <2>1 DEF OpenAnswered, IInv, NewestRemembered
  <2>2. CASE PageAnswered(q)
    <3>1. CASE Answer(q).run = flow.run
      <4>1. flow' = AppendRunHistoryPage(flow, Answer(q))
        BY <2>2, <3>1 DEF PageAnswered
      <4>2. IsNewest(q) /\ q.op = "page"
        BY <2>2 DEF PageAnswered
      <4> QED
        BY <3>1, <4>1, <4>2, PageMerges
    <3>2. CASE Answer(q).run # flow.run
      BY <2>2, <3>2 DEF PageAnswered
    <3> QED
      BY <3>1, <3>2
  <2> QED
    BY <1>2, <2>1, <2>2 DEF Settle, OpenFailed, PageFailed, SupersededSettled
<1>3. CASE Engine
  BY <1>3 DEF Engine, RecordEvent, PruneHistory, ContinueAsNew, screen
<1> QED
  BY <1>1, <1>2, <1>3 DEF Next

\* Load more never takes away a row of the timeline.
THEOREM EventsKept == SafeSpec => LoadMoreKeepsEvents
<1>1. IInv /\ [Next]_vars => [ready /\ ready' => flow.events \subseteq flow'.events]_vars
  BY StepKeepsEvents
<1> QED
  BY <1>1, Invariance, PTL DEF SafeSpec, LoadMoreKeepsEvents
-----------------------------------------------------------------------------
(* The screen implements LatestRead. *)

\* Starting a read is Issue.
LEMMA FetchIsIssue ==
    ASSUME IInv, NEW new, new.id = historyPageRequest + 1,
           reads' = reads \cup {new}, historyPageRequest < MaxReads,
           historyPageRequest' = historyPageRequest + 1, flow' = flow
    PROVE  Latest!Issue
<1>1. historyPageRequest \in Nat /\ historyPageRequest < MaxReads + 1
  BY RunDetailAssumption DEF IInv, TypeOK
<1>2. {q.id : q \in reads}' = {q.id : q \in reads} \cup {historyPageRequest + 1}
  OBVIOUS
<1> QED
  BY <1>1, <1>2 DEF Latest!Issue

LEMMA OperatorIssues ==
    ASSUME IInv, Operator
    PROVE  Latest!Issue
<1>1. flow' = flow /\ historyPageRequest < MaxReads
  BY DEF Operator, Mount, Navigate, RetryFlowLoad, LoadCompleteDetails,
         LoadOlderHistory, LoadHistoryPage, OperatorMayRead
<1>2. /\ historyPageRequest' = historyPageRequest + 1
      /\ \E new : new.id = historyPageRequest + 1 /\ reads' = reads \cup {new}
  BY DEF Operator, Mount, Navigate, RetryFlowLoad, LoadCompleteDetails,
         LoadOlderHistory, LoadHistoryPage, LoadRouteFlow, FetchFlow
<1> QED
  BY <1>1, <1>2, FetchIsIssue

\* The number of a read that settles leaves the numbers in flight.
LEMMA NumberLeaves ==
    ASSUME IInv, NEW q \in reads
    PROVE  /\ {p.id : p \in reads \ {q}} = {p.id : p \in reads} \ {q.id}
           /\ q.id \in {p.id : p \in reads}
           /\ q.id \in 1..(MaxReads + 1)
<1>1. ReadsNumbered /\ historyPageRequest \in 0..(MaxReads + 1)
  BY DEF IInv, TypeOK
<1>2. \A p \in reads \ {q} : p.id # q.id
  BY <1>1 DEF ReadsNumbered
<1>3. q.id \in 1..(MaxReads + 1)
  BY <1>1, RunDetailAssumption DEF ReadsNumbered
<1> QED
  BY <1>2, <1>3

\* The newest read settles on its own: Settle.
LEMMA NewestIsSettle ==
    ASSUME IInv, NEW q \in reads, IsNewest(q), reads' = reads \ {q},
           historyPageRequest' = historyPageRequest,
           flow'.read \in {flow.read, q.id}
    PROVE  Latest!Settle
<1>1. {p.id : p \in reads}' = {p.id : p \in reads} \ {q.id}
  BY NumberLeaves
<1>2. q.id = historyPageRequest /\ q.id \in {p.id : p \in reads}
  BY DEF IsNewest
<1> QED
  BY <1>1, <1>2 DEF Latest!Settle

\* A legacy route that answers is replaced and read again: SettleAndIssue.
LEMMA RedirectIsSettleAndIssue ==
    ASSUME IInv, NEW q \in reads, OpenAnswered(q),
           q.op = "legacy", AddressedRun(q.path) \in V2Runs
    PROVE  Latest!SettleAndIssue
<1>1. /\ historyPageRequest' = historyPageRequest + 1
      /\ \E new : new.id = historyPageRequest + 1 /\ reads' = (reads \ {q}) \cup {new}
  BY DEF OpenAnswered, LoadRouteFlow, FetchFlow
<1>2. {p.id : p \in reads}' = ({p.id : p \in reads} \ {q.id}) \cup {historyPageRequest + 1}
  <2>1. {p.id : p \in reads \ {q}} = {p.id : p \in reads} \ {q.id}
    BY NumberLeaves
  <2> QED
    BY <1>1, <2>1
<1>3. q.id = historyPageRequest /\ q.id \in {p.id : p \in reads}
  BY DEF OpenAnswered, IsNewest
<1>4. flow'.read = historyPageRequest
  BY <1>3, ReadIsAnswered DEF OpenAnswered
<1>5. historyPageRequest < MaxReads + 1
  BY <1>3, RunDetailAssumption DEF IInv, TypeOK, ReadsNumbered
<1> QED
  BY <1>1, <1>2, <1>3, <1>4, <1>5 DEF Latest!SettleAndIssue

LEMMA SettleImplements ==
    ASSUME IInv, NEW q \in reads, Settle(q)
    PROVE  Latest!Next
<1>1. CASE OpenAnswered(q)
  <2>1. CASE q.op = "legacy" /\ AddressedRun(q.path) \in V2Runs
    BY <1>1, <2>1, RedirectIsSettleAndIssue DEF Latest!Next
  <2>2. CASE ~(q.op = "legacy" /\ AddressedRun(q.path) \in V2Runs)
    <3>1. /\ IsNewest(q) /\ reads' = reads \ {q}
          /\ historyPageRequest' = historyPageRequest /\ flow' = Answer(q)
      BY <1>1, <2>2 DEF OpenAnswered
    <3>2. flow'.read = q.id
      BY <3>1, ReadIsAnswered
    <3> QED
      BY <3>1, <3>2, NewestIsSettle DEF Latest!Next
  <2> QED
    BY <2>1, <2>2
<1>2. CASE PageAnswered(q)
  <2>1. /\ IsNewest(q) /\ q.op = "page" /\ reads' = reads \ {q}
        /\ historyPageRequest' = historyPageRequest
    BY <1>2 DEF PageAnswered
  <2>2. flow'.read \in {flow.read, q.id}
    <3>1. CASE Answer(q).run = flow.run
      <4>1. flow' = AppendRunHistoryPage(flow, Answer(q))
        BY <1>2, <3>1 DEF PageAnswered
      <4> QED
        BY <2>1, <3>1, <4>1, PageMerges, ReadIsAnswered
    <3>2. CASE Answer(q).run # flow.run
      BY <1>2, <3>2 DEF PageAnswered
    <3> QED
      BY <3>1, <3>2
  <2> QED
    BY <2>1, <2>2, NewestIsSettle DEF Latest!Next
<1>3. CASE OpenFailed(q) \/ PageFailed(q)
  BY <1>3, NewestIsSettle DEF OpenFailed, PageFailed, Latest!Next
<1>4. CASE SupersededSettled(q)
  <2>1. /\ q.id # historyPageRequest /\ reads' = reads \ {q}
        /\ flow' = flow /\ historyPageRequest' = historyPageRequest
    BY <1>4 DEF SupersededSettled, IsNewest
  <2>2. q.id \in 1..(MaxReads + 1) /\ Latest!Ignore(q.id)
    BY <2>1, NumberLeaves DEF Latest!Ignore
  <2> QED
    BY <2>2 DEF Latest!Next
<1> QED
  BY <1>1, <1>2, <1>3, <1>4 DEF Settle

\* Only the newest read's answer ever replaces what is on display: the screen
\* implements LatestRead, reading flow.read as the number of that read.
THEOREM LatestReadImplemented == SafeSpec => ImplementsLatestRead
<1>1. Init => Latest!Init
  BY DEF Init, Latest!Init, NoFlow
<1>2. IInv /\ [Next]_vars => [Latest!Next]_Latest!vars
  <2> SUFFICES ASSUME IInv, [Next]_vars
               PROVE  [Latest!Next]_Latest!vars
    OBVIOUS
  <2>1. CASE Operator
    BY <2>1, OperatorIssues DEF Latest!Next
  <2>2. ASSUME NEW q \in reads, Settle(q)
        PROVE  Latest!Next
    BY <2>2, SettleImplements
  <2>3. CASE Engine
    BY <2>3 DEF Engine, RecordEvent, PruneHistory, ContinueAsNew, screen, Latest!vars
  <2>4. CASE UNCHANGED vars
    BY <2>4 DEF vars, screen, Latest!vars
  <2> QED
    BY <2>1, <2>2, <2>3, <2>4 DEF Next
<1> QED
  BY <1>1, <1>2, Invariance, PTL DEF SafeSpec, ImplementsLatestRead, Latest!SafeSpec
-----------------------------------------------------------------------------
(***************************************************************************)
(* The timeline: whatever the page size, however reads and retention fall  *)
(* together, its rows are a stretch of one run's history, and a total is   *)
(* the length of the snapshot that was walked.                             *)
(***************************************************************************)

\* The events of a detail, by their place in the history.
PlacesIn(d) == {e.seq : e \in d.events}

\* The rows of a detail are those after a up to b, and its cursor stands at
\* b.  A window that starts at the first event has nothing before it.
Stretches(d, a, b) ==
    /\ a <= b
    /\ PlacesIn(d) = (a + 1)..b
    /\ d.next # NoToken =>
          /\ d.next.after = b /\ b <= d.next.through
          /\ d.fromStart => a = 0

TimelineStretches == \E a, b \in Nat : Stretches(flow, a, b)

\* No cursor stands beyond the snapshot it walks.
Walks(token) == token.after <= token.through

CursorsWalk ==
    /\ \A q \in reads : Walks(q.path.page)
    /\ Walks(lastFlowPath.page)

TInv == TimelineStretches /\ CursorsWalk
-----------------------------------------------------------------------------
(* What the server answers is a stretch. *)

LEMMA WindowStretches ==
    ASSUME NEW r, NEW lo \in Nat, NEW hi \in Nat
    PROVE  {e.seq : e \in Window(r, lo, hi)} = lo..hi
<1>1. \A e \in Window(r, lo, hi) : e.seq \in lo..hi
  BY DEF Window
<1>2. \A n \in lo..hi : [run |-> r, seq |-> n] \in Window(r, lo, hi)
  BY DEF Window
<1>3. \A n \in lo..hi : n \in {e.seq : e \in Window(r, lo, hi)}
  <2> TAKE n \in lo..hi
  <2>1. [run |-> r, seq |-> n].seq = n
    OBVIOUS
  <2> QED
    BY <1>2, <2>1
<1> QED
  BY <1>1, <1>3

LEMMA ForwardPageStretches ==
    ASSUME TypeOK, NEW r \in Runs, NEW path \in Path, NEW limit \in Nat, NEW id,
           Walks(path.page)
    PROVE  \E b \in Nat :
              /\ Stretches(ForwardPage(r, path, limit, id), path.page.after, b)
              /\ path.page # NoToken /\ ForwardPage(r, path, limit, id).next = NoToken
                    /\ ~ForwardPage(r, path, limit, id).pruned
                 => b = path.page.through
<1> DEFINE tok == path.page
           through == IF tok = NoToken THEN hist[r] ELSE tok.through
           last == IF r \in pruned THEN tok.after ELSE Least(tok.after + limit, through)
           more == r \notin pruned /\ last < through
           d == ForwardPage(r, path, limit, id)
<1>1. tok.after \in Nat /\ tok.through \in Nat /\ tok.after <= tok.through
  BY DEF Path, Tokens, Token, NoToken, Walks
<1>2. through \in Nat /\ tok.after <= through
  BY <1>1, RunDetailAssumption DEF TypeOK, NoToken
<1> HIDE DEF through
<1>3. /\ last \in Nat /\ tok.after <= last
      /\ r \notin pruned => last <= through
  BY <1>1, <1>2 DEF Least
<1> HIDE DEF tok, last
<1>4. /\ d.events = Window(r, tok.after + 1, last)
      /\ d.next = IF more THEN [run |-> r, after |-> last, through |-> through] ELSE NoToken
      /\ d.fromStart = (tok = NoToken)
      /\ d.pruned = (r \in pruned)
  BY DEF ForwardPage, tok, through, last
<1> HIDE DEF d
<1>5. PlacesIn(d) = (tok.after + 1)..last
  <2>1. tok.after + 1 \in Nat
    BY <1>1
  <2> QED
    BY <1>3, <1>4, <2>1, WindowStretches DEF PlacesIn
<1>6. [run |-> r, after |-> last, through |-> through] # NoToken
  BY RunDetailAssumption DEF NoToken
<1>7. d.next # NoToken => d.next.after = last /\ last <= d.next.through
  BY <1>2, <1>3, <1>4
<1>8. d.fromStart => tok.after = 0
  <2>1. NoToken.after = 0
    BY DEF NoToken
  <2>2. d.fromStart => tok = NoToken
    BY <1>4
  <2> QED
    BY <2>1, <2>2
<1>9. tok # NoToken /\ d.next = NoToken /\ ~d.pruned => last = tok.through
  <2> SUFFICES ASSUME tok # NoToken, d.next = NoToken, ~d.pruned
               PROVE  last = tok.through
    OBVIOUS
  <2>1. r \notin pruned
    BY <1>4
  <2>2. ~more
    BY <1>4, <1>6
  <2>3. last = through
    BY <1>2, <1>3, <2>1, <2>2
  <2> QED
    BY <2>3 DEF through
<1>10. Stretches(d, tok.after, last)
  BY <1>3, <1>5, <1>7, <1>8 DEF Stretches
<1> QED
  BY <1>3, <1>9, <1>10 DEF tok, d

LEMMA LatestWindowStretches ==
    ASSUME TypeOK, NEW r \in Runs, NEW limit \in Nat, NEW id
    PROVE  \E a, b \in Nat : Stretches(LatestWindow(r, limit, id), a, b)
<1> DEFINE total == IF r \in pruned THEN 0 ELSE hist[r]
           first == IF total > limit THEN total - limit + 1 ELSE 1
           d == LatestWindow(r, limit, id)
<1>1. total \in Nat
  BY RunDetailAssumption DEF TypeOK
<1> HIDE DEF total
<1>2. first \in Nat /\ first - 1 \in Nat /\ first - 1 <= total
  BY <1>1
<1> HIDE DEF first
<1>3. d.events = Window(r, first, total) /\ d.next = NoToken
  BY DEF LatestWindow, total, first
<1>4. PlacesIn(d) = (first - 1 + 1)..total
  <2>1. {e.seq : e \in Window(r, first, total)} = first..total
    BY <1>1, <1>2, WindowStretches
  <2>2. PlacesIn(d) = first..total
    BY <1>3, <2>1 DEF PlacesIn
  <2>3. first - 1 + 1 = first
    BY <1>2
  <2> QED BY <2>2, <2>3
<1>5. Stretches(d, first - 1, total)
  BY <1>2, <1>3, <1>4 DEF Stretches
<1> QED
  BY <1>1, <1>2, <1>5

LEMMA AnswerStretches ==
    ASSUME IInv, CursorsWalk, NEW q \in reads
    PROVE  \E a, b \in Nat : Stretches(Answer(q), a, b)
<1>1. /\ q.path \in Path /\ q.limit \in Nat
      /\ AddressedRun(q.path) \in Runs /\ Walks(q.path.page) /\ TypeOK
  <2>1. TypeOK /\ ServerOK /\ q \in Read
    BY DEF IInv, TypeOK
  <2> QED
    BY <2>1, AddressedRunType DEF Read, CursorsWalk
<1>2. q.path.page.after \in Nat
  BY <1>1 DEF Path, Tokens, Token, NoToken
<1>3. CASE IsBounded(q.path) \/ Service
  <2>1. Answer(q) = ForwardPage(AddressedRun(q.path), q.path, q.limit, q.id)
    BY <1>3 DEF Answer
  <2> QED
    BY <1>1, <1>2, <2>1, ForwardPageStretches
<1>4. CASE ~(IsBounded(q.path) \/ Service)
  <2>1. Answer(q) = LatestWindow(AddressedRun(q.path), q.limit, q.id)
    BY <1>4 DEF Answer
  <2> QED
    BY <1>1, <2>1, LatestWindowStretches
<1> QED
  BY <1>3, <1>4
-----------------------------------------------------------------------------
(* A page continues the timeline it is merged into. *)

LEMMA MergedPlaces ==
    ASSUME NEW current \in Detail, NEW page \in Detail
    PROVE  LET d == AppendRunHistoryPage(current, page)
           IN  /\ PlacesIn(d) = PlacesIn(current) \cup PlacesIn(page)
               /\ d.next = page.next
               /\ d.fromStart = current.fromStart
               /\ d.total # Unknown =>
                     current.fromStart /\ page.next = NoToken /\ ~page.pruned
<1> DEFINE paged == {e.seq : e \in page.events}
           merged == page.events \cup {e \in current.events : e.seq \notin paged}
           d == AppendRunHistoryPage(current, page)
<1>1. {e.seq : e \in merged} = PlacesIn(current) \cup PlacesIn(page)
  BY DEF PlacesIn
<1> HIDE DEF merged
<1>2. /\ d.events = merged
      /\ d.next = page.next
      /\ d.fromStart = current.fromStart
      /\ d.total # Unknown => current.fromStart /\ page.next = NoToken /\ ~page.pruned
  BY DEF AppendRunHistoryPage, merged, Detail
<1> HIDE DEF d
<1> QED
  BY <1>1, <1>2 DEF PlacesIn, d

LEMMA PageContinues ==
    ASSUME IInv, TInv, NEW q \in reads, IsNewest(q), q.op = "page",
           Answer(q).run = flow.run
    PROVE  LET d == AppendRunHistoryPage(flow, Answer(q))
           IN  /\ \E a, b \in Nat : Stretches(d, a, b)
               /\ d.total # Unknown => PlacesIn(d) = 1..flow.next.through
<1> DEFINE page == Answer(q)
           d == AppendRunHistoryPage(flow, page)
<1>1. /\ q.path.page = flow.next /\ flow.next # NoToken
      /\ IsBounded(q.path) /\ TypeOK /\ ServerOK /\ q \in Read
  <2>1. q.path = FlowEndpoint(FALSE, flow.next) /\ flow.next # NoToken
    BY DEF IInv, NewestRemembered
  <2>2. TypeOK /\ ServerOK /\ q \in Read
    BY DEF IInv, TypeOK
  <2>3. IsBounded(q.path)
    BY NewestPageContinuesFlow
  <2>4. q.path.page = flow.next
    BY <2>1 DEF FlowEndpoint
  <2> QED
    BY <2>1, <2>2, <2>3, <2>4
<1>2. PICK a \in Nat, b \in Nat : Stretches(flow, a, b)
  BY DEF TInv, TimelineStretches
<1>3. b = flow.next.after /\ b <= flow.next.through /\ (flow.fromStart => a = 0)
  BY <1>1, <1>2 DEF Stretches
<1>4. page = ForwardPage(AddressedRun(q.path), q.path, q.limit, q.id)
  BY <1>1 DEF Answer
<1>5. PICK c \in Nat :
          /\ Stretches(page, b, c)
          /\ page.next = NoToken /\ ~page.pruned => c = flow.next.through
  <2>1. /\ q.path \in Path /\ q.limit \in Nat /\ Walks(q.path.page)
        /\ AddressedRun(q.path) \in Runs
    BY <1>1, AddressedRunType DEF Read, TInv, CursorsWalk
  <2> HIDE DEF page
  <2> QED
    BY <1>1, <1>3, <1>4, <2>1, ForwardPageStretches
<1>6. page \in Detail /\ flow \in Detail
  BY <1>1, ReadIsAnswered DEF TypeOK
<1> HIDE DEF page
<1>7. /\ PlacesIn(d) = PlacesIn(flow) \cup PlacesIn(page)
      /\ d.next = page.next
      /\ d.fromStart = flow.fromStart
      /\ d.total # Unknown => flow.fromStart /\ page.next = NoToken /\ ~page.pruned
  BY <1>6, MergedPlaces
<1> HIDE DEF d
<1>8. a <= b /\ b <= c /\ PlacesIn(d) = (a + 1)..c
  BY <1>2, <1>5, <1>7 DEF Stretches
<1>9. Stretches(d, a, c)
  BY <1>3, <1>5, <1>7, <1>8 DEF Stretches
<1>10. d.total # Unknown => PlacesIn(d) = 1..flow.next.through
  BY <1>3, <1>5, <1>7, <1>8
<1> QED
  BY <1>9, <1>10 DEF d, page
-----------------------------------------------------------------------------
(* Every step keeps the timeline a stretch. *)

LEMMA RouteWalks ==
    ASSUME NEW rt \in Routes
    PROVE  Walks(rt.page)
<1>1. Walks(NoToken)
  BY DEF Walks, NoToken
<1>2. \A r \in V2Runs, n \in Bookmarks : Walks(BookmarkToken(r, n))
  BY RunDetailAssumption DEF Walks, BookmarkToken
<1>3. rt.page = NoToken \/ \E r \in V2Runs, n \in Bookmarks : rt.page = BookmarkToken(r, n)
  <2>1. rt \in RunRoutes \/ rt \in InstanceRoutes \/ rt \in FlowRoutes
    BY DEF Routes
  <2>2. rt \in RunRoutes =>
          rt.page = NoToken \/ \E r \in V2Runs, n \in Bookmarks : rt.page = BookmarkToken(r, n)
    BY DEF RunRoutes
  <2>3. rt \in InstanceRoutes \/ rt \in FlowRoutes => rt.page = NoToken
    BY DEF InstanceRoutes, FlowRoutes
  <2> QED
    BY <2>1, <2>2, <2>3
<1> QED
  BY <1>1, <1>2, <1>3

LEMMA FetchFlowKeepsCursors ==
    ASSUME CursorsWalk, NEW op, NEW path, NEW limit, NEW inFlight \in SUBSET reads,
           FetchFlow(op, path, limit, inFlight), Walks(path.page)
    PROVE  CursorsWalk'
  BY DEF CursorsWalk, FetchFlow, Walks

LEMMA RouteLoadKeepsCursors ==
    ASSUME CursorsWalk, NEW rt \in Routes, NEW inFlight \in SUBSET reads,
           LoadRouteFlow(rt, inFlight)
    PROVE  CursorsWalk'
<1> DEFINE path == [kind |-> rt.kind, id |-> rt.id, complete |-> rt.complete, page |-> rt.page]
<1>1. Walks(path.page)
  BY RouteWalks
<1>2. FetchFlow(IF rt.kind = "flow" THEN "legacy" ELSE "open", path, PageSize, inFlight)
  BY DEF LoadRouteFlow
<1> HIDE DEF path
<1> QED
  BY <1>1, <1>2, FetchFlowKeepsCursors

LEMMA OperatorKeepsTInv ==
    ASSUME IInv, TInv, Operator
    PROVE  TInv'
<1>1. flow' = flow
  BY DEF Operator, Mount, Navigate, RetryFlowLoad, LoadCompleteDetails,
         LoadOlderHistory, LoadHistoryPage
<1>2. TimelineStretches'
  BY <1>1 DEF TInv, TimelineStretches, Stretches, PlacesIn
<1> SUFFICES CursorsWalk'
  BY <1>2 DEF TInv
<1>3. Walks(NoToken) /\ Walks(flow.next) /\ CursorsWalk /\ route \in Routes
  <2>1. Walks(NoToken) /\ CursorsWalk /\ route \in Routes
    BY DEF Walks, NoToken, TInv, IInv, TypeOK
  <2>2. PICK a \in Nat, b \in Nat : Stretches(flow, a, b)
    BY DEF TInv, TimelineStretches
  <2> QED
    BY <2>1, <2>2 DEF Stretches, Walks
<1>4. \A c \in BOOLEAN, t \in {NoToken, flow.next} : Walks(FlowEndpoint(c, t).page)
  BY <1>3 DEF FlowEndpoint
<1>5. CASE Mount
  BY <1>3, <1>5, RouteLoadKeepsCursors DEF Mount
<1>6. ASSUME NEW rt \in Routes, Navigate(rt)
      PROVE  CursorsWalk'
  BY <1>3, <1>6, RouteLoadKeepsCursors DEF Navigate
<1>7. CASE RetryFlowLoad
  <2>1. Walks(lastFlowPath.page)
    BY <1>3 DEF CursorsWalk
  <2> QED
    BY <1>3, <1>7, <2>1, FetchFlowKeepsCursors DEF RetryFlowLoad
<1>8. CASE LoadCompleteDetails
  <2> DEFINE path == IF flow.run # NoRun
                       THEN FlowEndpoint(TRUE, NoToken)
                       ELSE [kind |-> route.kind, id |-> route.id,
                             complete |-> TRUE, page |-> NoToken]
  <2>1. Walks(path.page)
    BY <1>3, <1>4
  <2>2. FetchFlow("open", path, PageSize, reads)
    BY <1>8 DEF LoadCompleteDetails
  <2> HIDE DEF path
  <2> QED
    BY <1>3, <2>1, <2>2, FetchFlowKeepsCursors
<1>9. CASE LoadOlderHistory
  <2> DEFINE path == FlowEndpoint(TRUE, NoToken)
             limit == Least(flow.total, historyLimit + PageSize)
  <2>1. Walks(path.page)
    BY <1>4
  <2>2. FetchFlow("open", path, limit, reads)
    BY <1>9 DEF LoadOlderHistory
  <2> HIDE DEF path, limit
  <2> QED
    BY <1>3, <2>1, <2>2, FetchFlowKeepsCursors
<1>10. CASE LoadHistoryPage
  <2> DEFINE path == FlowEndpoint(FALSE, flow.next)
  <2>1. Walks(path.page)
    BY <1>4
  <2>2. PageRead(path)
    BY <1>10 DEF LoadHistoryPage, PageRead
  <2> HIDE DEF path
  <2> QED
    BY <1>3, <2>1, <2>2 DEF PageRead, CursorsWalk, Walks
<1> QED
  BY <1>5, <1>6, <1>7, <1>8, <1>9, <1>10 DEF Operator

LEMMA SettleKeepsTInv ==
    ASSUME IInv, TInv, NEW q \in reads, Settle(q)
    PROVE  TInv'
<1>1. ASSUME reads' = reads \ {q}, UNCHANGED lastFlowPath
      PROVE  CursorsWalk'
  BY <1>1 DEF TInv, CursorsWalk, Walks
<1>2. ASSUME UNCHANGED flow
      PROVE  TimelineStretches'
  BY <1>2 DEF TInv, TimelineStretches, Stretches, PlacesIn
<1>3. CASE OpenAnswered(q)
  <2>1. flow' = Answer(q)
    BY <1>3 DEF OpenAnswered
  <2>2. TimelineStretches'
    <3>1. \E a, b \in Nat : Stretches(Answer(q), a, b)
      BY AnswerStretches DEF TInv
    <3> QED
      BY <2>1, <3>1 DEF TimelineStretches, Stretches, PlacesIn
  <2>3. CursorsWalk'
    <3>1. CASE q.op = "legacy" /\ AddressedRun(q.path) \in V2Runs
      <4> DEFINE rt == CanonicalRoute(AddressedRun(q.path))
      <4>1. LoadRouteFlow(rt, reads \ {q})
        BY <1>3, <3>1 DEF OpenAnswered
      <4>2. rt \in Routes
        BY <3>1 DEF CanonicalRoute, Routes, RunRoutes, NoToken
      <4> HIDE DEF rt
      <4> QED
        BY <4>1, <4>2, RouteLoadKeepsCursors DEF TInv
    <3>2. CASE ~(q.op = "legacy" /\ AddressedRun(q.path) \in V2Runs)
      BY <1>1, <1>3, <3>2 DEF OpenAnswered
    <3> QED
      BY <3>1, <3>2
  <2> QED
    BY <2>2, <2>3 DEF TInv
<1>4. CASE PageAnswered(q)
  <2>1. CursorsWalk'
    BY <1>1, <1>4 DEF PageAnswered
  <2>2. TimelineStretches'
    <3>1. CASE Answer(q).run = flow.run
      <4>1. flow' = AppendRunHistoryPage(flow, Answer(q)) /\ IsNewest(q) /\ q.op = "page"
        BY <1>4, <3>1 DEF PageAnswered
      <4>2. \E a, b \in Nat : Stretches(AppendRunHistoryPage(flow, Answer(q)), a, b)
        BY <3>1, <4>1, PageContinues
      <4> QED
        BY <4>1, <4>2 DEF TimelineStretches, Stretches, PlacesIn
    <3>2. CASE Answer(q).run # flow.run
      BY <1>2, <1>4, <3>2 DEF PageAnswered
    <3> QED
      BY <3>1, <3>2
  <2> QED
    BY <2>1, <2>2 DEF TInv
<1>5. CASE OpenFailed(q) \/ PageFailed(q) \/ SupersededSettled(q)
  BY <1>1, <1>2, <1>5 DEF OpenFailed, PageFailed, SupersededSettled, TInv
<1> QED
  BY <1>3, <1>4, <1>5 DEF Settle

LEMMA ScreenKeptKeepsTInv ==
    ASSUME TInv, UNCHANGED screen
    PROVE  TInv'
  BY DEF screen, TInv, TimelineStretches, CursorsWalk, Stretches, PlacesIn, Walks

LEMMA InitTInv ==
    ASSUME Init
    PROVE  TInv
<1>1. flow = NoFlow /\ reads = {} /\ lastFlowPath = NoPath
  BY DEF Init
<1>2. CursorsWalk
  BY <1>1 DEF CursorsWalk, Walks, NoPath, NoToken
<1>3. PlacesIn(flow) = (0 + 1)..0 /\ flow.next = NoToken
  BY <1>1 DEF PlacesIn, NoFlow
<1>4. Stretches(flow, 0, 0)
  BY <1>3 DEF Stretches
<1> QED
  BY <1>2, <1>4 DEF TInv, TimelineStretches

\* Together with the invariant of the screen, TInv is inductive.
THEOREM StretchInvariance == SafeSpec => []TInv
<1>1. Init => TInv
  BY InitTInv
<1>2. IInv /\ TInv /\ [Next]_vars => TInv'
  <2>1. ASSUME TInv, Engine
        PROVE  TInv'
    BY <2>1, ScreenKeptKeepsTInv DEF Engine, RecordEvent, PruneHistory, ContinueAsNew
  <2>2. ASSUME TInv, UNCHANGED vars
        PROVE  TInv'
    BY <2>2, ScreenKeptKeepsTInv DEF vars
  <2> QED
    BY <2>1, <2>2, OperatorKeepsTInv, SettleKeepsTInv DEF Next
<1> QED
  BY <1>1, <1>2, Invariance, PTL DEF SafeSpec
-----------------------------------------------------------------------------
\* The timeline on display is a gap-free stretch of the history of the run on
\* display, and its cursor continues it, for any history and page size.
THEOREM TimelineStands == SafeSpec => []TimelineOfShownRun
<1>1. IInv /\ TInv => TimelineOfShownRun
  <2> SUFFICES ASSUME IInv, TInv
               PROVE  TimelineOfShownRun
    OBVIOUS
  <2>1. PICK a \in Nat, b \in Nat : Stretches(flow, a, b)
    BY DEF TInv, TimelineStretches
  <2> DEFINE seqs == {e.seq : e \in flow.events}
  <2>2. a <= b /\ seqs = (a + 1)..b
    BY <2>1 DEF Stretches, PlacesIn
  <2>3. \A e \in flow.events : e.run = flow.run
    BY DEF IInv, FlowIsAnswer
  <2> HIDE DEF seqs
  <2>4. \A m, n \in seqs : m..n \subseteq seqs
    BY <2>2
  <2>5. ASSUME flow.next # NoToken
        PROVE  /\ flow.next.run = flow.run
               /\ seqs # {} => flow.next.after \in seqs
               /\ flow.next.after + 1 \notin seqs
    <3>1. flow.next.run = flow.run
      BY <2>5 DEF IInv, FlowIsAnswer
    <3>2. flow.next.after = b
      BY <2>1, <2>5 DEF Stretches
    <3> QED
      BY <2>2, <3>1, <3>2
  <2> QED
    BY <2>3, <2>4, <2>5 DEF TimelineOfShownRun, seqs
<1> QED
  BY <1>1, Invariance, StretchInvariance, PTL

\* A page that makes the total known has completed the snapshot its cursor
\* walks, also when retention removed the history on the way.
THEOREM TotalIsSnapshot == SafeSpec => TotalCountsSnapshot
<1> DEFINE Step ==
        ready /\ ready' /\ flow' # flow /\ flow'.total # Unknown =>
            {e.seq : e \in flow'.events} = 1..flow.next.through
<1>1. IInv /\ TInv /\ [Next]_vars => [Step]_vars
  <2> SUFFICES ASSUME IInv, TInv, Next, ready, ready', flow' # flow, flow'.total # Unknown
               PROVE  PlacesIn(flow') = 1..flow.next.through
    BY DEF PlacesIn
  <2>1. CASE Operator
    BY <2>1 DEF Operator, Mount, Navigate, RetryFlowLoad, LoadCompleteDetails,
                LoadOlderHistory, LoadHistoryPage
  <2>2. CASE Engine
    BY <2>2 DEF Engine, RecordEvent, PruneHistory, ContinueAsNew, screen
  <2>3. ASSUME NEW q \in reads, Settle(q)
        PROVE  PlacesIn(flow') = 1..flow.next.through
    <3>1. PageAnswered(q) /\ Answer(q).run = flow.run
      <4>1. ~OpenAnswered(q)
        BY DEF OpenAnswered, IInv, NewestRemembered
      <4> QED
        BY <2>3, <4>1 DEF Settle, OpenFailed, PageAnswered, PageFailed, SupersededSettled
    <3>2. flow' = AppendRunHistoryPage(flow, Answer(q)) /\ IsNewest(q) /\ q.op = "page"
      BY <3>1 DEF PageAnswered
    <3> QED
      BY <3>1, <3>2, PageContinues
  <2> QED
    BY <2>1, <2>2, <2>3 DEF Next
<1> QED
  BY <1>1, Invariance, StretchInvariance, PTL DEF SafeSpec, TotalCountsSnapshot
-----------------------------------------------------------------------------
(***************************************************************************)
(* The page the run is shown on, and who moves it.                         *)
(***************************************************************************)

\* A call of scrollToRouteHash.
Follow == [request : Nat, place : Places, interrupted : BOOLEAN]

PageTypeOK ==
    /\ place \in Places
    /\ request \in Nat
    /\ follows \subseteq Follow
    /\ timeline.cards \subseteq Sections

\* The run on display is the one of the address, and what the operator sought
\* is there.
ShownIsSought ==
    /\ sought = place.id
    /\ display = "ready" => place.kind = "run" /\ timeline.run = place.id

\* Calls are numbered, none beyond the newest.
FollowsNumbered == \A a \in follows : a.request <= request

\* A page that the operator moved is followed by no call that is not interrupted.
MovedIsInterrupted == scrolled = "operator" => \A a \in follows : a.interrupted

\* A call whose event is among the rows has highlighted it, whether or not the
\* list of events is the tab on display.
Finds(a) ==
    /\ ~a.interrupted /\ RouteHashScrollIsCurrent(a)
    /\ display = "ready" /\ a.place.anchor \in timeline.rows \cap Sequences

FoundIsHighlighted == \A a \in follows : Finds(a) => focused = a.place.anchor

\* Every way the operator moves about is one the screen gives way to.
AllInterrupt == \A i \in Inputs : Interrupts(i)

PageInv ==
    /\ AllInterrupt
    /\ PageTypeOK
    /\ ShownIsSought
    /\ FollowsNumbered
    /\ MovedIsInterrupted
    /\ FoundIsHighlighted

\* Input of the operator interrupts every call.
LEMMA InterruptedCalls ==
    ASSUME AllInterrupt, follows \subseteq Follow, NEW i \in Inputs
    PROVE  /\ Interrupted(i) \subseteq Follow
           /\ \A b \in Interrupted(i) :
                 b.interrupted /\ \E a \in follows : b.request = a.request
<1>1. \A a \in follows : /\ [a EXCEPT !.interrupted = @ \/ Interrupts(i)] \in Follow
                         /\ [a EXCEPT !.interrupted = @ \/ Interrupts(i)].interrupted
                         /\ [a EXCEPT !.interrupted = @ \/ Interrupts(i)].request = a.request
  <2> SUFFICES ASSUME NEW a \in follows
               PROVE  /\ [a EXCEPT !.interrupted = @ \/ Interrupts(i)] \in Follow
                      /\ [a EXCEPT !.interrupted = @ \/ Interrupts(i)].interrupted
                      /\ [a EXCEPT !.interrupted = @ \/ Interrupts(i)].request = a.request
    OBVIOUS
  <2>1. Interrupts(i) /\ a \in Follow
    BY DEF AllInterrupt
  <2>2. (a.interrupted \/ Interrupts(i)) = TRUE
    BY <2>1 DEF Interrupts
  <2>3. [a EXCEPT !.interrupted = @ \/ Interrupts(i)] = [a EXCEPT !.interrupted = TRUE]
    BY <2>2
  <2> QED
    BY <2>1, <2>3 DEF Follow
<1>2. ASSUME NEW b \in Interrupted(i)
      PROVE  b \in Follow /\ b.interrupted /\ \E a \in follows : b.request = a.request
  <2>1. PICK a \in follows : b = [a EXCEPT !.interrupted = @ \/ Interrupts(i)]
    BY DEF Interrupted
  <2>2. b \in Follow /\ b.interrupted /\ b.request = a.request
    BY <1>1, <2>1, Zenon
  <2> QED
    BY <2>2, Zenon
<1> QED
  BY <1>2, Zenon

\* A step of the operator that stays at the address.
LEMMA InputKeepsPage ==
    ASSUME PageInv, NEW i \in Inputs, follows' = Interrupted(i),
           UNCHANGED <<place, timeline, display, request, sought>>
    PROVE  PageInv'
<1>1. /\ follows' \subseteq Follow
      /\ \A b \in follows' : b.interrupted /\ \E a \in follows : b.request = a.request
  BY InterruptedCalls DEF PageInv, PageTypeOK
<1>2. PageTypeOK' /\ ShownIsSought' /\ AllInterrupt'
  BY <1>1 DEF PageInv, PageTypeOK, ShownIsSought, AllInterrupt, Interrupts
<1>3. FollowsNumbered'
  BY <1>1 DEF PageInv, FollowsNumbered
<1>4. MovedIsInterrupted' /\ FoundIsHighlighted'
  BY <1>1 DEF MovedIsInterrupted, FoundIsHighlighted, Finds
<1> QED
  BY <1>2, <1>3, <1>4 DEF PageInv

\* Another address leaves every call behind.
LEMMA GoToKeepsPage ==
    ASSUME PageInv, NEW p \in Places, GoTo(p), sought' = p.id, scrolled' = scrolled
    PROVE  PageInv'
<1>1. /\ place' = p /\ request' = request + 1 /\ display' = "reading"
      /\ timeline' = timeline /\ follows' = follows
      /\ \A a \in follows : a.request \in Nat /\ a.request <= request
      /\ request \in Nat
  BY DEF GoTo, PageInv, PageTypeOK, FollowsNumbered, Follow
<1>2. PageTypeOK' /\ ShownIsSought' /\ AllInterrupt'
  BY <1>1 DEF PageInv, PageTypeOK, ShownIsSought, AllInterrupt, Interrupts
<1>3. FollowsNumbered' /\ MovedIsInterrupted'
  BY <1>1 DEF PageInv, FollowsNumbered, MovedIsInterrupted
<1>4. FoundIsHighlighted'
  BY <1>1 DEF FoundIsHighlighted, Finds
<1> QED
  BY <1>2, <1>3, <1>4 DEF PageInv

LEMMA TimelineArrivesKeepsPage ==
    ASSUME PageInv, TimelineArrives
    PROVE  PageInv'
<1>1. PICK d \in Answers(place) : timeline' = d /\ focused' = Highlighted(d)
  BY DEF TimelineArrives
<1>2. d.run = place.id /\ d.cards \subseteq Sections
  BY DEF Answers
<1> DEFINE new == [request |-> request + 1, place |-> place, interrupted |-> FALSE]
<1>3. /\ place \in Places /\ place.kind = "run" /\ request \in Nat /\ follows \subseteq Follow
      /\ \A a \in follows : a.request \in Nat /\ a.request <= request
      /\ display' = "ready" /\ scrolled' = "nobody"
      /\ UNCHANGED <<place, tab, sought, openings>>
      /\ \/ place.anchor = NoAnchor /\ UNCHANGED <<request, follows>>
         \/ request' = request + 1 /\ follows' = follows \cup {new}
  BY DEF TimelineArrives, PageInv, PageTypeOK, FollowsNumbered, Follow
<1>4. new \in Follow
  BY <1>3 DEF Follow
<1>5. PageTypeOK'
  <2> HIDE DEF new
  <2>1. place' \in Places
    BY <1>3
  <2>2. request' \in Nat
    BY <1>3
  <2>3. follows' \subseteq Follow
    BY <1>3, <1>4
  <2>4. timeline'.cards \subseteq Sections
    BY <1>1, <1>2
  <2> QED
    BY <2>1, <2>2, <2>3, <2>4, Zenon DEF PageTypeOK
<1>6. ShownIsSought' /\ MovedIsInterrupted' /\ AllInterrupt'
  BY <1>1, <1>2, <1>3 DEF PageInv, ShownIsSought, MovedIsInterrupted, AllInterrupt, Interrupts
<1>7. FollowsNumbered'
  BY <1>3 DEF FollowsNumbered
<1>8. FoundIsHighlighted'
  <2> SUFFICES ASSUME NEW a \in follows', Finds(a)'
               PROVE  focused' = a.place.anchor
    BY DEF FoundIsHighlighted
  <2>1. a.place = place
    BY <1>3 DEF Finds, RouteHashScrollIsCurrent
  <2>2. a.place.anchor \in d.rows \cap Sequences
    BY <1>1 DEF Finds
  <2> QED
    BY <1>1, <2>1, <2>2 DEF Highlighted
<1> QED
  BY <1>5, <1>6, <1>7, <1>8 DEF PageInv

LEMMA FrameKeepsPage ==
    ASSUME PageInv, NEW a \in follows, Frame(a)
    PROVE  PageInv'
<1>1. /\ follows' \subseteq follows
      /\ UNCHANGED <<place, timeline, display, tab, focused, request, sought>>
      /\ scrolled' = scrolled \/ scrolled' = "screen"
  BY DEF Frame
<1>2. PageTypeOK' /\ ShownIsSought' /\ AllInterrupt'
  BY <1>1 DEF PageInv, PageTypeOK, ShownIsSought, AllInterrupt, Interrupts
<1>3. FollowsNumbered' /\ MovedIsInterrupted'
  BY <1>1 DEF PageInv, FollowsNumbered, MovedIsInterrupted
<1>4. FoundIsHighlighted'
  BY <1>1 DEF PageInv, FoundIsHighlighted, Finds, RouteHashScrollIsCurrent
<1> QED
  BY <1>2, <1>3, <1>4 DEF PageInv

LEMMA ReadKeepsPage ==
    ASSUME PageInv, TimelineFails \/ ReadAnew
    PROVE  PageInv'
<1>1. /\ display' # "ready"
      /\ UNCHANGED <<place, timeline, tab, focused, request, follows, scrolled, sought>>
  BY DEF TimelineFails, ReadAnew
<1>2. PageTypeOK' /\ ShownIsSought' /\ AllInterrupt'
  BY <1>1 DEF PageInv, PageTypeOK, ShownIsSought, AllInterrupt, Interrupts
<1>3. FollowsNumbered' /\ MovedIsInterrupted' /\ FoundIsHighlighted'
  BY <1>1 DEF PageInv, FollowsNumbered, MovedIsInterrupted, FoundIsHighlighted, Finds
<1> QED
  BY <1>2, <1>3 DEF PageInv

LEMMA TabArrivesKeepsPage ==
    ASSUME PageInv, NEW t, TabArrives(t)
    PROVE  PageInv'
<1>1. UNCHANGED <<place, timeline, display, focused, request, follows, scrolled, sought>>
  BY DEF TabArrives
<1>2. PageTypeOK' /\ ShownIsSought' /\ AllInterrupt' /\ FollowsNumbered' /\ MovedIsInterrupted'
  BY <1>1 DEF PageInv, PageTypeOK, ShownIsSought, AllInterrupt, Interrupts, FollowsNumbered,
     MovedIsInterrupted
<1>3. FoundIsHighlighted'
  BY <1>1 DEF PageInv, FoundIsHighlighted, Finds, RouteHashScrollIsCurrent
<1> QED
  BY <1>2, <1>3 DEF PageInv

LEMMA FocusFailureEventKeepsPage ==
    ASSUME PageInv, NEW f \in FailuresOf(timeline), NEW i \in Inputs, FocusFailureEvent(f, i)
    PROVE  PageInv'
<1>1. display = "ready" /\ sought' = timeline.run /\ timeline.run = place.id
  BY DEF FocusFailureEvent, PageInv, ShownIsSought
<1> DEFINE p == FailureEventLocation(f)
<1>2. CASE GoTo(p) /\ UNCHANGED scrolled
  <2>1. EventOf[f].sequence \in Sequences /\ timeline.run \in Steps \cup Children
    BY <1>1, RunTimelineAssumption DEF FailuresOf, PageInv, PageTypeOK, Places
  <2>2. p \in Places /\ p.id = timeline.run
    BY <2>1 DEF FailureEventLocation, CanonicalPlace, Places
  <2> HIDE DEF p
  <2> QED
    BY <1>1, <1>2, <2>2, GoToKeepsPage
<1>3. CASE follows' = Interrupted(i) /\ UNCHANGED <<place, timeline, display, tab, request, openings>>
  <2>1. sought' = sought
    BY <1>1 DEF PageInv, ShownIsSought
  <2> QED
    BY <1>3, <2>1, InputKeepsPage
<1> QED
  BY <1>2, <1>3 DEF FocusFailureEvent

LEMMA SetRunDetailTabKeepsPage ==
    ASSUME PageInv, NEW t \in {"timeline", "events"}, NEW i \in Inputs, SetRunDetailTab(t, i)
    PROVE  PageInv'
<1> DEFINE p == [place EXCEPT !.tab = t, !.anchor = NoAnchor]
<1>1. CASE GoTo(p) /\ UNCHANGED <<scrolled, sought>>
  <2>1. p \in Places /\ p.id = place.id
    BY DEF PageInv, PageTypeOK, Places
  <2> HIDE DEF p
  <2> QED
    BY <1>1, <2>1, GoToKeepsPage DEF PageInv, ShownIsSought
<1>2. CASE follows' = Interrupted(i) /\ UNCHANGED <<place, timeline, display, tab, request, scrolled, sought, openings>>
  BY <1>2, InputKeepsPage
<1> QED
  BY <1>1, <1>2 DEF SetRunDetailTab

LEMMA TimelineNextKeepsPage ==
    ASSUME PageInv, [TimelineNext]_timelineVars
    PROVE  PageInv'
<1>1. CASE TimelineArrives \/ TimelineFails \/ ReadAnew
  BY <1>1, TimelineArrivesKeepsPage, ReadKeepsPage
<1>2. CASE \E a \in follows : Frame(a)
  BY <1>2, FrameKeepsPage
<1>3. CASE \E i \in Inputs : MoveAbout(i)
  BY <1>3, InputKeepsPage DEF MoveAbout
<1>4. CASE \E f \in FailuresOf(timeline), i \in Inputs : FocusFailureEvent(f, i)
  BY <1>4, FocusFailureEventKeepsPage
<1>5. CASE \E t \in {"timeline", "events"}, i \in Inputs : SetRunDetailTab(t, i)
  BY <1>5, SetRunDetailTabKeepsPage
<1>6. CASE \E t \in {"timeline", "events"} : TabArrives(t)
  BY <1>6, TabArrivesKeepsPage
<1>7. CASE \E p \in Places : FollowLink(p)
  BY <1>7, GoToKeepsPage DEF FollowLink
<1>8. ASSUME NEW c \in Children, NavigateToChild(c)
      PROVE  PageInv'
  <2>1. CanonicalPlace("instance", c) \in Places /\ CanonicalPlace("instance", c).id = c
    BY DEF CanonicalPlace, Places
  <2> QED
    BY <1>8, <2>1, GoToKeepsPage DEF NavigateToChild
<1>9. CASE UNCHANGED timelineVars
  BY <1>9 DEF timelineVars, PageInv, PageTypeOK, ShownIsSought, AllInterrupt, Interrupts,
     FollowsNumbered, MovedIsInterrupted, FoundIsHighlighted, Finds, RouteHashScrollIsCurrent
<1> QED
  BY <1>1, <1>2, <1>3, <1>4, <1>5, <1>6, <1>7, <1>8, <1>9 DEF TimelineNext

LEMMA TimelineInitPage == AllInterrupt /\ TimelineInit => PageInv
<1> SUFFICES ASSUME AllInterrupt, TimelineInit
             PROVE  PageInv
  OBVIOUS
<1>1. place \in Places
  BY DEF TimelineInit, CanonicalPlace, Places
<1> QED
  BY <1>1 DEF TimelineInit, NoTimeline, PageInv, PageTypeOK, ShownIsSought, FollowsNumbered,
     MovedIsInterrupted, FoundIsHighlighted

\* The inductive invariant of the page, for any runs, failures, fragments and
\* links.
THEOREM PageInvariance == AllInterrupt /\ TimelineSafeSpec => []PageInv
  BY TimelineInitPage, TimelineNextKeepsPage, PTL DEF TimelineSafeSpec

\* Where every input is one that interrupts, the screen never takes the page
\* away from the operator who moved it (scrollToRouteHash).
THEOREM OperatorIsObeyed == AllInterrupt /\ TimelineSafeSpec => OperatorKeepsPage
<1>1. ASSUME PageInv, [TimelineNext]_timelineVars
      PROVE  [scrolled = "operator" => scrolled' # "screen"]_timelineVars
  <2> SUFFICES ASSUME scrolled = "operator", TimelineNext
               PROVE  scrolled' # "screen"
    BY <1>1
  <2>1. \A a \in follows : a.interrupted
    BY <1>1 DEF PageInv, MovedIsInterrupted
  <2> QED
    BY <2>1 DEF TimelineNext, TimelineArrives, TimelineFails, ReadAnew, Frame, MoveAbout,
       FocusFailureEvent, SetRunDetailTab, TabArrives, FollowLink, NavigateToChild
<1>2. PageInv /\ [TimelineNext]_timelineVars
         => [scrolled = "operator" => scrolled' # "screen"]_timelineVars
  BY <1>1
<1> QED
  BY PageInvariance, <1>2, PTL DEF TimelineSafeSpec, OperatorKeepsPage

\* A link to an event ends at the highlighted row of that event, in the run
\* that was asked for, whatever was read and followed before.
THEOREM LinkFindsRow == AllInterrupt /\ TimelineSafeSpec => LinkEndsAtRow
<1> DEFINE Ends == \A a \in follows \ follows' :
                       Rests(a) => focused = a.place.anchor /\ timeline.run = sought
<1>1. ASSUME PageInv
      PROVE  Ends
  <2> SUFFICES ASSUME NEW a \in follows, Rests(a)
               PROVE  focused = a.place.anchor /\ timeline.run = sought
    OBVIOUS
  <2>1. display = "ready" /\ a.place.anchor \in Sequences /\ a.place.anchor \notin timeline.cards
    BY <1>1, RunTimelineAssumption DEF Rests, Present, PageInv, PageTypeOK, Sequences
  <2>2. Finds(a)
    BY <2>1 DEF Rests, Present, Finds
  <2> QED
    BY <1>1, <2>1, <2>2 DEF PageInv, FoundIsHighlighted, ShownIsSought
<1>2. PageInv => [Ends]_timelineVars
  BY <1>1
<1>3. AllInterrupt /\ TimelineSafeSpec => [][Ends]_timelineVars
  <2> HIDE DEF Ends
  <2> QED
    BY PageInvariance, <1>2, PTL
<1> QED
  BY <1>3 DEF LinkEndsAtRow
-----------------------------------------------------------------------------
(***************************************************************************)
(* What the detail page tells of a run: the parts of DetailTellsTheRun, each *)
(* for every answer of the engine that has the shape the theorem assumes.  *)
(***************************************************************************)
\* The lesser and the greater of two numbers.
LEMMA MinIs ==
    ASSUME NEW m \in Int, NEW n \in Int
    PROVE  Min({m, n}) = IF m <= n THEN m ELSE n
<1> DEFINE x == IF m <= n THEN m ELSE n
<1>1. x \in {m, n} /\ \A y \in {m, n} : x <= y
  OBVIOUS
<1>2. \A y \in {m, n} : (\A z \in {m, n} : y <= z) => y = x
  OBVIOUS
<1> QED BY <1>1, <1>2 DEF Min

LEMMA MaxIs ==
    ASSUME NEW m \in Int, NEW n \in Int
    PROVE  Max({m, n}) = IF m >= n THEN m ELSE n
<1> DEFINE x == IF m >= n THEN m ELSE n
<1>1. x \in {m, n} /\ \A y \in {m, n} : x >= y
  OBVIOUS
<1>2. \A y \in {m, n} : (\A z \in {m, n} : y >= z) => y = x
  OBVIOUS
<1> QED BY <1>1, <1>2 DEF Max

\* A run looks closed exactly when its status is one of a closed run, and has
\* an output only then (flow.vue, the status class and the output card).
THEOREM ClosedLook ==
    ASSUME NEW given
    PROVE  ClosedRunsLookIt(given)
<1>1. FirstOf(given, <<"status">>) = IF Has(given, "status") THEN given.status ELSE Absent
  BY FirstOfOne
<1>2. IsClosed(given) <=> DetailStatusClass(FirstOf(given, <<"status">>))
                              \in {"success", "danger", "muted"}
  BY <1>1 DEF IsClosed, IsIn, DetailStatusClass, Absent
<1>3. "Output" \in DataCards(given) => IsClosed(given) /\ ~ Bounded(given)
  BY DEF DataCards, When
<1> QED BY <1>2, <1>3 DEF ClosedRunsLookIt

\* The counts of an issue list add up to it, each issue counted under the badge
\* it bears, and the banner has the tone of the worst (the diagnostics card).
THEOREM IssuesCounted ==
    ASSUME NEW rows, NEW n \in Nat, DOMAIN rows = 1..n
    PROVE  IssuesAddUp(rows)
<1> DEFINE summary == DiagnosticsSummary(rows)
           Badged(severity) == {i \in DOMAIN rows : DiagnosticBadge(rows[i]) = severity}
           critical == Having(rows, "critical")
           warning == Having(rows, "warning")
           info == Badged("info")
<1>1. Badged("critical") = critical /\ Badged("warning") = warning
  BY DEF DiagnosticBadge, Having, Severities, IsIn, Is
<1>2. /\ critical \cup warning \cup info = 1..n
      /\ critical \cap warning = {} /\ (critical \cup warning) \cap info = {}
  BY DEF DiagnosticBadge, Having, Severities, IsIn, Is
<1>3. summary = [critical |-> Cardinality(critical), warning |-> Cardinality(warning),
                 info |-> n - Cardinality(critical) - Cardinality(warning)]
  BY DEF DiagnosticsSummary
<1>4. DiagnosticsBanner(rows) = IF critical # {} THEN "critical"
                                ELSE IF warning # {} THEN "warning" ELSE "info"
  BY DEF DiagnosticsBanner
<1> HIDE DEF critical, warning, info
<1>5. IsFiniteSet(1..n) /\ Cardinality(1..n) = n
  BY FS_Interval
<1>6. /\ IsFiniteSet(critical) /\ IsFiniteSet(warning) /\ IsFiniteSet(info)
      /\ IsFiniteSet(critical \cup warning)
  BY <1>2, <1>5, FS_Subset
<1>7. /\ Cardinality(critical) \in Nat /\ Cardinality(warning) \in Nat
      /\ Cardinality(info) \in Nat /\ Cardinality(critical \cup warning) \in Nat
      /\ Cardinality({}) = 0
  BY <1>6, FS_CardinalityType, FS_EmptySet
<1>8. Cardinality(critical) + Cardinality(warning) + Cardinality(info) = n
  <2>1. Cardinality(critical \cup warning) =
           Cardinality(critical) + Cardinality(warning) - Cardinality(critical \cap warning)
    BY <1>6, FS_Union
  <2> DEFINE both == critical \cup warning
  <2>2. IsFiniteSet(both) /\ both \cap info = {} /\ both \cup info = 1..n
    BY <1>2, <1>6
  <2> HIDE DEF both
  <2>3. Cardinality(both \cup info) =
           Cardinality(both) + Cardinality(info) - Cardinality(both \cap info)
    BY <1>6, <2>2, FS_Union
  <2>4. Cardinality(both \cap info) = 0 /\ Cardinality(critical \cap warning) = 0
        /\ Cardinality(both \cup info) = n
    BY <1>2, <1>5, <1>7, <2>2
  <2> QED BY <1>7, <2>1, <2>3, <2>4 DEF both
<1>9. /\ summary.critical = Cardinality(critical) /\ summary.warning = Cardinality(warning)
      /\ summary.info = Cardinality(info)
  BY <1>3, <1>7, <1>8
<1>10. /\ (Cardinality(critical) > 0) <=> (critical # {})
       /\ (Cardinality(warning) > 0) <=> (warning # {})
       /\ (Cardinality(info) > 0) <=> (info # {})
  <2>1. \A S : IsFiniteSet(S) => ((Cardinality(S) = 0) <=> (S = {}))
    BY FS_EmptySet
  <2> QED BY <1>6, <1>7, <2>1
<1> HIDE DEF summary, Badged
<1>11. \A severity \in Severities : summary[severity] = Cardinality(Badged(severity))
  BY <1>1, <1>9 DEF Severities, info
<1> DEFINE Worst(severity) ==
              /\ summary[severity] > 0
              /\ \A other \in Severities : summary[other] > 0 =>
                    <<severity, other>> \notin {<<"warning", "critical">>,
                       <<"info", "critical">>, <<"info", "warning">>}
           banner == DiagnosticsBanner(rows)
<1>12. rows # <<>> => banner = CHOOSE severity \in Severities : Worst(severity)
  <2> SUFFICES ASSUME rows # <<>>
               PROVE  banner = CHOOSE severity \in Severities : Worst(severity)
    OBVIOUS
  <2>1. n # 0
    OBVIOUS
  <2>2. critical # {} \/ warning # {} \/ info # {}
    <3>1. /\ critical = {} => Cardinality(critical) = 0
          /\ warning = {} => Cardinality(warning) = 0
          /\ info = {} => Cardinality(info) = 0
      BY <1>7
    <3> QED BY <1>7, <1>8, <2>1, <3>1
  <2>3. \A severity \in Severities : (summary[severity] > 0) <=>
           IF severity = "critical" THEN critical # {}
           ELSE IF severity = "warning" THEN warning # {} ELSE info # {}
    BY <1>9, <1>10 DEF Severities
  <2>4. banner \in Severities /\ summary[banner] > 0
    BY <1>4, <2>2, <2>3 DEF Severities
  <2>5. \A other \in Severities : summary[other] > 0 =>
           <<banner, other>> \notin {<<"warning", "critical">>,
                       <<"info", "critical">>, <<"info", "warning">>}
    BY <1>4, <2>3 DEF Severities
  <2>6. \A severity \in Severities : Worst(severity) => severity = banner
    BY <1>4, <2>3, <2>4 DEF Severities
  <2>7. Worst(banner)
    BY <2>4, <2>5
  <2> HIDE DEF Worst, banner
  <2> QED BY <2>4, <2>6, <2>7
<1> QED BY <1>11, <1>12 DEF IssuesAddUp, summary, Badged

\* A quotient rounded half up is at most half its divisor off.
LEMMA Rounded ==
    ASSUME NEW n \in Nat, NEW h \in Nat, h > 0, NEW u \in Nat, u = 2 * h
    PROVE  LET t == (n * 10 + h) \div u
           IN  t \in Nat /\ 20 * n - u <= 2 * t * u /\ 2 * t * u <= 20 * n + u
<1> DEFINE x == n * 10 + h
           t == x \div u
           r == x % u
           whole == u * t
<1>1. x \in Nat /\ u > 0
  OBVIOUS
<1>2. t \in Nat /\ r \in Nat /\ r < u /\ x = u * t + r
  <2> HIDE DEF x
  <2> QED BY <1>1
<1>3. whole \in Int /\ 10 * n + h = whole + r
  <2> HIDE DEF t, r
  <2> QED BY <1>2 DEF x
<1>4. 2 * t * u = 2 * whole
  <2> HIDE DEF t
  <2> QED BY <1>2
<1> HIDE DEF t, r, whole, x
<1>5. 20 * n - u <= 2 * whole /\ 2 * whole <= 20 * n + u
  BY <1>2, <1>3
<1> QED BY <1>2, <1>4, <1>5 DEF t, x

\* Every duration is cut by less than a minute and every size is rounded to
\* the nearest tenth of its unit (formatTimeoutDuration, formatBytes).
THEOREM AmountsRight ==
    ASSUME NEW n \in Nat
    PROVE  AmountsAreRight(n)
<1> DEFINE duration == FormatTimeoutDuration(n)
           printed == duration.h * 3600 + duration.m * 60 + duration.s
           size == FormatBytes(n)
           unit == [B |-> 10, KiB |-> 1024, MiB |-> 1024 * 1024][size[1]]
<1>1. /\ printed <= n /\ n - printed < (IF n < 3600 THEN 1 ELSE 60)
      /\ duration.m < 60 /\ duration.s < 60
  <2>1. CASE n >= 3600
    <3>1. duration.h = n \div 3600 /\ duration.m = (n % 3600) \div 60 /\ duration.s = 0
      BY <2>1 DEF FormatTimeoutDuration
    <3> DEFINE h == n \div 3600
               r == n % 3600
               m == r \div 60
               s == r % 60
    <3>2. h \in Nat /\ r \in 0..3599 /\ n = 3600 * h + r
      OBVIOUS
    <3> HIDE DEF h, r
    <3>3. m \in Nat /\ s \in 0..59 /\ r = 60 * m + s
      BY <3>2
    <3> HIDE DEF m, s, duration
    <3>4. duration.h = h /\ duration.m = m /\ duration.s = 0
      BY <3>1 DEF h, r, m
    <3> QED BY <2>1, <3>2, <3>3, <3>4
  <2>2. CASE n < 3600 /\ n >= 60
    <3>1. duration.h = 0 /\ duration.m = n \div 60 /\ duration.s = n % 60
      BY <2>2 DEF FormatTimeoutDuration
    <3> DEFINE m == n \div 60
               s == n % 60
    <3>2. m \in Nat /\ s \in 0..59 /\ n = 60 * m + s
      OBVIOUS
    <3> HIDE DEF duration
    <3>3. duration.h = 0 /\ duration.m = m /\ duration.s = s
      BY <3>1
    <3> HIDE DEF m, s
    <3> QED BY <2>2, <3>2, <3>3
  <2>3. CASE n < 60
    <3>1. duration.h = 0 /\ duration.m = 0 /\ duration.s = n
      BY <2>3 DEF FormatTimeoutDuration
    <3> HIDE DEF duration
    <3> QED BY <2>3, <3>1
  <2> QED BY <2>1, <2>2, <2>3
<1>2. size[1] # "B" => 20 * n - unit <= 2 * size[2] * unit /\ 2 * size[2] * unit <= 20 * n + unit
  <2>0. 1024 * 1024 = 1048576 /\ 1024 \div 2 = 512 /\ 1048576 \div 2 = 524288
    OBVIOUS
  <2>1. CASE n < 1024
    BY <2>1 DEF FormatBytes
  <2> DEFINE kib == 1024
             half == 512
             mib == 1048576
             middle == 524288
  <2>2. /\ kib \in Nat /\ half \in Nat /\ half > 0 /\ kib = 2 * half
        /\ mib \in Nat /\ middle \in Nat /\ middle > 0 /\ mib = 2 * middle
    BY Z3
  <2>3. n >= 1024 => \/ size = <<"KiB", (n * 10 + half) \div kib>> /\ unit = kib
                     \/ size = <<"MiB", (n * 10 + middle) \div mib>> /\ unit = mib
    BY <2>0 DEF FormatBytes
  <2> HIDE DEF kib, half, mib, middle, size, unit
  <2>4. CASE size = <<"KiB", (n * 10 + half) \div kib>> /\ unit = kib
    BY <2>2, <2>4, Rounded
  <2>5. CASE size = <<"MiB", (n * 10 + middle) \div mib>> /\ unit = mib
    BY <2>2, <2>5, Rounded
  <2> QED BY <2>1, <2>3, <2>4, <2>5
<1> HIDE DEF duration, size, unit
<1> QED BY <1>1, <1>2 DEF AmountsAreRight, duration, size, unit

\* The row of an action in the summary says what its button does, whatever
\* the engine said of actions (actionStateRows and the action buttons).
THEOREM ActionsMatch ==
    ASSUME NEW given
    PROVE  ActionsAgree(given)
<1> DEFINE Act(name) == MayAct(given, name, TerminalFallback(given, name))
           rows == ActionStateRows(given)
<1>1. rows = <<>> \/ rows = [name \in Actions |-> Act(name)]
  BY DEF ActionStateRows
<1>2. \A name \in {"repair", "cancel", "terminate", "archive", "redrive"} :
         name \in ActionButtons(given) <=> Act(name)
  BY DEF ActionButtons
<1> HIDE DEF rows, Act
<1>3. \A name \in DOMAIN rows : rows[name] = Act(name)
  BY <1>1
<1> QED BY <1>2, <1>3 DEF ActionsAgree, rows

\* "No streams were recorded" is said only where the engine says that they
\* could be read (presentWorkflowStreams); it answers availability by a flag.
THEOREM NoStreamsMeant ==
    ASSUME NEW given,
           Has(given, "workflow_streams_available") => given.workflow_streams_available \in BOOLEAN
    PROVE  NoStreamsMeansNone(given)
<1> DEFINE rows == Rows(given, "workflow_streams")
           explicit == IsIn(given, "workflow_streams_state", StreamStates)
           contract == explicit \/ Has(given, "workflow_streams_available")
           state == IF explicit THEN given.workflow_streams_state
                    ELSE IF Is(given, "workflow_streams_available", FALSE) THEN "unavailable"
                    ELSE "available"
           choices == <<
             <<state = "degraded", "could-not-be-read">>,
             <<state = "unavailable", "not-available">>,
             <<contract /\ rows = <<>>, "none-recorded">>,
             <<TRUE, Absent>> >>
           shown == PresentWorkflowStreams(given)
<1> SUFFICES ASSUME StreamCard(given) # <<>>, StreamCard(given).notice = "none-recorded"
             PROVE  /\ StreamCard(given).rows = <<>>
                    /\ \/ Is(given, "workflow_streams_state", "available")
                       \/ Is(given, "workflow_streams_available", TRUE)
  BY DEF NoStreamsMeansNone
<1>1. StreamCard(given) = shown
  BY DEF StreamCard
<1>2. shown.notice = FirstThat(choices) /\ shown.rows = rows
  BY DEF PresentWorkflowStreams
<1>3. /\ DOMAIN choices = 1..4 /\ choices[4][1] = TRUE /\ 4 \in Nat \ {0}
      /\ choices[1][1] = (state = "degraded")
      /\ choices[2][1] = (state = "unavailable")
      /\ choices[3][1] = (contract /\ rows = <<>>)
      /\ choices[1][2] = "could-not-be-read" /\ choices[2][2] = "not-available"
      /\ choices[4][2] = Absent
  OBVIOUS
<1> HIDE DEF choices, shown
<1>4. PICK i \in 1..4 : /\ choices[i][1] /\ FirstThat(choices) = choices[i][2]
                        /\ \A j \in 1..4 : j < i => ~ choices[j][1]
  BY <1>3, FirstThatIs
<1>5. FirstThat(choices) = "none-recorded"
  BY <1>1, <1>2
<1>6. i = 3
  <2>1. i = 1 \/ i = 2 \/ i = 3 \/ i = 4
    OBVIOUS
  <2> QED BY <1>3, <1>4, <1>5, <2>1 DEF Absent
<1>7. contract /\ rows = <<>> /\ state # "degraded" /\ state # "unavailable"
  <2>1. choices[3][1] /\ ~ choices[1][1] /\ ~ choices[2][1]
    BY <1>4, <1>6
  <2> QED BY <1>3, <2>1
<1>8. \/ Is(given, "workflow_streams_state", "available")
      \/ Is(given, "workflow_streams_available", TRUE)
  BY <1>7 DEF IsIn, Is, StreamStates
<1> QED BY <1>1, <1>2, <1>7, <1>8

\* "No failures" is said only when none is known, and a failure that has no
\* row is told to exist (the failures card), for lists of any length.
THEOREM NoFailuresMeant ==
    ASSUME NEW given, IsTable(given, "recent_failures"), IsTable(given, "exceptions")
    PROVE  NoFailuresMeansNone(given)
<1> DEFINE recent == Is(given, "engine_source", "service") \/ Bounded(given)
           source == IF recent THEN "recent_failures" ELSE "exceptions"
           task == Is(given, "engine_source", "service") /\ Has(given, "latest_workflow_task_failure")
           known == Len(Rows(given, source)) + (IF task THEN 1 ELSE 0)
           view == FailureView(given)
<1>1. Len(Rows(given, source)) \in Nat
  BY TableIs
<1>2. known \in Nat
  BY <1>1
<1>3. /\ view.known = known /\ view.rows = Min({known, 20})
      /\ known > 20 => view.truncated
  BY DEF FailureView, FailuresAtMost
<1> HIDE DEF view, known
<1>4. view.rows = IF known <= 20 THEN known ELSE 20
  BY <1>2, <1>3, MinIs
<1>5. "no-failures-reported" \in FailureCard(view) => view.known = 0 /\ view.state # "unavailable"
  BY <1>2, <1>3, <1>4 DEF FailureCard, When
<1>6. view.rows < view.known => "additional-failures-may-exist" \in FailureCard(view)
  BY <1>2, <1>3, <1>4 DEF FailureCard, When
<1> QED BY <1>5, <1>6 DEF NoFailuresMeansNone, view

\* Where the engine flags a truncated timeline exactly when it counts more
\* events than it returns, the button for more is there exactly when the
\* summary says that there are more (the history card).
THEOREM MoreOffered ==
    ASSUME NEW given,
           Has(given, "timeline_total_count")
              \/ ~ (Is(given, "engine_source", "service") \/ Bounded(given)) =>
                 (TimelineHasOlder(given)
                     <=> (TimelineReturnedCount(given) < TimelineTotalCount(given)))
    PROVE  MoreIsOffered(given)
<1> DEFINE windowed == Is(given, "engine_source", "service") \/ Bounded(given)
           summary == TimelineWindowSummary(given)
           told == IF "more" \in DOMAIN summary THEN summary.more
                   ELSE summary.returned < summary.total
<1>1. Rows(given, "timeline") # <<>> =>
         ((HistoryCard(given) \cap {"Load-more", "Load-older"} # {}) <=> TimelineHasOlder(given))
  <2> SUFFICES ASSUME Rows(given, "timeline") # <<>>
               PROVE  (HistoryCard(given) \cap {"Load-more", "Load-older"} # {})
                         <=> TimelineHasOlder(given)
    OBVIOUS
  <2> DEFINE line == IF windowed THEN "Load-more" ELSE "Load-older"
  <2>1. HistoryCard(given) = Shown(given, {"timeline_projection_source"})
                               \cup When(TimelineHasOlder(given), {line})
    BY DEF HistoryCard
  <2>2. Shown(given, {"timeline_projection_source"}) \cap {"Load-more", "Load-older"} = {}
    BY DEF Shown
  <2>3. line \in {"Load-more", "Load-older"}
    OBVIOUS
  <2> HIDE DEF line
  <2> QED BY <2>1, <2>2, <2>3 DEF When
<1>2. told <=> TimelineHasOlder(given)
  <2>1. CASE windowed /\ ~ Has(given, "timeline_total_count")
    <3>1. summary = [returned |-> TimelineReturnedCount(given), more |-> TimelineHasOlder(given)]
      BY <2>1 DEF TimelineWindowSummary
    <3> QED BY <3>1
  <2>2. CASE ~ (windowed /\ ~ Has(given, "timeline_total_count"))
    <3>1. summary = [returned |-> TimelineReturnedCount(given), total |-> TimelineTotalCount(given)]
      BY <2>2 DEF TimelineWindowSummary
    <3> QED BY <2>2, <3>1
  <2> QED BY <2>1, <2>2
<1> HIDE DEF told
<1> QED BY <1>1, <1>2 DEF MoreIsOffered, told

\* Of a timeline of any length the rows in sight are rendered, and the two
\* spacers stand for the others (onHistoryScroll, virtualTimelineEvents).
THEOREM SightRendered ==
    ASSUME NEW rows \in Nat
    PROVE  RowsInSightAreRendered(rows)
<1> DEFINE height == Max({0, rows * RowHeight - ViewportHeight})
<1> SUFFICES ASSUME NEW top \in 0..height
             PROVE  LET start == OnHistoryScroll(top)
                        rendered == VirtualTimelineEvents(start, rows)
                        sight == top \div RowHeight + 1 ..
                                 Min({rows, (top + ViewportHeight - 1) \div RowHeight + 1})
                    IN  /\ sight \subseteq rendered
                        /\ SpacerRows("top", start, rows) + Cardinality(rendered)
                              + SpacerRows("bottom", start, rows) = rows
  BY DEF RowsInSightAreRendered
<1> DEFINE start == OnHistoryScroll(top)
           rendered == VirtualTimelineEvents(start, rows)
           last == Min({rows, (top + ViewportHeight - 1) \div RowHeight + 1})
           q == top \div 92
           p == (top + 619) \div 92
           end == VirtualEnd(start, rows)
<1>1. height = IF 0 >= rows * 92 - 620 THEN 0 ELSE rows * 92 - 620
  BY MaxIs DEF RowHeight, ViewportHeight
<1>2. top \in Nat /\ (top = 0 \/ top <= rows * 92 - 620)
  BY <1>1
<1>3. q \in Nat /\ p \in Nat /\ 92 * q <= top /\ top < 92 * q + 92
      /\ 92 * p <= top + 619 /\ top + 619 < 92 * p + 92
  BY <1>2
<1>4. start = IF 0 >= q - 8 THEN 0 ELSE q - 8
  BY <1>3, MaxIs DEF OnHistoryScroll, RowHeight, Margin
<1>5. last = IF rows <= p + 1 THEN rows ELSE p + 1
  <2>1. (top + ViewportHeight - 1) \div RowHeight + 1 = p + 1
    BY <1>2 DEF RowHeight, ViewportHeight
  <2> QED BY <1>3, <2>1, MinIs
<1>6. top \div RowHeight + 1 = q + 1
  BY DEF RowHeight
<1> HIDE DEF q, p, height, last
<1>7. start \in Nat /\ start <= q /\ start + 8 >= q
  BY <1>3, <1>4
<1> HIDE DEF start
<1>8. end = IF rows <= start + 80 THEN rows ELSE start + 80
  BY <1>7, MinIs DEF VirtualEnd, WindowSize
<1>9. rendered = start + 1 .. end
  BY DEF VirtualTimelineEvents
<1> HIDE DEF end, rendered
<1>10. end \in Nat /\ last \in Nat
  BY <1>3, <1>5, <1>7, <1>8
<1>11. start <= rows
  BY <1>2, <1>3, <1>4
<1>12. last <= end
  <2>1. p <= q + 7
    BY <1>2, <1>3
  <2> QED BY <1>3, <1>5, <1>7, <1>8, <2>1
<1>13. q + 1 .. last \subseteq rendered
  BY <1>3, <1>7, <1>9, <1>10, <1>12
<1>14. start <= end /\ end <= rows
  BY <1>7, <1>8, <1>11
<1>15. Cardinality(rendered) = end - start
  <2>1. Cardinality(start + 1 .. end) =
           IF start + 1 > end THEN 0 ELSE end - (start + 1) + 1
    BY <1>7, <1>10, FS_Interval
  <2> QED BY <1>7, <1>9, <1>10, <1>14, <2>1
<1>16. SpacerRows("top", start, rows) = start
  BY DEF SpacerRows
<1>17. SpacerRows("bottom", start, rows) = rows - end
  <2>1. SpacerRows("bottom", start, rows) = Max({0, rows - start - Cardinality(rendered)})
    BY DEF SpacerRows, rendered
  <2>2. rows - start - Cardinality(rendered) = rows - end /\ rows - end \in Int /\ rows - end >= 0
    BY <1>7, <1>10, <1>14, <1>15
  <2>3. Max({0, rows - end}) = IF 0 >= rows - end THEN 0 ELSE rows - end
    BY <2>2, MaxIs
  <2> QED BY <2>1, <2>2, <2>3
<1>18. SpacerRows("top", start, rows) + Cardinality(rendered) + SpacerRows("bottom", start, rows) = rows
  BY <1>7, <1>10, <1>15, <1>16, <1>17
<1> QED BY <1>6, <1>13, <1>18 DEF start, rendered, last

-----------------------------------------------------------------------------
(***************************************************************************)
(* Related runs.                                                           *)
(***************************************************************************)
\* An entry that has both ids shows the one of its run.
ShowsItsRun(entry) ==
    {"instance_id", "run_id"} \subseteq DOMAIN entry => entry.display_id = entry.run_id

LEMMA EntryShowsItsRun ==
    ASSUME NEW link, NEW direction, NEW k \in Nat, NEW run, DOMAIN run = 1..k,
           NEW l \in Nat, NEW instance, DOMAIN instance = 1..l
    PROVE  ShowsItsRun(LineageEntry(link, direction, run, instance))
<1> DEFINE Id(name) == FirstOf(link, IF name = "run_id" THEN run ELSE instance)
           ids == [name \in {n \in {"instance_id", "run_id"} : Id(n) # Absent} |-> Id(name)]
           same == Renamed(link, [status |-> "status", run_number |-> "run_number",
                               child_call_id |-> "child_call_id",
                               diagnostic_only |-> "diagnostic_only"])
           last == <<"child_call_id", "id">>
           shown == FirstOf(link, run \o instance \o last)
           entry == LineageEntry(link, direction, run, instance)
<1>1. entry = Over([label |-> LineageLabel(link, direction), display_id |-> shown], Over(ids, same))
  BY DEF LineageEntry
<1>2. "run_id" \notin DOMAIN same
  BY DEF Renamed
<1>3. "run_id" \in DOMAIN ids => FirstOf(link, run) # Absent /\ ids["run_id"] = FirstOf(link, run)
  OBVIOUS
<1> HIDE DEF ids, same
<1>4. DOMAIN Over(ids, same) = DOMAIN ids \cup DOMAIN same
  BY DEF Over
<1>5. "run_id" \in DOMAIN ids => Over(ids, same)["run_id"] = ids["run_id"]
  BY DEF Over, Has
<1> DEFINE under == Over(ids, same)
<1> HIDE DEF under
<1>6. /\ "run_id" \in DOMAIN entry => "run_id" \in DOMAIN under
      /\ "run_id" \in DOMAIN entry => entry["run_id"] = under["run_id"]
      /\ entry["display_id"] = shown
  <2> HIDE DEF shown, entry
  <2>1. entry = Over([label |-> LineageLabel(link, direction), display_id |-> shown], under)
    BY <1>1 DEF under
  <2> QED BY <2>1 DEF Over, Has
<1>7. "run_id" \in DOMAIN entry =>
         FirstOf(link, run) # Absent /\ entry["run_id"] = FirstOf(link, run)
  BY <1>2, <1>3, <1>4, <1>5, <1>6 DEF under
<1>8. FirstOf(link, run) # Absent => shown = FirstOf(link, run)
  <2> SUFFICES ASSUME FirstOf(link, run) # Absent PROVE shown = FirstOf(link, run)
    OBVIOUS
  <2>1. FirstOf(link, run \o instance) = FirstOf(link, run)
    BY FirstOfMore
  <2>2. DOMAIN (run \o instance) = 1..(k + l) /\ k + l \in Nat
    BY JoinedIs
  <2>3. DOMAIN last = 1..2 /\ 2 \in Nat
    OBVIOUS
  <2> DEFINE first == run \o instance
             n == k + l
  <2>4. n \in Nat /\ DOMAIN first = 1..n /\ FirstOf(link, first) # Absent
    BY <2>1, <2>2
  <2> HIDE DEF first, last, n
  <2>5. FirstOf(link, first \o last) = FirstOf(link, first)
    <3> DEFINE two == 2
    <3>1. two \in Nat /\ DOMAIN last = 1..two
      BY <2>3
    <3> HIDE DEF two
    <3> QED BY <2>4, <3>1, FirstOfMore
  <2> QED BY <2>1, <2>5 DEF first, last
<1> HIDE DEF entry, shown
<1> QED BY <1>6, <1>7, <1>8 DEF ShowsItsRun, entry

\* Entries of two tables, one after the other.
LEMMA BothShow ==
    ASSUME NEW k \in Nat, NEW l \in Nat, NEW one, DOMAIN one = 1..k, NEW other, DOMAIN other = 1..l,
           \A i \in 1..k : ShowsItsRun(one[i]), \A i \in 1..l : ShowsItsRun(other[i])
    PROVE  \A i \in DOMAIN (one \o other) : ShowsItsRun((one \o other)[i])
<1>1. DOMAIN (one \o other) = 1..(k + l)
  BY JoinedIs
<1>2. \A i \in 1..(k + l) : i \in 1..k \/ \E j \in 1..l : i = k + j
  BY JoinedIs
<1>3. \A i \in 1..k : (one \o other)[i] = one[i]
  BY JoinedBefore
<1>4. \A j \in 1..l : (one \o other)[k + j] = other[j]
  <2> SUFFICES ASSUME NEW j \in 1..l PROVE (one \o other)[k + j] = other[j]
    OBVIOUS
  <2> QED BY JoinedAfter, Z3
<1> QED BY <1>1, <1>2, <1>3, <1>4

\* A related run opens the run whose id its entry shows, whichever of its id
\* fields the engine filled in (the lineage tables).
THEOREM LinksOpen ==
    ASSUME NEW given, IsTable(given, "parents"), IsTable(given, "continuedWorkflows"),
           IsTable(given, "related_parents"), IsTable(given, "related_children")
    PROVE  LinksOpenWhatTheyShow(given)
<1> DEFINE Entries(table, direction, run, instance) ==
              [i \in DOMAIN Rows(given, table) |->
                LineageEntry(Rows(given, table)[i], direction, run, instance)]
           entries == LineageEntries(given)
<1>1. ASSUME NEW one, NEW other, NEW k \in Nat, NEW l \in Nat,
             DOMAIN one = 1..k, DOMAIN other = 1..l,
             \A i \in 1..k : ShowsItsRun(one[i]), \A i \in 1..l : ShowsItsRun(other[i])
      PROVE  \A i \in DOMAIN (one \o other) : ShowsItsRun((one \o other)[i])
  BY <1>1, BothShow
<1>2. ASSUME NEW table, IsTable(given, table), NEW direction,
             NEW k \in Nat, NEW run, DOMAIN run = 1..k, NEW l \in Nat, NEW instance, DOMAIN instance = 1..l
      PROVE  \E n \in Nat : /\ DOMAIN Entries(table, direction, run, instance) = 1..n
                            /\ \A i \in 1..n : ShowsItsRun(Entries(table, direction, run, instance)[i])
  <2>1. Len(Rows(given, table)) \in Nat /\ DOMAIN Rows(given, table) = 1..Len(Rows(given, table))
    BY <1>2, TableIs
  <2>2. \A link : ShowsItsRun(LineageEntry(link, direction, run, instance))
    BY <1>2, EntryShowsItsRun
  <2> QED BY <2>1, <2>2
<1>3. \A i \in DOMAIN entries : ShowsItsRun(entries[i])
  <2>1. DOMAIN <<"run_id">> = 1..1 /\ DOMAIN <<"instance_id">> = 1..1
    OBVIOUS
  <2>2. /\ DOMAIN <<"workflow_run_id", "parent_workflow_run_id">> = 1..2
        /\ DOMAIN <<"workflow_instance_id", "parent_workflow_id">> = 1..2
        /\ DOMAIN <<"workflow_run_id", "child_workflow_run_id">> = 1..2
        /\ DOMAIN <<"workflow_instance_id", "child_workflow_id">> = 1..2
    OBVIOUS
  <2> DEFINE a == Entries("related_parents", "parent", <<"run_id">>, <<"instance_id">>)
             b == Entries("related_children", "child", <<"run_id">>, <<"instance_id">>)
             c == Entries("parents", "parent", <<"workflow_run_id", "parent_workflow_run_id">>,
                     <<"workflow_instance_id", "parent_workflow_id">>)
             d == Entries("continuedWorkflows", "child", <<"workflow_run_id", "child_workflow_run_id">>,
                        <<"workflow_instance_id", "child_workflow_id">>)
  <2>3. entries = IF Bounded(given) THEN a \o b ELSE c \o d
    BY DEF LineageEntries
  <2> HIDE DEF Entries, entries
  <2>4. \E n \in Nat : DOMAIN a = 1..n /\ \A i \in 1..n : ShowsItsRun(a[i])
    BY <1>2, <2>1
  <2>5. \E n \in Nat : DOMAIN b = 1..n /\ \A i \in 1..n : ShowsItsRun(b[i])
    BY <1>2, <2>1
  <2>6. \E n \in Nat : DOMAIN c = 1..n /\ \A i \in 1..n : ShowsItsRun(c[i])
    BY <1>2, <2>2
  <2>7. \E n \in Nat : DOMAIN d = 1..n /\ \A i \in 1..n : ShowsItsRun(d[i])
    BY <1>2, <2>2
  <2> HIDE DEF a, b, c, d
  <2>8. \A i \in DOMAIN (a \o b) : ShowsItsRun((a \o b)[i])
    BY <1>1, <2>4, <2>5
  <2>9. \A i \in DOMAIN (c \o d) : ShowsItsRun((c \o d)[i])
    BY <1>1, <2>6, <2>7
  <2> QED BY <2>3, <2>8, <2>9
<1> HIDE DEF entries
<1>4. \A i \in DOMAIN entries : \A link \in LineageLink(entries[i]) : entries[i].display_id = link[2]
  BY <1>3 DEF ShowsItsRun, LineageLink
<1> QED BY <1>4 DEF LinksOpenWhatTheyShow, entries

-----------------------------------------------------------------------------
(***************************************************************************)
(* The current child.                                                      *)
(***************************************************************************)
\* The table of waits is a sequence.
LEMMA WaitRowsAre ==
    ASSUME NEW given, IsTable(given, "waits"), IsTable(given, "current_waits")
    PROVE  \E n \in Nat : DOMAIN WaitRows(given) = 1..n
<1>1. /\ Len(Rows(given, "waits")) \in Nat
      /\ DOMAIN Rows(given, "waits") = 1..Len(Rows(given, "waits"))
      /\ Len(Rows(given, "current_waits")) \in Nat
      /\ DOMAIN Rows(given, "current_waits") = 1..Len(Rows(given, "current_waits"))
  BY TableIs
<1>2. \/ DOMAIN WaitRows(given) = DOMAIN Rows(given, "waits")
      \/ DOMAIN WaitRows(given) = DOMAIN Rows(given, "current_waits")
  BY DEF WaitRows
<1> QED BY <1>1, <1>2

\* What backs a wait is told in words of its own.
LEMMA BackingIs == ASSUME NEW wait PROVE WaitBacking(wait) # "Current"
<1> DEFINE timed == Is(wait, "kind", "condition") /\ Has(wait, "timeout_seconds")
           backed == Has(wait, "task_backed")
           task == Has(wait, "task_id")
           choices == <<
            <<Has(wait, "summary_only"), "summary-only">>,
            <<Has(wait, "diagnostic_only"), "diagnostic-only">>,
            <<timed /\ backed, "timeout-task">>,
            <<timed /\ task, "stale-timeout-task">>,
            <<timed, "timeout-task-missing">>,
            <<Is(wait, "kind", "update") /\ ~ backed /\ ~ task, "workflow-task-missing">>,
            <<Is(wait, "kind", "child"), "child-run">>,
            <<Has(wait, "external_only"), "external-input">>,
            <<backed, "task">>,
            <<task /\ Is(wait, "status", "open"), "stale-task">>,
            <<task, "historical-task">>,
            <<TRUE, "task-missing">> >>
<1>1. /\ DOMAIN choices = 1..12 /\ choices[12][1] = TRUE /\ 12 \in Nat \ {0}
      /\ \A i \in 1..12 : choices[i][2] # "Current"
  OBVIOUS
<1>2. WaitBacking(wait) = FirstThat(choices)
  BY DEF WaitBacking
<1> HIDE DEF choices
<1>3. \E i \in 1..12 :
         /\ choices[i][1] /\ FirstThat(choices) = choices[i][2]
         /\ \A j \in 1..12 : j < i => ~ choices[j][1]
  BY <1>1, FirstThatIs
<1> QED BY <1>1, <1>2, <1>3

\* Only a wait that the summary calls current is marked.
LEMMA MarkedIsCurrent ==
    ASSUME NEW given, NEW wait
    PROVE  ("Current" \in WaitLines(given, wait)) <=> IsCurrentWait(given, wait)
<1>1. "Current" \notin ChildIdentityLines(ChildWaitIdentityRows(wait))
  BY DEF ChildIdentityLines, ChildWaitIdentityRows, ChildIdentityRows, Shown, When
<1>2. \A of, fields : "Current" \notin fields => "Current" \notin Shown(of, fields)
  BY DEF Shown
<1> DEFINE summary == IF Has(wait, "current_summary") THEN wait.current_summary ELSE <<>>
           asked == IF Has(wait, "target_name") THEN {"target_name"} ELSE {"target_type"}
<1>3. "Current" \notin asked
  OBVIOUS
<1> HIDE DEF summary, asked
<1>4. WaitLines(given, wait) =
        Shown(wait, {"summary", "source_status", "opened_at", "sequence", "condition_key",
                 "condition_definition_fingerprint", "history_authority",
                 "history_unsupported_reason", "update_id", "signal_wait_id",
                 "condition_wait_id", "command_sequence", "timeout_seconds"})
        \cup Shown(wait, asked)
        \cup {WaitBacking(wait)}
        \cup When(WaitCompletion(wait) # Absent, {"completed"})
        \cup ChildIdentityLines(ChildWaitIdentityRows(wait))
        \cup When(IsCurrentWait(given, wait), {"Current"})
        \cup When(Has(wait, "resume_source_kind") \/ Has(wait, "resume_source_id"), {"resume"})
        \cup When(ParallelGroups(wait) # <<>>, {"parallel-group"})
        \cup When(Has(wait, "current_summary"),
              {"resume-state"} \cup
              Shown(summary,
                    {"next_scheduled_resume_at", "deadline_at", "attempt_number",
                     "unavailable_reason"}))
  BY DEF WaitLines, summary, asked
<1> QED BY <1>1, <1>2, <1>3, <1>4, BackingIs DEF When

\* The child the summary calls current is that of a row of the waits, of the
\* one marked there if any is (currentChildIdentityRows and the waits table).
THEOREM CurrentChildWaits ==
    ASSUME NEW given, IsTable(given, "waits"), IsTable(given, "current_waits")
    PROVE  CurrentChildIsAWait(given)
<1> DEFINE rows == WaitRows(given)
           child == CurrentChildIdentityRows(given)
           waits == {i \in DOMAIN rows : Is(rows[i], "kind", "child")}
           marked == {i \in waits : "Current" \in WaitLines(given, rows[i])}
           here == {i \in DOMAIN rows : Is(rows[i], "kind", "child") /\ IsCurrentWait(given, rows[i])}
           there == {i \in DOMAIN rows : Is(rows[i], "kind", "child") /\ Is(rows[i], "status", "open")}
           current == At(here, rows)
           open == At(there, rows)
<1>1. PICK n \in Nat : DOMAIN rows = 1..n
  BY WaitRowsAre
<1>2. child = IF current \o open = <<>> THEN {}
              ELSE ChildIdentityRows(ChildOfWait((current \o open)[1]))
  BY DEF CurrentChildIdentityRows, Where
<1>3. here \in SUBSET (1..n) /\ there \in SUBSET (1..n)
  BY <1>1
<1>4. marked = here
  BY MarkedIsCurrent
<1>5. \A i \in waits : ChildWaitIdentityRows(rows[i]) = ChildIdentityRows(ChildOfWait(rows[i]))
  BY DEF ChildWaitIdentityRows
<1>6. here \subseteq waits /\ there \subseteq waits
      /\ \A i \in there : Is(rows[i], "status", "open")
  OBVIOUS
<1> HIDE DEF here, there, rows, waits, marked
<1> DEFINE k == Cardinality(here)
           l == Cardinality(there)
<1>7. /\ k \in Nat /\ DOMAIN current = 1..k /\ ((k = 0) <=> (here = {}))
      /\ l \in Nat /\ DOMAIN open = 1..l /\ ((l = 0) <=> (there = {}))
  BY <1>3, KeptLength
<1>8. \A m \in DOMAIN current : \E i \in here : current[m] = rows[i]
  BY <1>3, KeptFrom
<1>9. \A m \in DOMAIN open : \E i \in there : open[m] = rows[i]
  BY <1>3, KeptFrom
<1> HIDE DEF current, open, k, l, child
<1>10. DOMAIN (current \o open) = 1..(k + l)
  BY <1>7, JoinedIs
<1> SUFFICES ASSUME child # {}
             PROVE  \E i \in waits :
                       /\ ChildWaitIdentityRows(rows[i]) = child
                       /\ i \in marked \/ (marked = {} /\ Is(rows[i], "status", "open"))
  BY DEF CurrentChildIsAWait, rows, child, waits, marked
<1>11. child = ChildIdentityRows(ChildOfWait((current \o open)[1])) /\ current \o open # <<>>
  BY <1>2
<1>12. CASE k # 0
  <2>1. 1 \in 1..k
    BY <1>7, <1>12
  <2>2. (current \o open)[1] = current[1]
    BY <1>7, <2>1, JoinedBefore
  <2>3. PICK i \in here : current[1] = rows[i]
    BY <1>7, <1>8, <2>1
  <2> QED BY <1>4, <1>5, <1>6, <1>11, <2>2, <2>3
<1>13. CASE k = 0
  <2>1. l # 0
    <3> SUFFICES ASSUME l = 0 PROVE FALSE
      OBVIOUS
    <3>1. current = <<>> /\ open = <<>>
      BY <1>3, <1>7, <1>13, AtNoPlace DEF current, open
    <3> QED BY <1>11, <3>1
  <2>2. 1 \in 1..l /\ k + 1 = 1
    BY <1>7, <1>13, <2>1
  <2>3. (current \o open)[k + 1] = open[1]
    BY <1>7, <2>2, JoinedAfter
  <2>4. PICK i \in there : open[1] = rows[i]
    BY <1>7, <1>9, <2>2
  <2>5. marked = {}
    BY <1>4, <1>7, <1>13
  <2> QED BY <1>5, <1>6, <1>11, <2>2, <2>3, <2>4, <2>5
<1> QED BY <1>12, <1>13

-----------------------------------------------------------------------------
(***************************************************************************)
(* What is pinned to the history.                                          *)
(***************************************************************************)
\* The first members of a sequence.
PinnedCut(s, n) == SubSeq(s, 1, Min({n, Len(s)}))

\* It is as long as the shorter of the sequence and the cut ...
LEMMA CutIs ==
    ASSUME NEW k \in Nat, NEW s, DOMAIN s = 1..k, NEW n \in Nat,
           NEW m, m = IF n <= k THEN n ELSE k
    PROVE  /\ DOMAIN PinnedCut(s, n) = 1..m /\ Len(PinnedCut(s, n)) = m
<1>1. Len(s) = k
  OBVIOUS
<1>2. Min({n, Len(s)}) = m /\ m \in Nat
  BY <1>1, MinIs
<1>3. SubSeq(s, 1, m) = [i \in 1..m |-> s[i]]
  BY <1>2
<1>4. DOMAIN SubSeq(s, 1, m) = 1..m
  BY <1>2, <1>3
<1>5. Len(SubSeq(s, 1, m)) = m
  BY <1>2, <1>4
<1> QED BY <1>2, <1>4, <1>5 DEF PinnedCut

\* ... and keeps the members where they were.
LEMMA CutKeeps ==
    ASSUME NEW k \in Nat, NEW s, DOMAIN s = 1..k, NEW n \in Nat,
           NEW m, m = (IF n <= k THEN n ELSE k), NEW i \in 1..m
    PROVE  PinnedCut(s, n)[i] = s[i]
<1>1. Len(s) = k
  OBVIOUS
<1>2. Min({n, Len(s)}) = m /\ m \in Nat
  BY <1>1, MinIs
<1>3. SubSeq(s, 1, m) = [j \in 1..m |-> s[j]]
  BY <1>2
<1> QED BY <1>2, <1>3 DEF PinnedCut

\* The rows of a kind that need attention, the first of them that are pinned,
\* and how many those are.
NeedingOf(given, kind) ==
    {i \in DOMAIN RowsOfKind(given, kind) : NeedsAttention(kind, RowsOfKind(given, kind)[i])}

PinnedOf(given, kind) ==
    LET pinned == At(NeedingOf(given, kind), RowsOfKind(given, kind))
    IN  [i \in DOMAIN PinnedCut(pinned, PinnedPerKind) |-> <<kind, pinned[i].id>>]

Share(given, kind) ==
    IF Cardinality(NeedingOf(given, kind)) <= 8 THEN Cardinality(NeedingOf(given, kind)) ELSE 8

\* A pinned item is that of a row that needs attention.
Pins(given, kind, item) ==
    item[1] = kind /\ \E j \in NeedingOf(given, kind) : RowsOfKind(given, kind)[j].id = item[2]

\* What is pinned of a kind: eight of the rows that need attention, or all of
\* them, and no other row.
LEMMA PinnedIs ==
    ASSUME NEW given, NEW kind, NEW n \in Nat, DOMAIN RowsOfKind(given, kind) = 1..n
    PROVE  /\ Share(given, kind) \in Nat /\ Share(given, kind) <= 8
           /\ Share(given, kind) = Min({8, Cardinality(NeedingOf(given, kind))})
           /\ DOMAIN PinnedOf(given, kind) = 1..Share(given, kind)
           /\ \A i \in 1..Share(given, kind) : Pins(given, kind, PinnedOf(given, kind)[i])
<1> DEFINE rows == RowsOfKind(given, kind)
           needing == NeedingOf(given, kind)
           pinned == At(needing, rows)
           k == Cardinality(needing)
           cut == PinnedCut(pinned, 8)
           m == IF 8 <= k THEN 8 ELSE k
<1>1. needing \in SUBSET (1..n)
  BY DEF NeedingOf
<1> HIDE DEF needing
<1>2. k \in Nat /\ DOMAIN pinned = 1..k
  BY <1>1, KeptLength
<1>3. \A i \in 1..k : \E j \in needing : pinned[i] = rows[j]
  <2> SUFFICES ASSUME NEW i \in 1..k PROVE \E j \in needing : pinned[i] = rows[j]
    OBVIOUS
  <2>1. i \in DOMAIN pinned
    BY <1>2
  <2> QED BY <1>1, <2>1, KeptFrom
<1>4. Share(given, kind) = m /\ m \in Nat /\ m <= 8 /\ m <= k
  BY <1>2 DEF Share, needing
<1>5. Min({8, k}) = m
  BY <1>2, MinIs
<1> HIDE DEF pinned, k
<1>6. DOMAIN cut = 1..m
  BY <1>2, CutIs, 8 \in Nat
<1> HIDE DEF m, cut
<1>7. PinnedOf(given, kind) = [i \in DOMAIN cut |-> <<kind, pinned[i].id>>]
  BY DEF PinnedOf, cut, pinned, needing, PinnedPerKind
<1>8. \A i \in 1..m : Pins(given, kind, PinnedOf(given, kind)[i])
  <2> SUFFICES ASSUME NEW i \in 1..m PROVE Pins(given, kind, PinnedOf(given, kind)[i])
    OBVIOUS
  <2>1. PinnedOf(given, kind)[i] = <<kind, pinned[i].id>>
    BY <1>6, <1>7
  <2>2. i \in 1..k
    BY <1>2, <1>4
  <2>3. PICK j \in needing : pinned[i] = rows[j]
    BY <1>3, <2>2
  <2> QED BY <2>1, <2>3 DEF Pins, needing
<1> QED BY <1>4, <1>5, <1>6, <1>7, <1>8 DEF k, needing

\* The rows of each kind are a sequence.
LEMMA KindsAre ==
    ASSUME NEW given, NEW kind \in {"wait", "activity", "task"},
           IsTable(given, "waits"), IsTable(given, "current_waits"),
           IsTable(given, "activities"), IsTable(given, "logs"), IsTable(given, "tasks")
    PROVE  \E n \in Nat : DOMAIN RowsOfKind(given, kind) = 1..n
<1>1. CASE kind = "wait"
  BY <1>1, WaitRowsAre DEF RowsOfKind
<1>2. CASE kind = "task"
  BY <1>2, TableIs DEF RowsOfKind
<1>3. CASE kind = "activity"
  <2>1. RowsOfKind(given, kind) = ActivityRows(given)
    BY <1>3 DEF RowsOfKind
  <2>2. ActivityRows(given) = Rows(given, "activities") \/ ActivityRows(given) = Rows(given, "logs")
    BY DEF ActivityRows, Rows
  <2>3. Len(Rows(given, "activities")) \in Nat /\ Len(Rows(given, "logs")) \in Nat
    BY TableIs
  <2>4. /\ DOMAIN Rows(given, "activities") = 1..Len(Rows(given, "activities"))
        /\ DOMAIN Rows(given, "logs") = 1..Len(Rows(given, "logs"))
    BY TableIs
  <2> QED BY <2>1, <2>2, <2>3, <2>4
<1> QED BY <1>1, <1>2, <1>3

\* What is pinned above the history needs attention, and what needs it is
\* pinned unless the list is full or a kind has had its share: waits before
\* activities before tasks (pinnedTimelineItems).
THEOREM AttentionPinned ==
    ASSUME NEW given,
           IsTable(given, "waits"), IsTable(given, "current_waits"),
           IsTable(given, "activities"), IsTable(given, "logs"), IsTable(given, "tasks")
    PROVE  AttentionIsPinned(given)
<1> DEFINE Kinds == {"wait", "activity", "task"}
           w == PinnedOf(given, "wait")
           v == PinnedOf(given, "activity")
           t == PinnedOf(given, "task")
           a == Share(given, "wait")
           b == Share(given, "activity")
           c == Share(given, "task")
           two == w \o v
           all == two \o t
           pinned == PinnedTimelineItems(given)
           m == IF 12 <= a + b + c THEN 12 ELSE a + b + c
           OfKind(kind) == {i \in DOMAIN pinned : pinned[i][1] = kind}
<1>1. pinned = PinnedCut(all, 12)
  BY DEF PinnedTimelineItems, PinnedOf, PinnedCut, NeedingOf, Where, PinnedAtMost, PinnedPerKind
<1>2. \A kind \in Kinds :
         /\ Share(given, kind) \in Nat /\ Share(given, kind) <= 8
         /\ Share(given, kind) = Min({8, Cardinality(NeedingOf(given, kind))})
         /\ DOMAIN PinnedOf(given, kind) = 1..Share(given, kind)
         /\ \A i \in 1..Share(given, kind) : Pins(given, kind, PinnedOf(given, kind)[i])
  <2> SUFFICES ASSUME NEW kind \in Kinds
               PROVE  /\ Share(given, kind) \in Nat /\ Share(given, kind) <= 8
                      /\ Share(given, kind) = Min({8, Cardinality(NeedingOf(given, kind))})
                      /\ DOMAIN PinnedOf(given, kind) = 1..Share(given, kind)
                      /\ \A i \in 1..Share(given, kind) : Pins(given, kind, PinnedOf(given, kind)[i])
    OBVIOUS
  <2>1. PICK n \in Nat : DOMAIN RowsOfKind(given, kind) = 1..n
    BY KindsAre
  <2> QED BY <2>1, PinnedIs
<1>3. /\ a \in Nat /\ a <= 8 /\ DOMAIN w = 1..a /\ \A i \in 1..a : Pins(given, "wait", w[i])
      /\ b \in Nat /\ b <= 8 /\ DOMAIN v = 1..b /\ \A i \in 1..b : Pins(given, "activity", v[i])
      /\ c \in Nat /\ c <= 8 /\ DOMAIN t = 1..c /\ \A i \in 1..c : Pins(given, "task", t[i])
  BY <1>2
<1> HIDE DEF w, v, t, a, b, c, two, all, pinned
<1> DEFINE d == a + b
           e == d + c
<1>4. d \in Nat /\ DOMAIN two = 1..d
  BY <1>3, JoinedIs DEF two
<1>5. /\ \A i \in 1..a : two[i] = w[i]
      /\ \A i \in 1..b : two[a + i] = v[i]
  <2>1. \A i \in 1..a : two[i] = w[i]
    BY <1>3, JoinedBefore DEF two
  <2>2. \A i \in 1..b : two[a + i] = v[i]
    <3> SUFFICES ASSUME NEW i \in 1..b PROVE two[a + i] = v[i]
      OBVIOUS
    <3> QED BY <1>3, JoinedAfter DEF two
  <2> QED BY <2>1, <2>2
<1> HIDE DEF d
<1>6. e \in Nat /\ DOMAIN all = 1..e
  BY <1>3, <1>4, JoinedIs DEF all
<1>7. /\ \A i \in 1..d : all[i] = two[i]
      /\ \A i \in 1..c : all[d + i] = t[i]
  <2>1. \A i \in 1..d : all[i] = two[i]
    BY <1>3, <1>4, JoinedBefore DEF all
  <2>2. \A i \in 1..c : all[d + i] = t[i]
    <3> SUFFICES ASSUME NEW i \in 1..c PROVE all[d + i] = t[i]
      OBVIOUS
    <3> QED BY <1>3, <1>4, JoinedAfter DEF all
  <2> QED BY <2>1, <2>2
<1> HIDE DEF e
<1>8. d = a + b /\ e = a + b + c
  BY DEF d, e
<1>9. /\ \A i \in 1..a : Pins(given, "wait", all[i])
      /\ \A i \in a + 1 .. a + b : Pins(given, "activity", all[i])
      /\ \A i \in a + b + 1 .. a + b + c : Pins(given, "task", all[i])
  <2>1. \A i \in 1..a : i \in 1..d
    BY <1>3, <1>8
  <2>2. ASSUME NEW i \in a + 1 .. a + b PROVE Pins(given, "activity", all[i])
    <3> DEFINE j == i - a
    <3>1. j \in 1..b /\ a + j = i /\ i \in 1..d
      BY <1>3, <1>8
    <3> HIDE DEF j
    <3> QED BY <1>3, <1>5, <1>7, <3>1
  <2>3. ASSUME NEW i \in a + b + 1 .. a + b + c PROVE Pins(given, "task", all[i])
    <3> DEFINE j == i - d
    <3>1. j \in 1..c /\ d + j = i
      BY <1>3, <1>8
    <3> HIDE DEF j
    <3> QED BY <1>3, <1>7, <3>1
  <2>4. \A i \in 1..a : Pins(given, "wait", all[i])
    BY <1>3, <1>5, <1>7, <2>1
  <2> QED BY <2>2, <2>3, <2>4
<1>10. /\ m \in Nat /\ m <= a + b + c /\ m <= 12
       /\ DOMAIN pinned = 1..m /\ Len(pinned) = m
       /\ \A i \in 1..m : pinned[i] = all[i]
  <2>1. m = IF 12 <= e THEN 12 ELSE e
    BY <1>8
  <2>2. m \in Nat /\ m <= a + b + c /\ m <= 12
    BY <1>3
  <2> HIDE DEF m
  <2>3. /\ DOMAIN PinnedCut(all, 12) = 1..m /\ Len(PinnedCut(all, 12)) = m
        /\ \A i \in 1..m : PinnedCut(all, 12)[i] = all[i]
    <3> DEFINE n == 12
    <3>1. n \in Nat /\ m = IF n <= e THEN n ELSE e
      BY <2>1
    <3> HIDE DEF n
    <3>2. DOMAIN PinnedCut(all, n) = 1..m /\ Len(PinnedCut(all, n)) = m
      BY <1>6, <3>1, CutIs
    <3>3. \A i \in 1..m : PinnedCut(all, n)[i] = all[i]
      BY <1>6, <3>1, CutKeeps
    <3> QED BY <3>2, <3>3 DEF n
  <2> QED BY <1>1, <2>2, <2>3
<1>11. \A i \in 1..m :
          /\ i <= a => Pins(given, "wait", pinned[i])
          /\ a < i /\ i <= a + b => Pins(given, "activity", pinned[i])
          /\ a + b < i => Pins(given, "task", pinned[i])
  <2> SUFFICES ASSUME NEW i \in 1..m
               PROVE  /\ i <= a => Pins(given, "wait", pinned[i])
                      /\ a < i /\ i <= a + b => Pins(given, "activity", pinned[i])
                      /\ a + b < i => Pins(given, "task", pinned[i])
    OBVIOUS
  <2>1. pinned[i] = all[i] /\ i <= a + b + c /\ i \in Nat /\ i > 0
    BY <1>3, <1>10
  <2>2. /\ i <= a => i \in 1..a
        /\ a < i /\ i <= a + b => i \in a + 1 .. a + b
        /\ a + b < i => i \in a + b + 1 .. a + b + c
    BY <1>3, <2>1
  <2> QED BY <1>9, <2>1, <2>2
<1>12. /\ OfKind("wait") = 1..a \cap 1..m
       /\ OfKind("activity") = (a + 1 .. a + b) \cap 1..m
       /\ OfKind("task") = a + b + 1 .. m
  <2>1. \A i \in 1..m :
          /\ i <= a => pinned[i][1] = "wait"
          /\ a < i /\ i <= a + b => pinned[i][1] = "activity"
          /\ a + b < i => pinned[i][1] = "task"
    BY <1>11 DEF Pins
  <2>2. DOMAIN pinned = 1..m
    BY <1>10
  <2> HIDE DEF m
  <2> QED BY <1>3, <2>1, <2>2
<1>13. /\ Cardinality(OfKind("wait")) = a
       /\ Cardinality(OfKind("activity")) = b \/ m = 12
       /\ Cardinality(OfKind("task")) = c \/ m = 12
  <2>1. OfKind("wait") = 1..a
    BY <1>3, <1>10, <1>12
  <2>2. m = 12 \/ m = a + b + c
    OBVIOUS
  <2>3. m = a + b + c => /\ OfKind("activity") = a + 1 .. a + b
                         /\ OfKind("task") = a + b + 1 .. a + b + c
    BY <1>3, <1>12
  <2> HIDE DEF m, OfKind
  <2>4. /\ Cardinality(1..a) = a /\ Cardinality(a + 1 .. a + b) = b
        /\ Cardinality(a + b + 1 .. a + b + c) = c
    <3>1. ASSUME NEW p \in Nat, NEW q \in Nat PROVE Cardinality(p + 1 .. p + q) = q
      <4>1. Cardinality(p + 1 .. p + q) = IF p + 1 > p + q THEN 0 ELSE p + q - (p + 1) + 1
        BY FS_Interval
      <4> QED BY <4>1
    <3>2. Cardinality(1..a) = a
      BY <1>3, FS_Interval
    <3> QED BY <1>3, <1>4, <1>8, <3>1, <3>2
  <2> QED BY <2>1, <2>2, <2>3, <2>4
<1>14. \A i \in DOMAIN pinned :
          \E j \in NeedingOf(given, pinned[i][1]) :
             RowsOfKind(given, pinned[i][1])[j].id = pinned[i][2]
  <2> SUFFICES ASSUME NEW i \in 1..m
               PROVE  \E j \in NeedingOf(given, pinned[i][1]) :
                         RowsOfKind(given, pinned[i][1])[j].id = pinned[i][2]
    BY <1>10
  <2>1. i <= a \/ (a < i /\ i <= a + b) \/ a + b < i
    BY <1>3, <1>10
  <2>2. PICK kind \in Kinds : Pins(given, kind, pinned[i])
    BY <1>11, <2>1
  <2> QED BY <2>2 DEF Pins
<1>15. \A kind \in Kinds :
          \/ Cardinality(OfKind(kind)) = Min({8, Cardinality(NeedingOf(given, kind))})
          \/ Len(pinned) = 12 /\ kind # "wait"
  <2> HIDE DEF m, OfKind
  <2> QED BY <1>2, <1>10, <1>13 DEF a, b, c
<1> QED BY <1>14, <1>15 DEF AttentionIsPinned, pinned, NeedingOf, PinnedPerKind, PinnedAtMost

-----------------------------------------------------------------------------
(***************************************************************************)
(* Problems.                                                               *)
(***************************************************************************)
\* What decides in some tables whether a problem is told: that the run is
\* not the current one, that the run cannot be served, that a command was
\* rejected, that an update has no result.
DecidesOn(table, row) ==
    /\ table = "run" /\ Has(row, "current_run_id") => ~ Has(row, "is_current_run")
    /\ table = "contract" =>
          /\ Has(row, "compatibility_reason") => Is(row, "compatibility_supported", FALSE)
          /\ Has(row, "compatibility_fleet_reason") =>
                Is(row, "compatibility_supported_in_fleet", FALSE)
    /\ table = "command" /\ Has(row, "rejection_reason") => Is(row, "status", "rejected")
    /\ table = "update"
          /\ Shown(row, {"failure_message", "error_available", "exception_replay_blocked"}) # {} =>
             ~ Has(row, "result_available")

\* What went wrong with a row is told in it, whatever else the row has (the
\* tables of flow.vue), where the fields that decide on it allow it.
THEOREM ProblemsTold ==
    ASSUME NEW given, NEW table \in DOMAIN Problems, NEW row, DecidesOn(table, row)
    PROVE  ProblemsAreTold(given, table, row)
<1> DEFINE lines == LinesOf(given, table, row)
           fields == Problems[table]
<1> SUFFICES ASSUME NEW field \in fields, Has(row, field) PROVE field \in lines
  BY DEF ProblemsAreTold, Shown, Has
<1>0. \A names : field \in names => field \in Shown(row, names)
  BY DEF Shown, Has
<1>1. CASE table = "wait"
  <2>1. lines = WaitLines(given, row) /\ fields = {"history_unsupported_reason"}
    BY <1>1 DEF LinesOf, Problems
  <2> HIDE DEF lines, fields
  <2> QED BY <1>0, <2>1 DEF WaitLines
<1>2. CASE table = "signal"
  <2>1. lines = SignalLines(row) /\ fields = {"rejection_reason", "validation_errors"}
    BY <1>2 DEF LinesOf, Problems
  <2> HIDE DEF lines, fields
  <2> QED BY <1>0, <2>1 DEF SignalLines
<1>3. CASE table = "activity"
  <2>1. lines = ActivityLines(given, row) /\ fields = {"history_unsupported_reason", "diagnostic_only"}
    BY <1>3 DEF LinesOf, Problems
  <2> HIDE DEF lines, fields
  <2> QED BY <1>0, <2>1 DEF ActivityLines
<1>4. CASE table = "intake"
  <2>1. lines = IntakeLines(row) /\ fields = {"missing_expected_command_types", "incomplete"}
    BY <1>4 DEF LinesOf, Problems
  <2> HIDE DEF lines, fields
  <2> QED BY <1>0, <2>1 DEF IntakeLines
<1>5. CASE table = "stream"
  <2>1. lines = StreamLines(row) /\ fields = {"error_reason"}
    BY <1>5 DEF LinesOf, Problems
  <2> HIDE DEF lines, fields
  <2> QED BY <1>0, <2>1 DEF StreamLines
<1>6. CASE table = "issue"
  <2>1. lines = DiagnosticLines(row) /\ fields = {"summary", "guidance"}
    BY <1>6 DEF LinesOf, Problems
  <2> HIDE DEF lines, fields
  <2> QED BY <1>0, <2>1 DEF DiagnosticLines
<1>7. CASE table = "timer"
  <2>1. lines = TimerLines(row) /\ fields = {"history_unsupported_reason", "diagnostic_only"}
    BY <1>7 DEF LinesOf, Problems
  <2> HIDE DEF lines, fields
  <2> QED BY <1>0, <2>1 DEF TimerLines
<1>8. CASE table = "exception"
  <2>1. lines = ExceptionLines(given, row) /\ fields = {"exception_resolution_error", "exception_replay_blocked", "non_retryable"}
    BY <1>8 DEF LinesOf, Problems
  <2> HIDE DEF lines, fields
  <2> QED BY <1>0, <2>1 DEF ExceptionLines
<1>9. CASE table = "run"
  <2>1. /\ lines = HeadlineLines(row) \cup IdentityLines(row) \cup ExecutionLines(row)
                     \cup WaitSummaryLines(row) \cup RunLinks(row)
        /\ fields = {"task_problem_badge", "read_only_reason", "details_pruned_at", "current_run_id"}
    BY <1>9 DEF LinesOf, Problems
  <2> HIDE DEF lines, fields
  <2>2. CASE field = "current_run_id"
    <3>1. ~ Has(row, "is_current_run")
      BY <1>9, <2>2 DEF DecidesOn
    <3> QED BY <1>0, <2>1, <2>2, <3>1 DEF RunLinks, When
  <2>3. CASE field # "current_run_id"
    <3>1. field \in IdentityLines(row)
      BY <1>0, <2>1, <2>3 DEF IdentityLines
    <3> QED BY <2>1, <3>1
  <2> QED BY <2>2, <2>3
<1>10. CASE table = "contract"
  <2>1. /\ lines = ContractLines(row) \cup DefinitionLines(row)
        /\ fields = {"workflow_determinism_status", "compatibility_reason",
                     "compatibility_fleet_reason"}
    BY <1>10 DEF LinesOf, Problems
  <2>2. /\ Has(row, "compatibility_reason") => Is(row, "compatibility_supported", FALSE)
        /\ Has(row, "compatibility_fleet_reason") =>
              Is(row, "compatibility_supported_in_fleet", FALSE)
    BY <1>10 DEF DecidesOn
  <2> HIDE DEF lines, fields
  <2>3. CASE field = "workflow_determinism_status"
    BY <1>0, <2>1, <2>3 DEF DefinitionLines
  <2>4. CASE field # "workflow_determinism_status"
    <3>1. field \in CompatibilityLines(row)
      BY <1>0, <2>1, <2>2, <2>4 DEF CompatibilityLines, When
    <3> QED BY <2>1, <3>1 DEF DefinitionLines
  <2> QED BY <2>3, <2>4
<1>11. CASE table = "task"
  <2>1. /\ lines = TaskLines(row)
        /\ fields = {"last_dispatch_error", "last_claim_error", "last_error", "replay_blocked",
                     "last_claim_failed_at"}
    BY <1>11 DEF LinesOf, Problems
  <2> HIDE DEF lines, fields
  <2>2. CASE field = "replay_blocked"
    BY <1>0, <2>1, <2>2 DEF TaskLines, When
  <2>3. CASE field # "replay_blocked"
    BY <1>0, <2>1, <2>3 DEF TaskLines
  <2> QED BY <2>2, <2>3
<1>12. CASE table = "command"
  <2>1. lines = CommandLines(row) /\ fields = {"rejection_reason", "validation_errors"}
    BY <1>12 DEF LinesOf, Problems
  <2>2. Has(row, "rejection_reason") => Is(row, "status", "rejected")
    BY <1>12 DEF DecidesOn
  <2> HIDE DEF lines, fields
  <2>3. CASE field = "rejection_reason"
    BY <1>0, <2>1, <2>2, <2>3 DEF CommandLines, When
  <2>4. CASE field # "rejection_reason"
    BY <1>0, <2>1, <2>4 DEF CommandLines
  <2> QED BY <2>3, <2>4
<1>13. CASE table = "update"
  <2>1. /\ lines = UpdateLines(row)
        /\ fields = {"rejection_reason", "validation_errors", "failure_message",
                     "error_available", "exception_replay_blocked"}
    BY <1>13 DEF LinesOf, Problems
  <2> HIDE DEF lines, fields
  <2>2. CASE field \in {"rejection_reason", "validation_errors"}
    BY <1>0, <2>1, <2>2 DEF UpdateLines
  <2>3. CASE field \notin {"rejection_reason", "validation_errors"}
    <3>1. field \in {"failure_message", "error_available", "exception_replay_blocked"}
      BY <2>1, <2>3
    <3>2. ~ Has(row, "result_available")
      <4>1. field \in Shown(row, {"failure_message", "error_available", "exception_replay_blocked"})
        BY <1>0, <3>1
      <4> QED BY <1>13, <4>1 DEF DecidesOn
    <3>3. field \in UpdateResult(row)
      BY <1>0, <3>1, <3>2 DEF UpdateResult
    <3> QED BY <2>1, <3>3 DEF UpdateLines
  <2> QED BY <2>2, <2>3
<1>14. CASE table = "attempt"
  <2> DEFINE shown == [attempts |-> <<row>>]
  <2>1. /\ lines = ActivityLines(given, shown) /\ fields = {"stop_reason", "cancel_requested"}
    BY <1>14 DEF LinesOf, Problems
  <2>2. /\ 1 \in DOMAIN Rows(shown, "attempts") /\ Rows(shown, "attempts")[1] = row
    BY DEF Rows, Has
  <2> HIDE DEF lines, fields, shown
  <2>3. field \in AttemptLines(row)
    BY <1>0, <2>1 DEF AttemptLines
  <2>4. field \in UNION {AttemptLines(Rows(shown, "attempts")[i]) : i \in DOMAIN Rows(shown, "attempts")}
    BY <2>2, <2>3
  <2> QED BY <2>1, <2>4 DEF ActivityLines
<1>15. CASE table = "lineage"
  <2>1. lines = LineageLines(row) /\ fields = {"diagnostic_only"}
    BY <1>15 DEF LinesOf, Problems
  <2> HIDE DEF lines, fields
  <2>2. Has(row, "diagnostic_only") /\ field = "diagnostic_only"
    BY <2>1
  <2>3. <<"diagnostic_only", FirstOf(row, <<"history_authority">>)>> \in ChildIdentityRows(row)
    BY <2>2 DEF ChildIdentityRows, When
  <2>4. "diagnostic_only" \in ChildIdentityLines(ChildIdentityRows(row))
    <3> DEFINE told == <<"diagnostic_only", FirstOf(row, <<"history_authority">>)>>
    <3>1. told[1] = "diagnostic_only"
      OBVIOUS
    <3> HIDE DEF told
    <3> QED BY <2>3, <3>1 DEF ChildIdentityLines, told
  <2> QED BY <2>1, <2>2, <2>4 DEF LineageLines
<1>16. CASE table = "event"
  <2>1. lines = EventLines(row) \cup EventListLines(row) /\ fields = {"exception_class", "message"}
    BY <1>16 DEF LinesOf, Problems
  <2> HIDE DEF lines, fields
  <2>2. field \in Shown(row, {"exception_class", "message"})
    BY <1>0, <2>1
  <2>3. Shown(row, {"failure_id", "exception_class", "message"}) # {}
    BY <2>2 DEF Shown
  <2> QED BY <2>1, <2>2, <2>3 DEF EventLines, When
<1> QED
  <2>1. table \in {"run", "contract", "wait", "task", "command", "signal", "update", "activity",
                   "attempt", "intake", "lineage", "stream", "issue", "timer", "exception", "event"}
    BY DEF Problems
  <2> QED BY <2>1, <1>1, <1>2, <1>3, <1>4, <1>5, <1>6, <1>7, <1>8, <1>9, <1>10, <1>11, <1>12, <1>13, <1>14, <1>15, <1>16
-----------------------------------------------------------------------------
(***************************************************************************)
(* The answers of the model are such answers.                              *)
(***************************************************************************)
Gives(record, given) ==
    /\ DOMAIN given = {f \in DOMAIN record : record[f] # <<>>}
    /\ \A f \in DOMAIN given : given[f] = record[f][1]

\* An answer of a set is given by one of its records.
LEMMA PartialIs ==
    ASSUME NEW records, NEW given \in Partial(records)
    PROVE  \E r \in records : Gives(r, given)
  BY DEF Partial, Gives

\* A field that such a record gives has one of the values it may have.
LEMMA FieldIs ==
    ASSUME NEW r, NEW given, Gives(r, given), NEW field, Has(given, field),
           NEW values, r[field] \in Maybe(values)
    PROVE  given[field] \in values
<1>1. r[field] # <<>> /\ given[field] = r[field][1]
  BY DEF Gives, Has
<1>2. \E v \in values : r[field] = <<v>>
  BY <1>1 DEF Maybe, Always
<1> QED BY <1>1, <1>2

\* A list of rows is a sequence.
LEMMA ListsAre ==
    ASSUME NEW rows, NEW length \in Nat, NEW list \in Lists(rows, length)
    PROVE  \E n \in Nat : DOMAIN list = 1..n
  BY DEF Lists

\* The tables of a run, and what the engine says of the others.
Tables ==
    {"waits", "current_waits", "activities", "logs", "tasks", "parents", "continuedWorkflows",
     "related_parents", "related_children", "recent_failures", "exceptions"}

\* Where the engine counts the events of the run, it says that there are older
\* ones exactly when it returned fewer than there are.
CountsOlder(given) ==
    Has(given, "timeline_total_count")
       \/ ~ (Is(given, "engine_source", "service") \/ Bounded(given)) =>
          (TimelineHasOlder(given)
              <=> (TimelineReturnedCount(given) < TimelineTotalCount(given)))

\* Whether streams are available is told with a boolean or not at all.
StreamsAreKnown(given) ==
    Has(given, "workflow_streams_available") => given.workflow_streams_available \in BOOLEAN

\* What the theorems above assume of an answer.
IsRunAnswer(given) ==
    /\ \A table \in Tables : IsTable(given, table)
    /\ StreamsAreKnown(given) /\ CountsOlder(given)

\* The fields from which the page takes that there are older events.
TimelineFields ==
    {"timeline", "timeline_total_count", "timeline_returned_count", "timeline_truncated"}

\* A run that has no timeline has no older events.
LEMMA NothingOlder ==
    ASSUME NEW given, \A field \in TimelineFields : ~ Has(given, field)
    PROVE  CountsOlder(given)
<1>1. /\ ~ Has(given, "timeline") /\ ~ Has(given, "timeline_total_count")
      /\ ~ Has(given, "timeline_returned_count") /\ ~ Has(given, "timeline_truncated")
  BY DEF TimelineFields
<1>2. TimelineReturnedCount(given) = 0 /\ TimelineTotalCount(given) = 0
  BY <1>1 DEF TimelineReturnedCount, TimelineTotalCount, Rows
<1> QED BY <1>1, <1>2 DEF CountsOlder, TimelineHasOlder

\* The answers of the model are of that shape, one kind of answer at a time:
\* runs that wait, for a child or not, embedded or in a bounded read,
LEMMA WaitingRunsAre == ASSUME NEW given \in WaitingRuns PROVE IsRunAnswer(given)
<1> DEFINE waits == Lists(Waits, 2)
           summaries == Lists(Summaries, 2)
           embedded == [waits : Always(waits), open_wait_id : Maybe({"w1"})]
           bounded == [read_mode : Always({"bounded"}), current_waits : Always(summaries),
                       open_wait_id : Maybe({"w1"})]
<1>1. given \in Partial(embedded) \/ given \in Partial(bounded)
  BY DEF WaitingRuns
<1>2. /\ \A list \in waits : \E n \in Nat : DOMAIN list = 1..n
      /\ \A list \in summaries : \E n \in Nat : DOMAIN list = 1..n
  <2>1. 2 \in Nat
    OBVIOUS
  <2> QED BY <2>1, ListsAre
<1> HIDE DEF waits, summaries
<1>3. CASE given \in Partial(embedded)
  <2>1. PICK r \in embedded : Gives(r, given)
    <3> HIDE DEF embedded
    <3> QED BY <1>3, PartialIs
  <2>2. \A field : Has(given, field) => field \in {"waits", "open_wait_id"}
    BY <2>1 DEF Gives, Has
  <2>3. r["waits"] \in Maybe(waits)
    BY DEF Maybe
  <2>4. Has(given, "waits") => given["waits"] \in waits
    BY <2>1, <2>3, FieldIs
  <2>5. IsTable(given, "waits")
    BY <1>2, <2>4 DEF IsTable
  <2>6. \A table \in Tables : IsTable(given, table)
    BY <2>2, <2>5 DEF Tables, IsTable
  <2>7. CountsOlder(given)
    BY <2>2, NothingOlder DEF TimelineFields
  <2> QED BY <2>2, <2>6, <2>7 DEF IsRunAnswer, StreamsAreKnown
<1>4. CASE given \in Partial(bounded)
  <2>1. PICK r \in bounded : Gives(r, given)
    <3> HIDE DEF bounded
    <3> QED BY <1>4, PartialIs
  <2>2. \A field : Has(given, field) => field \in {"read_mode", "current_waits", "open_wait_id"}
    BY <2>1 DEF Gives, Has
  <2>3. r["current_waits"] \in Maybe(summaries)
    BY DEF Maybe
  <2>4. Has(given, "current_waits") => given["current_waits"] \in summaries
    BY <2>1, <2>3, FieldIs
  <2>5. IsTable(given, "current_waits")
    BY <1>2, <2>4 DEF IsTable
  <2>6. \A table \in Tables : IsTable(given, table)
    BY <2>2, <2>5 DEF Tables, IsTable
  <2>7. CountsOlder(given)
    BY <2>2, NothingOlder DEF TimelineFields
  <2> QED BY <2>2, <2>6, <2>7 DEF IsRunAnswer, StreamsAreKnown
<1> QED BY <1>1, <1>3, <1>4

\* runs with many waits, activities and tasks that need attention,
LEMMA BusyRunsAre == ASSUME NEW given \in BusyRuns PROVE IsRunAnswer(given)
<1> DEFINE Some(n, needing, other) ==
              [i \in 1..(n + 2) |-> Over([id |-> i], IF i \in {1, n + 2} THEN other ELSE needing)]
<1>1. PICK w \in {0, 1, 3, 8, 9}, a \in {0, 2, 4, 9}, t \in {0, 1, 9} :
         given = [waits      |-> Some(w, [status |-> "open"], [status |-> "resolved"]),
                  activities |-> Some(a, [status |-> "retrying"], [status |-> "completed"]),
                  tasks      |-> Some(t, [replay_blocked |-> TRUE], [transport_state |-> "ready"])]
  BY DEF BusyRuns
<1>2. \A n, needing, other : DOMAIN Some(n, needing, other) = 1..(n + 2)
  OBVIOUS
<1>3. w + 2 \in Nat /\ a + 2 \in Nat /\ t + 2 \in Nat
  OBVIOUS
<1> HIDE DEF Some
<1>4. /\ \A field : Has(given, field) => field \in {"waits", "activities", "tasks"}
      /\ DOMAIN given.waits = 1..(w + 2) /\ DOMAIN given.activities = 1..(a + 2)
      /\ DOMAIN given.tasks = 1..(t + 2)
  BY <1>1, <1>2 DEF Has
<1>5. IsTable(given, "waits") /\ IsTable(given, "activities") /\ IsTable(given, "tasks")
  BY <1>3, <1>4 DEF IsTable
<1>6. \A table \in Tables : IsTable(given, table)
  BY <1>4, <1>5 DEF Tables, IsTable
<1>7. CountsOlder(given)
  BY <1>4, NothingOlder DEF TimelineFields
<1> QED BY <1>4, <1>6, <1>7 DEF IsRunAnswer, StreamsAreKnown

\* runs with a parent, a child or a continued run, linked by any of its ids,
LEMMA RelatedRunsAre == ASSUME NEW given \in RelatedRuns PROVE IsRunAnswer(given)
<1>1. \E link : \/ given = [parents |-> <<link>>]
                \/ given = [continuedWorkflows |-> <<link>>]
                \/ given = [read_mode |-> "bounded", related_children |-> <<link>>]
  BY DEF RelatedRuns
<1>2. \A link : DOMAIN <<link>> = 1..1
  OBVIOUS
<1>3. /\ \A field : Has(given, field) =>
            field \in {"parents", "continuedWorkflows", "read_mode", "related_children"}
      /\ \A field : Has(given, field) /\ field # "read_mode" => DOMAIN given[field] = 1..1
  BY <1>1, <1>2 DEF Has
<1>4. \A table \in Tables : IsTable(given, table)
  <2>1. 1 \in Nat /\ "read_mode" \notin Tables
    BY DEF Tables
  <2> QED BY <1>3, <2>1 DEF IsTable
<1>5. CountsOlder(given)
  BY <1>3, NothingOlder DEF TimelineFields
<1> QED BY <1>3, <1>4, <1>5 DEF IsRunAnswer, StreamsAreKnown

\* runs with and without streams,
LEMMA StreamRunsAre == ASSUME NEW given \in StreamRuns PROVE IsRunAnswer(given)
<1> DEFINE records ==
             [workflow_streams : Maybe({<<>>, <<[stream_name |-> "s"]>>}),
              workflow_streams_state : Maybe(StreamStates \cup {"other"}),
              workflow_streams_available : Maybe(BOOLEAN), read_mode : Maybe({"bounded"})]
<1>1. PICK r \in records : Gives(r, given)
  <2> HIDE DEF records
  <2>1. given \in Partial(records)
    BY DEF StreamRuns, records
  <2> QED BY <2>1, PartialIs
<1>2. \A field : Has(given, field) =>
         field \in {"workflow_streams", "workflow_streams_state", "workflow_streams_available",
                    "read_mode"}
  BY <1>1 DEF Gives, Has
<1>3. r["workflow_streams_available"] \in Maybe(BOOLEAN)
  OBVIOUS
<1>4. StreamsAreKnown(given)
  BY <1>1, <1>3, FieldIs DEF StreamsAreKnown
<1>5. \A table \in Tables : IsTable(given, table)
  BY <1>2 DEF Tables, IsTable
<1>6. CountsOlder(given)
  BY <1>2, NothingOlder DEF TimelineFields
<1> QED BY <1>4, <1>5, <1>6 DEF IsRunAnswer

\* runs whose actions are offered, blocked or forbidden,
LEMMA ActionRunsAre == ASSUME NEW given \in ActionRuns PROVE IsRunAnswer(given)
<1> DEFINE records ==
             [forbidden : Always(SUBSET {"cancel", "repair"}),
              actionability : Maybe({[repair |-> TRUE], [cancel |-> FALSE]}),
              can : Maybe({[repair |-> FALSE, cancel |-> TRUE], [repair |-> TRUE]}),
              can_issue_terminal_commands : Maybe({TRUE}), read_mode : Maybe({"bounded"})]
<1>1. PICK r \in records : Gives(r, given)
  <2> HIDE DEF records
  <2>1. given \in Partial(records)
    BY DEF ActionRuns, records
  <2> QED BY <2>1, PartialIs
<1>2. \A field : Has(given, field) =>
         field \in {"forbidden", "actionability", "can", "can_issue_terminal_commands", "read_mode"}
  BY <1>1 DEF Gives, Has
<1>3. \A table \in Tables : IsTable(given, table)
  BY <1>2 DEF Tables, IsTable
<1>4. CountsOlder(given)
  BY <1>2, NothingOlder DEF TimelineFields
<1> QED BY <1>2, <1>3, <1>4 DEF IsRunAnswer, StreamsAreKnown

\* runs with failures of which only some or none were returned,
LEMMA FailedRunsAre == ASSUME NEW given \in FailedRuns PROVE IsRunAnswer(given)
<1> DEFINE lists == {<<>>} \cup {[i \in 1..n |-> i] : n \in {1, 19, 20, 21}}
           recent == [recent_failures : Maybe(lists)]
           all == [exceptions : Maybe(lists)]
           others == [engine_source : Maybe({"service", "v2"}), read_mode : Maybe({"bounded"}),
                      latest_workflow_task_failure : Maybe({"said"}),
                      details_pruned_at : Maybe({"said"}),
                      recent_failures_truncated : Maybe({"said"}),
                      recent_failures_state : Maybe({"available", "unavailable"})]
<1>1. FailedRuns = {Over(failures, run) : failures \in Partial(recent) \cup Partial(all),
                                         run \in Partial(others)}
  BY DEF FailedRuns
<1> DEFINE failing == Partial(recent) \cup Partial(all)
           running == Partial(others)
<1> HIDE DEF failing, running, lists, recent, all, others
<1>0. PICK failures \in failing, run \in running : given = Over(failures, run)
  BY <1>1 DEF failing, running
<1> USE DEF failing, running, lists, recent, all, others
<1>2. \A list \in lists : \E n \in Nat : DOMAIN list = 1..n
  <2>1. DOMAIN <<>> = 1..0 /\ 0 \in Nat
    OBVIOUS
  <2>2. \A n \in {1, 19, 20, 21} : n \in Nat /\ DOMAIN [i \in 1..n |-> i] = 1..n
    OBVIOUS
  <2> QED BY <2>1, <2>2
<1> HIDE DEF lists
<1>3. PICK o \in others : Gives(o, run)
  <2> HIDE DEF others
  <2> QED BY PartialIs
<1>4. DOMAIN run \subseteq {"engine_source", "read_mode", "latest_workflow_task_failure",
                            "details_pruned_at", "recent_failures_truncated",
                            "recent_failures_state"}
  BY <1>3 DEF Gives
<1>5. /\ DOMAIN failures \subseteq {"recent_failures", "exceptions"}
      /\ \A field \in DOMAIN failures : failures[field] \in lists
  <2>1. CASE failures \in Partial(recent)
    <3>1. PICK r \in recent : Gives(r, failures)
      <4> HIDE DEF recent
      <4> QED BY <2>1, PartialIs
    <3>2. DOMAIN failures \subseteq {"recent_failures"} /\ r["recent_failures"] \in Maybe(lists)
      BY <3>1 DEF Gives
    <3> QED BY <3>1, <3>2, FieldIs DEF Has
  <2>2. CASE failures \in Partial(all)
    <3>1. PICK r \in all : Gives(r, failures)
      <4> HIDE DEF all
      <4> QED BY <2>2, PartialIs
    <3>2. DOMAIN failures \subseteq {"exceptions"} /\ r["exceptions"] \in Maybe(lists)
      BY <3>1 DEF Gives
    <3> QED BY <3>1, <3>2, FieldIs DEF Has
  <2> QED BY <2>1, <2>2
<1>6. /\ DOMAIN given = DOMAIN failures \cup DOMAIN run
      /\ \A field \in DOMAIN failures : given[field] = failures[field]
  BY <1>0 DEF Over, Has
<1>7. \A table \in Tables : IsTable(given, table)
  <2> SUFFICES ASSUME NEW table \in Tables, Has(given, table)
               PROVE  \E n \in Nat : DOMAIN given[table] = 1..n
    BY DEF IsTable
  <2>1. table \in DOMAIN failures
    BY <1>4, <1>6 DEF Tables, Has
  <2> QED BY <1>2, <1>5, <1>6, <2>1
<1>8. CountsOlder(given)
  <2>1. \A field \in TimelineFields : ~ Has(given, field)
    BY <1>4, <1>5, <1>6 DEF TimelineFields, Has
  <2> QED BY <2>1, NothingOlder
<1>9. StreamsAreKnown(given)
  BY <1>4, <1>5, <1>6 DEF StreamsAreKnown, Has
<1> QED BY <1>7, <1>8, <1>9 DEF IsRunAnswer

\* and runs of which a window of the history was read.
LEMMA WindowRunsAre == ASSUME NEW given \in WindowRuns PROVE IsRunAnswer(given)
<1> DEFINE fields == TimelineFields \cup {"engine_source", "read_mode"}
           windows == {[engine_source |-> "service"], [read_mode |-> "bounded"],
                       [engine_source |-> "service", timeline_truncated |-> TRUE],
                       [read_mode |-> "bounded", timeline_truncated |-> TRUE]}
<1>1. CASE \E n \in 1..3, window \in windows : given = Over([timeline |-> [i \in 1..n |-> i]], window)
  <2>1. PICK n \in 1..3, window \in windows : given = Over([timeline |-> [i \in 1..n |-> i]], window)
    BY <1>1
  <2>2. /\ DOMAIN window \subseteq {"engine_source", "read_mode", "timeline_truncated"}
        /\ Is(window, "engine_source", "service") \/ Is(window, "read_mode", "bounded")
    BY DEF Is, Has
  <2> DEFINE shown == [timeline |-> [i \in 1..n |-> i]]
  <2>3. DOMAIN shown = {"timeline"}
    OBVIOUS
  <2> HIDE DEF windows, shown
  <2>4. given = Over(shown, window)
    BY <2>1 DEF shown
  <2>5. DOMAIN given = {"timeline"} \cup DOMAIN window
    BY <2>3, <2>4 DEF Over
  <2>6. \A field \in DOMAIN window : given[field] = window[field]
    BY <2>2, <2>3, <2>4 DEF Over, Has
  <2>7. Is(given, "engine_source", "service") \/ Bounded(given)
    BY <2>2, <2>5, <2>6 DEF Is, Has, Bounded
  <2>8. ~ Has(given, "timeline_total_count") /\ DOMAIN given \subseteq fields
    BY <2>2, <2>5 DEF Has, TimelineFields
  <2> QED BY <2>7, <2>8 DEF CountsOlder, IsRunAnswer, IsTable, Tables, StreamsAreKnown, Has,
                            TimelineFields
<1>2. CASE \E n \in 1..3 :
              \/ given = [timeline |-> [i \in 1..n |-> i], timeline_total_count |-> n,
                          timeline_returned_count |-> n]
              \/ given = [timeline |-> [i \in 1..n |-> i], timeline_total_count |-> n + 1,
                          timeline_returned_count |-> n, timeline_truncated |-> TRUE]
  <2>1. PICK n \in 1..3 :
              \/ given = [timeline |-> [i \in 1..n |-> i], timeline_total_count |-> n,
                          timeline_returned_count |-> n]
              \/ given = [timeline |-> [i \in 1..n |-> i], timeline_total_count |-> n + 1,
                          timeline_returned_count |-> n, timeline_truncated |-> TRUE]
    BY <1>2
  <2>2. /\ DOMAIN given \subseteq TimelineFields
        /\ {"timeline_total_count", "timeline_returned_count"} \subseteq DOMAIN given
        /\ given.timeline_returned_count = n
        /\ IF "timeline_truncated" \in DOMAIN given THEN given.timeline_total_count = n + 1
           ELSE given.timeline_total_count = n
    BY <2>1 DEF TimelineFields
  <2>3. TimelineReturnedCount(given) = n /\ TimelineTotalCount(given) = given.timeline_total_count
    BY <2>2 DEF TimelineReturnedCount, TimelineTotalCount, Has
  <2>4. TimelineHasOlder(given) <=> (TimelineReturnedCount(given) < TimelineTotalCount(given))
    BY <2>2, <2>3 DEF TimelineHasOlder, Has
  <2> QED BY <2>2, <2>4 DEF CountsOlder, IsRunAnswer, IsTable, Tables, StreamsAreKnown, Has,
                            TimelineFields
<1>3. \/ \E n \in 1..3, window \in windows : given = Over([timeline |-> [i \in 1..n |-> i]], window)
      \/ \E n \in 1..3 :
              \/ given = [timeline |-> [i \in 1..n |-> i], timeline_total_count |-> n,
                          timeline_returned_count |-> n]
              \/ given = [timeline |-> [i \in 1..n |-> i], timeline_total_count |-> n + 1,
                          timeline_returned_count |-> n, timeline_truncated |-> TRUE]
  BY DEF WindowRuns
<1> QED BY <1>1, <1>2, <1>3

\* A row of the model with a problem has what decides in its table whether
\* the problem is told.
LEMMA TroubledRowsAre ==
    ASSUME NEW troubled \in TroubledRows
    PROVE  troubled.table \in DOMAIN Problems /\ DecidesOn(troubled.table, troubled.row)
<1> DEFINE others == [run |-> "wait_reason", contract |-> "declared_contract_source",
                   wait |-> "summary", task |-> "replay_blocked_reason",
                   command |-> "target_name", signal |-> "current_task_id",
                   update |-> "exception_resolution_source", activity |-> "reused_from_run_id",
                   attempt |-> "status", intake |-> "mode", lineage |-> "child_call_id",
                   stream |-> "last_offset", issue |-> "title", timer |-> "fired_at",
                   exception |-> "trace_preview", event |-> "kind"]
           Given(table) ==
              IF table = "command" THEN [status |-> "rejected"]
              ELSE IF table = "contract"
              THEN [compatibility_supported |-> FALSE, compatibility_supported_in_fleet |-> FALSE]
              ELSE <<>>
           fields(table) == Problems[table] \cup {others[table]}
<1>0. PICK table \in DOMAIN Problems : \E flags \in Flags(fields(table)) :
         troubled = [table |-> table, row |-> Over(Given(table), flags)]
  BY DEF TroubledRows
<1>1. PICK flags \in Flags(fields(table)) :
         troubled = [table |-> table, row |-> Over(Given(table), flags)]
  BY <1>0
<1> DEFINE row == Over(Given(table), flags)
<1>2. troubled.table = table /\ troubled.row = row
  BY <1>1
<1>3. DOMAIN flags \subseteq fields(table)
  BY DEF Flags
<1>4. /\ DOMAIN row = DOMAIN Given(table) \cup DOMAIN flags
      /\ \A field \in DOMAIN Given(table) : row[field] = Given(table)[field]
  BY DEF Over, Has
<1> HIDE DEF row
<1>5. /\ fields("run") = Problems["run"] \cup {"wait_reason"}
      /\ fields("update") = Problems["update"] \cup {"exception_resolution_source"}
  OBVIOUS
<1>6. DOMAIN <<>> = {}
  OBVIOUS
<1> HIDE DEF fields
<1> SUFFICES DecidesOn(table, row)
  BY <1>2
<1>7. CASE table = "run"
  <2>1. DOMAIN row \subseteq Problems["run"] \cup {"wait_reason"}
    BY <1>3, <1>4, <1>5, <1>6, <1>7
  <2>2. ~ Has(row, "is_current_run")
    BY <2>1 DEF Problems, Has
  <2> QED BY <1>7, <2>2 DEF DecidesOn
<1>8. CASE table = "update"
  <2>1. DOMAIN row \subseteq Problems["update"] \cup {"exception_resolution_source"}
    BY <1>3, <1>4, <1>5, <1>6, <1>8
  <2>2. ~ Has(row, "result_available")
    BY <2>1 DEF Problems, Has
  <2> QED BY <1>8, <2>2 DEF DecidesOn
<1>9. CASE table = "command"
  <2>1. Is(row, "status", "rejected")
    BY <1>4, <1>9 DEF Is, Has
  <2> QED BY <1>9, <2>1 DEF DecidesOn
<1>10. CASE table = "contract"
  <2>1. /\ Is(row, "compatibility_supported", FALSE)
        /\ Is(row, "compatibility_supported_in_fleet", FALSE)
    BY <1>4, <1>10 DEF Is, Has
  <2> QED BY <1>10, <2>1 DEF DecidesOn
<1>11. CASE table \notin {"run", "update", "command", "contract"}
  BY <1>11 DEF DecidesOn
<1> QED BY <1>2, <1>7, <1>8, <1>9, <1>10, <1>11

\* The pages of the model, by what they are about.
LEMMA PagesAre ==
    ASSUME NEW x \in Pages
    PROVE  /\ x.of = "issues" => x.issues \in IssueLists
           /\ x.of = "amount" => x.amount \in Amounts
           /\ x.of = "run" => x.flow \in WaitingRuns \cup BusyRuns \cup RelatedRuns \cup StreamRuns
                                            \cup FailedRuns \cup WindowRuns \cup ActionRuns
           /\ x.of = "row" => x.row \in TroubledRows
           /\ x.of = "history" => x.rows \in Nat
  BY DEF Pages

\* The amounts that the model formats are natural numbers.
LEMMA AmountsAre == ASSUME NEW n \in Amounts PROVE n \in Nat
  BY Z3 DEF Amounts

\* DetailTellsTheRun, of any page and not only of the one on display.
PageTells(x) ==
    /\ x.of = "issues" => IssuesAddUp(x.issues)
    /\ x.of = "status" => ClosedRunsLookIt(x.flow)
    /\ x.of = "amount" => AmountsAreRight(x.amount)
    /\ x.of = "run" =>
          /\ LinksOpenWhatTheyShow(x.flow)
          /\ CurrentChildIsAWait(x.flow)
          /\ AttentionIsPinned(x.flow)
          /\ NoStreamsMeansNone(x.flow)
          /\ NoFailuresMeansNone(x.flow)
          /\ MoreIsOffered(x.flow)
          /\ ActionsAgree(x.flow)
    /\ x.of = "row" => ProblemsAreTold(<<>>, x.row.table, x.row.row)
    /\ x.of = "history" => RowsInSightAreRendered(x.rows)

\* What a page of a run has to tell, it tells for every answer of the shape ...
LEMMA RunTells ==
    ASSUME NEW given, IsRunAnswer(given)
    PROVE  /\ LinksOpenWhatTheyShow(given) /\ CurrentChildIsAWait(given)
           /\ AttentionIsPinned(given) /\ NoStreamsMeansNone(given)
           /\ NoFailuresMeansNone(given) /\ MoreIsOffered(given) /\ ActionsAgree(given)
<1>1. \A table \in Tables : IsTable(given, table)
  BY DEF IsRunAnswer
<1>2. LinksOpenWhatTheyShow(given)
  BY <1>1, LinksOpen DEF Tables
<1>3. CurrentChildIsAWait(given)
  BY <1>1, CurrentChildWaits DEF Tables
<1>4. AttentionIsPinned(given)
  BY <1>1, AttentionPinned DEF Tables
<1>5. NoStreamsMeansNone(given)
  BY NoStreamsMeant DEF IsRunAnswer, StreamsAreKnown
<1>6. NoFailuresMeansNone(given)
  BY <1>1, NoFailuresMeant DEF Tables
<1>7. MoreIsOffered(given)
  BY MoreOffered DEF IsRunAnswer, CountsOlder
<1>8. ActionsAgree(given)
  BY ActionsMatch
<1> QED BY <1>2, <1>3, <1>4, <1>5, <1>6, <1>7, <1>8

\* ... and so every page of the model does.
LEMMA PagesTell == ASSUME NEW x \in Pages PROVE PageTells(x)
<1>1. x.of = "issues" => IssuesAddUp(x.issues)
  <2>1. \A list \in IssueLists : \E n \in Nat : DOMAIN list = 1..n
    BY ListsAre, 3 \in Nat DEF IssueLists
  <2>2. \A list \in IssueLists : IssuesAddUp(list)
    BY <2>1, IssuesCounted
  <2> QED BY <2>2, PagesAre
<1>2. x.of = "status" => ClosedRunsLookIt(x.flow)
  BY ClosedLook
<1>3. x.of = "amount" => AmountsAreRight(x.amount)
  BY PagesAre, AmountsAre, AmountsRight
<1>4. x.of = "run" => IsRunAnswer(x.flow)
  BY PagesAre, WaitingRunsAre, BusyRunsAre, RelatedRunsAre, StreamRunsAre, FailedRunsAre,
     WindowRunsAre, ActionRunsAre
<1>5. x.of = "row" => ProblemsAreTold(<<>>, x.row.table, x.row.row)
  BY PagesAre, TroubledRowsAre, ProblemsTold
<1>6. x.of = "history" => RowsInSightAreRendered(x.rows)
  BY PagesAre, SightRendered
<1> QED BY <1>1, <1>2, <1>3, <1>4, <1>5, <1>6, RunTells DEF PageTells

(***************************************************************************)
(* Whatever the engine answers of a run, what the page tells of one thing  *)
(* in two places agrees: the issues and their banner, a related run and    *)
(* its link, the current child and its wait, what needs attention and what *)
(* is pinned, an action and its button; what went wrong is told, and the   *)
(* rows in sight are rendered.                                             *)
(***************************************************************************)
THEOREM DetailTold == MCSafeSpec => []DetailTellsTheRun
<1>1. DetailTellsTheRun <=> PageTells(facts)
  BY DEF DetailTellsTheRun, PageTells
<1>2. PageTells(Blank)
  BY DEF PageTells, Blank
<1>3. TimelineStudyInit => PageTells(facts)
  BY <1>2 DEF TimelineStudyInit
<1>4. PageTells(facts) /\ [TimelineStudyNext]_<<vars, timelineVars, study, facts>>
         => PageTells(facts')
  <2> SUFFICES ASSUME PageTells(facts),
                      [TimelineStudyNext]_<<vars, timelineVars, study, facts>>
               PROVE  PageTells(facts')
    OBVIOUS
  <2>1. facts' \in Pages \cup {Blank} \/ facts' = facts
    BY DEF TimelineStudyNext
  <2> QED BY <1>2, <2>1, PagesTell
<1>5. PageTells(facts)' <=> PageTells(facts')
  BY DEF PageTells
<1> QED BY <1>1, <1>3, <1>4, <1>5, PTL DEF MCSafeSpec
=============================================================================
