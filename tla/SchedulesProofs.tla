--------------------------- MODULE SchedulesProofs ---------------------------
(***************************************************************************)
(* For any schedules, pages, reads and actions, failing or not: the table  *)
(* agrees with what the next read asks, what waits is owned, and accepted  *)
(* actions show.  The dialogs over the table show the details and the      *)
(* history of the schedule they name.                                      *)
(***************************************************************************)
EXTENDS MCSchedules, FieldsProofs, FiniteSetTheorems, TLAPS

Keys == 0..(MaxSchedules + 1)

PostRecords ==
    [id : Nat, row : Schedules, op : {"pause", "resume", "trigger", "backfill"},
     waiting : BOOLEAN, answer : {"none", "accepted", "failed"}]

Kinds == {"none", "question", "triggered", "backfilled", "failed"}

TypeInv ==
    /\ listRequest \in Nat
    /\ posted \in Nat
    /\ reads \subseteq [id : Nat, releases : Keys]
    /\ posts \subseteq PostRecords
    /\ notice \in [kind : Kinds, row : Keys]
    /\ notice.kind = "question" => notice.row \in Schedules
    /\ notice.kind = "backfilled" => notice.row = TheForm
    /\ form \in 0..MaxSchedules

\* Reads and actions carry the numbers they were given, no number twice, and
\* an action that is still in flight was not accepted.
ReadsNumbered ==
    /\ \A q \in reads : q.id \in 1..listRequest
    /\ \A q, r \in reads : q.id = r.id => q = r

PostsNumbered ==
    /\ \A p \in posts : p.id \in 1..posted /\ p.id \notin accepted
    /\ \A p, o \in posts : p.id = o.id => p = o
    /\ \A i \in accepted : i \in 1..posted

InFlight == \E q \in reads : q.id = listRequest

ListAwaited == listRequest > 0 => (loading \/ refreshing <=> InFlight)

AnswersRequest ==
    /\ TableAnswersRequest
    /\ answer # NoTable => answer.status = appliedStatus

\* Accepted actions are in the rows on display or in those of the newest read,
\* which nobody answered yet or which was answered after them; or the notice
\* that is open leads to a read.
AcceptedSeen ==
    notice.kind \notin {"triggered", "backfilled"} /\ ~error =>
        \/ InFlight /\ answer = NoTable
        \/ InFlight /\ accepted \cap done \subseteq answer.seen
        \/ ~InFlight /\ accepted \cap done \subseteq table.seen

\* One action of a row at a time: in flight, behind its notice, or in the read
\* that follows it.
PostHolds(p, s) == p.row = s /\ p.op # "backfill" /\ p.waiting

NoticeHolds(s) == notice.row = s /\ notice.kind \in {"triggered", "failed"}

Held(s) ==
    \/ \E p \in posts : PostHolds(p, s)
    \/ \E q \in reads : q.releases = s
    \/ NoticeHolds(s)

HeldOnce(s) ==
    /\ \A p, o \in posts : PostHolds(p, s) /\ PostHolds(o, s) => p = o
    /\ \A q, r \in reads : q.releases = s /\ r.releases = s => q = r
    /\ \A p \in posts, q \in reads : ~(PostHolds(p, s) /\ q.releases = s)
    /\ NoticeHolds(s) => /\ \A p \in posts : ~PostHolds(p, s)
                         /\ \A q \in reads : q.releases # s

RowsHeld == \A s \in Schedules : (s \in pendingRowKeys <=> Held(s)) /\ HeldOnce(s)

IInv ==
    /\ TypeInv /\ ReadsNumbered /\ PostsNumbered /\ ListAwaited
    /\ AnswersRequest /\ AcceptedSeen /\ RowsHeld
-----------------------------------------------------------------------------
LEMMA RowsAreKeys ==
    /\ Schedules \subseteq Keys /\ Nothing \in Keys /\ TheForm \in Keys
    /\ Nothing \notin Schedules /\ TheForm \notin Schedules
  BY ScheduleTableAssumption DEF Schedules, Keys, Nothing, TheForm

LEMMA InitEstablishes == Init => IInv
<1>. SUFFICES ASSUME Init PROVE IInv
  OBVIOUS
<1>1. /\ reads = {} /\ posts = {} /\ accepted = {} /\ pendingRowKeys = {}
      /\ listRequest = 0 /\ posted = 0 /\ form = 0
      /\ answer = NoTable /\ notice = NoNotice
  BY DEF Init
<1>2. TypeInv
  BY <1>1, ScheduleTableAssumption DEF TypeInv, NoNotice, Keys, Kinds
<1>3. RowsHeld
  BY <1>1 DEF RowsHeld, Held, HeldOnce, NoticeHolds, NoNotice
<1>. QED
  BY <1>1, <1>2, <1>3 DEF IInv, ReadsNumbered, PostsNumbered, ListAwaited, AnswersRequest,
     TableAnswersRequest, AcceptedSeen, InFlight

-----------------------------------------------------------------------------
(***************************************************************************)
(* What a step does to the list.                                           *)
(***************************************************************************)
ListKept == ReadsNumbered /\ ListAwaited /\ AnswersRequest

\* A read is issued: nothing that was seen is needed any more.
LEMMA LoadKeepsList ==
    ASSUME IInv, NEW r \in Keys, LoadData(r)
    PROVE  /\ ListKept' /\ AcceptedSeen'
           /\ listRequest' \in Nat /\ reads' \subseteq [id : Nat, releases : Keys]
           /\ \E n : n.releases = r /\ n \notin reads /\ reads' = reads \cup {n}
<1>. DEFINE n == [id |-> listRequest + 1, releases |-> r]
<1>1. /\ listRequest' = listRequest + 1 /\ reads' = reads \cup {n}
      /\ answer' = NoTable
      /\ loading' = (table.rows = NoTable.rows) /\ refreshing' = (table.rows # NoTable.rows)
  BY DEF LoadData
<1>2. listRequest \in Nat /\ reads \subseteq [id : Nat, releases : Keys]
  BY DEF IInv, TypeInv
<1>3. \A q \in reads : q.id \in 1..listRequest /\ q.id # n.id
  BY <1>2 DEF IInv, ReadsNumbered
<1>4. n.id = listRequest' /\ n.releases = r /\ n \in [id : Nat, releases : Keys] /\ n \notin reads
  BY <1>1, <1>2, <1>3
<1>5. InFlight'
  BY <1>1, <1>4 DEF InFlight
<1>6. ReadsNumbered'
  <2>1. \A q \in reads' : q.id \in 1..listRequest'
    BY <1>1, <1>2, <1>3, <1>4
  <2>2. \A q, s \in reads' : q.id = s.id => q = s
    BY <1>1, <1>3 DEF IInv, ReadsNumbered
  <2>. QED
    BY <2>1, <2>2 DEF ReadsNumbered
<1>7. loading' \/ refreshing'
  BY <1>1
<1>8. ListAwaited' /\ AnswersRequest' /\ AcceptedSeen'
  BY <1>1, <1>5, <1>7 DEF ListAwaited, AnswersRequest, TableAnswersRequest, AcceptedSeen
<1>. QED
  BY <1>1, <1>2, <1>4, <1>6, <1>8 DEF ListKept

LEMMA NoReadKeepsList ==
    ASSUME IInv, NoRead, UNCHANGED <<appliedStatus, currentPage>>
    PROVE  ListKept'
  BY DEF IInv, NoRead, ListKept, ReadsNumbered, ListAwaited, InFlight, AnswersRequest,
     TableAnswersRequest

LEMMA NoReadKeepsSeen ==
    ASSUME IInv, NoRead, accepted' \cap done' = accepted \cap done,
           notice.kind \in {"triggered", "backfilled"} => notice'.kind = notice.kind
    PROVE  AcceptedSeen'
  BY DEF IInv, NoRead, AcceptedSeen, InFlight
-----------------------------------------------------------------------------
(***************************************************************************)
(* What a step does to the rows that wait.                                 *)
(***************************************************************************)
\* A read that releases no row.
LEMMA LoadFreelyKeepsRows ==
    ASSUME IInv, NEW n, n.releases \notin Schedules,
           reads' = reads \cup {n}, UNCHANGED <<pendingRowKeys, posts, notice>>
    PROVE  RowsHeld'
<1>. SUFFICES ASSUME NEW s \in Schedules
              PROVE  (s \in pendingRowKeys <=> Held(s)') /\ HeldOnce(s)'
  BY DEF RowsHeld
<1>1. (s \in pendingRowKeys <=> Held(s)) /\ HeldOnce(s)
  BY DEF IInv, RowsHeld
<1>. QED
  BY <1>1 DEF Held, HeldOnce, PostHolds, NoticeHolds

\* A read of the list settles and frees what it releases.
LEMMA SettleKeepsRows ==
    ASSUME IInv, NEW q \in reads, reads' = reads \ {q},
           pendingRowKeys' = pendingRowKeys \ {q.releases}, UNCHANGED <<posts, notice>>
    PROVE  RowsHeld'
<1>. SUFFICES ASSUME NEW s \in Schedules
              PROVE  (s \in pendingRowKeys <=> Held(s))' /\ HeldOnce(s)'
  BY DEF RowsHeld
<1>1. (s \in pendingRowKeys <=> Held(s)) /\ HeldOnce(s)
  BY DEF IInv, RowsHeld
<1>. QED
  BY <1>1 DEF Held, HeldOnce, PostHolds, NoticeHolds

\* What waited for the notice goes on: a trigger goes over into a read, a failure
\* ends.  A notice that takes its place holds the row of an action that ended.
LEMMA NoticeKeepsRows ==
    ASSUME IInv, GoesOn(notice),
           \A s \in Schedules :
              NoticeHolds(s)' => /\ \E p \in posts : PostHolds(p, s)
                                /\ \A p \in posts' : ~PostHolds(p, s),
           \A s \in Schedules : \A p :
              ~NoticeHolds(s)' /\ PostHolds(p, s) => (p \in posts' <=> p \in posts)
    PROVE  RowsHeld'
<1>. SUFFICES ASSUME NEW s \in Schedules
              PROVE  (s \in pendingRowKeys <=> Held(s))' /\ HeldOnce(s)'
  BY DEF RowsHeld
<1>1. (s \in pendingRowKeys <=> Held(s)) /\ HeldOnce(s)
  BY DEF IInv, RowsHeld
<1>2. notice.row \in Keys /\ notice.kind \in Kinds
  BY DEF IInv, TypeInv
<1>3. notice.kind = "backfilled" => notice.row \notin Schedules
  BY RowsAreKeys DEF IInv, TypeInv
<1>4. CASE notice.kind \in {"triggered", "backfilled"}
  <2>1. LoadData(notice.row) /\ pendingRowKeys' = pendingRowKeys
    BY <1>4 DEF GoesOn
  <2>2. PICK n : n.releases = notice.row /\ n \notin reads /\ reads' = reads \cup {n}
    BY <1>2, <2>1, LoadKeepsList
  <2>3. CASE NoticeHolds(s)'
    <3>1. ~NoticeHolds(s) /\ \A q \in reads : q.releases # s
      BY <1>1, <2>3 DEF HeldOnce
    <3>2. notice.row # s
      BY <1>3, <1>4, <3>1 DEF NoticeHolds
    <3>3. \A q \in reads' : q.releases # s
      BY <2>2, <3>1, <3>2
    <3>4. s \in pendingRowKeys
      BY <1>1, <2>3 DEF Held
    <3>. QED
      BY <2>1, <2>3, <3>3, <3>4 DEF Held, HeldOnce
  <2>4. CASE ~NoticeHolds(s)'
    <3>1. \A p : PostHolds(p, s) => (p \in posts' <=> p \in posts)
      BY <2>4
    <3>2. NoticeHolds(s) <=> notice.row = s
      BY <1>3, <1>4 DEF NoticeHolds
    <3>3. Held(s)' <=> Held(s)
      BY <2>2, <2>4, <3>1, <3>2 DEF Held
    <3>4. HeldOnce(s)'
      BY <1>1, <2>2, <2>4, <3>1, <3>2 DEF HeldOnce
    <3>. QED
      BY <1>1, <2>1, <3>3, <3>4
  <2>. QED
    BY <2>3, <2>4
<1>5. CASE notice.kind \notin {"triggered", "backfilled"}
  <2>1. /\ reads' = reads
        /\ pendingRowKeys' = IF notice.kind = "failed" THEN pendingRowKeys \ {notice.row}
                                                      ELSE pendingRowKeys
    BY <1>5 DEF GoesOn, NoRead
  <2>2. NoticeHolds(s) <=> notice.row = s /\ notice.kind = "failed"
    BY <1>5 DEF NoticeHolds
  <2>3. CASE NoticeHolds(s)'
    <3>1. ~NoticeHolds(s) /\ \A q \in reads : q.releases # s
      BY <1>1, <2>3 DEF HeldOnce
    <3>2. s \in pendingRowKeys
      BY <1>1, <2>3 DEF Held
    <3>. QED
      BY <2>1, <2>2, <2>3, <3>1, <3>2 DEF Held, HeldOnce
  <2>4. CASE ~NoticeHolds(s)'
    <3>1. \A p : PostHolds(p, s) => (p \in posts' <=> p \in posts)
      BY <2>4
    <3>2. CASE NoticeHolds(s)
      <4>1. (\A p \in posts' : ~PostHolds(p, s)) /\ \A q \in reads' : q.releases # s
        BY <1>1, <2>1, <3>1, <3>2 DEF HeldOnce
      <4>2. s \notin pendingRowKeys'
        BY <2>1, <2>2, <3>2
      <4>. QED
        BY <2>4, <4>1, <4>2 DEF Held, HeldOnce
    <3>3. CASE ~NoticeHolds(s)
      <4>1. s \in pendingRowKeys' <=> s \in pendingRowKeys
        BY <2>1, <2>2, <3>3
      <4>2. Held(s)' <=> Held(s)
        BY <2>1, <2>4, <3>1, <3>3 DEF Held
      <4>3. HeldOnce(s)'
        BY <1>1, <2>1, <2>4, <3>1 DEF HeldOnce
      <4>. QED
        BY <1>1, <4>1, <4>2, <4>3
    <3>. QED
      BY <3>2, <3>3
  <2>. QED
    BY <2>3, <2>4
<1>. QED
  BY <1>4, <1>5
-----------------------------------------------------------------------------
(***************************************************************************)
(* What a step does to the actions in flight.                              *)
(***************************************************************************)
\* Action p gives way to at most one action of its number.
LEMMA PostGivesWay ==
    ASSUME IInv, NEW p \in posts, NEW o \in PostRecords, o.id = p.id,
           NEW S \in SUBSET {o}, posts' = (posts \ {p}) \cup S,
           posted' = posted,
           accepted' = accepted \/ (S = {} /\ accepted' = accepted \cup {p.id})
    PROVE  PostsNumbered' /\ posts' \subseteq PostRecords
<1>1. /\ \A r \in posts : r.id \in 1..posted /\ r.id \notin accepted
      /\ \A r, t \in posts : r.id = t.id => r = t
      /\ \A i \in accepted : i \in 1..posted
      /\ posts \subseteq PostRecords
  BY DEF IInv, PostsNumbered, TypeInv
<1>2. \A r \in posts' : r.id \in 1..posted /\ r.id \notin accepted'
  <2>1. CASE accepted' = accepted
    BY <1>1, <2>1
  <2>2. CASE S = {} /\ accepted' = accepted \cup {p.id}
    BY <1>1, <2>2
  <2>. QED
    BY <2>1, <2>2
<1>3. \A r, t \in posts' : r.id = t.id => r = t
  BY <1>1
<1>4. \A i \in accepted' : i \in 1..posted
  BY <1>1
<1>. QED
  BY <1>1, <1>2, <1>3, <1>4 DEF PostsNumbered

\* The reply to an action, or its loss: who holds what stays the same.
LEMMA ReplyKeeps ==
    ASSUME IInv, NEW p \in posts, p.answer = "none", NEW a \in {"accepted", "failed"},
           Reply(p, a), UNCHANGED <<listing, pendingRowKeys, posted, notice, form, accepted>>,
           accepted \cap done' = accepted \cap done
    PROVE  IInv'
<1>. USE DEF listing
<1>. DEFINE o == [p EXCEPT !.answer = a]
<1>1. posts' = (posts \ {p}) \cup (IF p.waiting THEN {o} ELSE {})
  BY DEF Reply
<1>2. p \in PostRecords
  BY DEF IInv, TypeInv
<1>3. o \in PostRecords /\ o.id = p.id /\ o.row = p.row /\ o.op = p.op
  BY <1>2 DEF PostRecords
<1>4. o.waiting = p.waiting
  BY <1>2 DEF PostRecords
<1>. DEFINE S == IF p.waiting THEN {o} ELSE {}
<1>. HIDE DEF o
<1>5. PostsNumbered' /\ posts' \subseteq PostRecords
  <2>1. S \in SUBSET {o} /\ posts' = (posts \ {p}) \cup S
    BY <1>1
  <2>2. posted' = posted /\ accepted' = accepted
    OBVIOUS
  <2>. HIDE DEF S
  <2>. QED
    BY <1>3, <2>1, <2>2, PostGivesWay
<1>6. TypeInv'
  BY <1>5 DEF IInv, TypeInv
<1>7. NoRead /\ ListKept'
  BY NoReadKeepsList DEF NoRead
<1>8. AcceptedSeen'
  BY <1>7, NoReadKeepsSeen
<1>9. RowsHeld'
  <2>. SUFFICES ASSUME NEW s \in Schedules
                PROVE  (s \in pendingRowKeys <=> Held(s))' /\ HeldOnce(s)'
    BY DEF RowsHeld
  <2>1. (s \in pendingRowKeys <=> Held(s)) /\ HeldOnce(s)
    BY DEF IInv, RowsHeld
  <2>2. PostHolds(o, s) <=> PostHolds(p, s)
    BY <1>3, <1>4 DEF PostHolds
  <2>3. PostHolds(p, s) => p.waiting
    BY DEF PostHolds
  <2>4. (\E r \in posts' : PostHolds(r, s)) <=> (\E r \in posts : PostHolds(r, s))
    BY <1>1, <2>2, <2>3
  <2>5. \A r, t \in posts' : PostHolds(r, s) /\ PostHolds(t, s) => r = t
    BY <1>1, <2>1, <2>2, <2>3 DEF HeldOnce
  <2>. QED
    BY <2>1, <2>4, <2>5 DEF Held, HeldOnce, NoticeHolds
<1>. QED
  BY <1>5, <1>6, <1>7, <1>8, <1>9 DEF IInv, ListKept

\* A new action.
LEMMA PostKeepsPosts ==
    ASSUME IInv, NEW o \in PostRecords, o.id = posted + 1, posted' = posted + 1,
           posts' = posts \cup {o}, UNCHANGED accepted
    PROVE  PostsNumbered' /\ posts' \subseteq PostRecords /\ posted' \in Nat
<1>1. /\ \A r \in posts : r.id \in 1..posted /\ r.id \notin accepted
      /\ \A r, t \in posts : r.id = t.id => r = t
      /\ \A i \in accepted : i \in 1..posted
      /\ posts \subseteq PostRecords /\ posted \in Nat
  BY DEF IInv, PostsNumbered, TypeInv
<1>2. \A r \in posts' : r.id \in 1..posted' /\ r.id \notin accepted
  BY <1>1
<1>3. \A r, t \in posts' : r.id = t.id => r = t
  BY <1>1
<1>4. \A i \in accepted : i \in 1..posted'
  BY <1>1
<1>. QED
  BY <1>1, <1>2, <1>3, <1>4 DEF PostsNumbered

\* The action that holds a row reads the list next.
LEMMA HandOverKeepsRows ==
    ASSUME IInv, NEW p \in posts, PostHolds(p, p.row), posts' = posts \ {p},
           NEW n, n.releases = p.row, reads' = reads \cup {n},
           UNCHANGED <<pendingRowKeys, notice>>
    PROVE  RowsHeld'
<1>. SUFFICES ASSUME NEW s \in Schedules
              PROVE  (s \in pendingRowKeys <=> Held(s))' /\ HeldOnce(s)'
  BY DEF RowsHeld
<1>1. (s \in pendingRowKeys <=> Held(s)) /\ HeldOnce(s)
  BY DEF IInv, RowsHeld
<1>2. CASE p.row = s
  BY <1>1, <1>2 DEF Held, HeldOnce, NoticeHolds
<1>3. CASE p.row # s
  <2>1. ~PostHolds(p, s)
    BY <1>3 DEF PostHolds
  <2>. QED
    BY <1>1, <1>3, <2>1 DEF Held, HeldOnce, NoticeHolds
<1>. QED
  BY <1>2, <1>3

\* An action of a row that nothing holds, or of the backfill form.
LEMMA NewPostKeepsRows ==
    ASSUME IInv, NEW o, posts' = posts \cup {o}, UNCHANGED reads,
           \A s \in Schedules : NoticeHolds(s)' <=> NoticeHolds(s),
           \/ /\ o.row \notin pendingRowKeys /\ PostHolds(o, o.row)
              /\ pendingRowKeys' = pendingRowKeys \cup {o.row}
           \/ o.op = "backfill" /\ pendingRowKeys' = pendingRowKeys
    PROVE  RowsHeld'
<1>. SUFFICES ASSUME NEW s \in Schedules
              PROVE  (s \in pendingRowKeys <=> Held(s))' /\ HeldOnce(s)'
  BY DEF RowsHeld
<1>1. (s \in pendingRowKeys <=> Held(s)) /\ HeldOnce(s) /\ (NoticeHolds(s)' <=> NoticeHolds(s))
  BY DEF IInv, RowsHeld
<1>2. CASE PostHolds(o, s)
  <2>1. s \notin pendingRowKeys /\ s \in pendingRowKeys'
    BY <1>2 DEF PostHolds
  <2>. QED
    BY <1>1, <1>2, <2>1 DEF Held, HeldOnce
<1>3. CASE ~PostHolds(o, s)
  <2>1. s \in pendingRowKeys' <=> s \in pendingRowKeys
    BY <1>3 DEF PostHolds
  <2>. QED
    BY <1>1, <1>3, <2>1 DEF Held, HeldOnce
<1>. QED
  BY <1>2, <1>3
-----------------------------------------------------------------------------
(***************************************************************************)
(* What a step does that closes or replaces the notice.                    *)
(***************************************************************************)
GoneOn ==
    /\ ListKept' /\ AcceptedSeen'
    /\ listRequest' \in Nat /\ reads' \subseteq [id : Nat, releases : Keys]

LEMMA GoesOnKeepsList ==
    ASSUME IInv, GoesOn(notice), UNCHANGED <<appliedStatus, currentPage>>,
           \/ UNCHANGED <<accepted, done>>
           \/ notice'.kind \in {"triggered", "backfilled"}
    PROVE  GoneOn
<1>1. notice.row \in Keys /\ listRequest \in Nat /\ reads \subseteq [id : Nat, releases : Keys]
  BY DEF IInv, TypeInv
<1>2. CASE notice.kind \in {"triggered", "backfilled"}
  <2>1. LoadData(notice.row)
    BY <1>2 DEF GoesOn
  <2>. QED
    BY <1>1, <2>1, LoadKeepsList DEF GoneOn
<1>3. CASE notice.kind \notin {"triggered", "backfilled"}
  <2>1. NoRead
    BY <1>3 DEF GoesOn
  <2>2. ListKept'
    BY <2>1, NoReadKeepsList
  <2>3. AcceptedSeen'
    BY <1>3, <2>1 DEF IInv, NoRead, AcceptedSeen, InFlight
  <2>4. listRequest' \in Nat /\ reads' \subseteq [id : Nat, releases : Keys]
    BY <1>1, <2>1 DEF NoRead
  <2>. QED
    BY <2>2, <2>3, <2>4 DEF GoneOn
<1>. QED
  BY <1>2, <1>3

LEMMA NoticeKeeps ==
    ASSUME IInv, GoneOn, RowsHeld', PostsNumbered', posts' \subseteq PostRecords,
           UNCHANGED posted, form' \in {0, form}, notice'.kind \in Kinds \ {"question"},
           notice' = [kind |-> notice'.kind, row |-> notice'.row], notice'.row \in Keys,
           notice'.kind = "backfilled" => notice'.row = TheForm
    PROVE  IInv'
<1>1. notice' \in [kind : Kinds, row : Keys]
  OBVIOUS
<1>2. TypeInv'
  BY <1>1, ScheduleTableAssumption DEF GoneOn, IInv, TypeInv, Kinds
<1>. QED
  BY <1>2 DEF GoneOn, IInv, ListKept
-----------------------------------------------------------------------------
(***************************************************************************)
(* The steps.                                                              *)
(***************************************************************************)
\* A read that no row waits for: mount, filters, Refresh, pages, the timer.
LEMMA FreeReadKeeps ==
    ASSUME IInv, LoadData(Nothing), UNCHANGED actions
    PROVE  IInv'
<1>. USE DEF actions
<1>1. Nothing \in Keys /\ Nothing \notin Schedules
  BY RowsAreKeys
<1>2. /\ ListKept' /\ AcceptedSeen'
      /\ listRequest' \in Nat /\ reads' \subseteq [id : Nat, releases : Keys]
      /\ \E n : n.releases = Nothing /\ n \notin reads /\ reads' = reads \cup {n}
  BY <1>1, LoadKeepsList
<1>3. RowsHeld'
  <2>1. PICK n : n.releases = Nothing /\ reads' = reads \cup {n}
    BY <1>2
  <2>. QED
    BY <1>1, <2>1, LoadFreelyKeepsRows
<1>4. TypeInv' /\ PostsNumbered'
  BY <1>2 DEF IInv, TypeInv, PostsNumbered
<1>. QED
  BY <1>2, <1>3, <1>4 DEF IInv, ListKept

LEMMA ServerReadsKeeps ==
    ASSUME IInv, ServerReads
    PROVE  IInv'
<1>. USE DEF actions, server
<1>1. /\ answer' = ListAnswer /\ \E q \in reads : q.id = listRequest
      /\ UNCHANGED <<appliedStatus, currentPage, listRequest, loading, refreshing, error,
                     table, reads, actions, done>>
  BY DEF ServerReads
<1>2. answer'.status = appliedStatus /\ answer'.seen = done
  BY <1>1 DEF ListAnswer
<1>3. InFlight'
  BY <1>1 DEF InFlight
<1>4. AcceptedSeen'
  BY <1>1, <1>2, <1>3 DEF AcceptedSeen
<1>5. TypeInv' /\ PostsNumbered'
  BY <1>1 DEF IInv, TypeInv, PostsNumbered
<1>6. ReadsNumbered' /\ ListAwaited' /\ AnswersRequest'
  BY <1>1, <1>2 DEF IInv, ReadsNumbered, ListAwaited, InFlight, AnswersRequest,
     TableAnswersRequest
<1>7. RowsHeld'
  BY <1>1 DEF IInv, RowsHeld, Held, HeldOnce, PostHolds, NoticeHolds
<1>. QED
  BY <1>4, <1>5, <1>6, <1>7 DEF IInv

LEMMA SettleListKeeps ==
    ASSUME IInv, NEW q \in reads, SettleList(q)
    PROVE  IInv'
<1>. USE DEF server
<1>1. /\ reads' = reads \ {q} /\ pendingRowKeys' = pendingRowKeys \ {q.releases}
      /\ UNCHANGED <<appliedStatus, listRequest, posts, posted, notice, form, accepted, done>>
  BY DEF SettleList, ListArrives, ListFails, SupersededListSettles, Settled, Release
<1>2. TypeInv' /\ PostsNumbered' /\ ReadsNumbered'
  BY <1>1 DEF IInv, TypeInv, PostsNumbered, ReadsNumbered
<1>3. RowsHeld'
  BY <1>1, SettleKeepsRows
<1>4. \A r \in reads : r.id = q.id => r = q
  BY DEF IInv, ReadsNumbered
<1>5. q.id = listRequest => InFlight /\ ~InFlight'
  BY <1>1, <1>4 DEF InFlight
<1>6. q.id # listRequest => (InFlight' <=> InFlight)
  BY <1>1 DEF InFlight
<1>7. ListAwaited' /\ AnswersRequest' /\ AcceptedSeen'
  <2>1. CASE ListArrives(q)
    <3>1. /\ q.id = listRequest /\ answer # NoTable /\ table' = answer
          /\ currentPage' = answer.current /\ answer' = NoTable
          /\ loading' = FALSE /\ refreshing' = FALSE /\ error' = error
      BY <2>1 DEF ListArrives, Answered, ShowAnswer, Settled
    <3>2. AnswersRequest'
      BY <1>1, <3>1 DEF IInv, AnswersRequest, TableAnswersRequest
    <3>3. AcceptedSeen'
      BY <1>1, <1>5, <3>1 DEF IInv, AcceptedSeen
    <3>. QED
      BY <1>5, <3>1, <3>2, <3>3 DEF ListAwaited
  <2>2. CASE ListFails(q)
    <3>1. /\ q.id = listRequest /\ answer' = NoTable /\ error' = TRUE
          /\ loading' = FALSE /\ refreshing' = FALSE
      BY <2>2 DEF ListFails, Settled
    <3>. QED
      BY <1>5, <3>1 DEF ListAwaited, AnswersRequest, TableAnswersRequest, AcceptedSeen
  <2>3. CASE SupersededListSettles(q)
    <3>1. /\ q.id # listRequest
          /\ UNCHANGED <<currentPage, loading, refreshing, error, table, answer>>
      BY <2>3 DEF SupersededListSettles
    <3>. QED
      BY <1>1, <1>6, <3>1 DEF IInv, ListAwaited, AnswersRequest, TableAnswersRequest,
         AcceptedSeen
  <2>. QED
    BY <2>1, <2>2, <2>3 DEF SettleList
<1>. QED
  BY <1>2, <1>3, <1>7 DEF IInv

\* What leaves the list alone, and no notice but one that leads to a read.
LEMMA ListLeftAlone ==
    ASSUME IInv, UNCHANGED listing, accepted' \cap done' = accepted \cap done,
           notice.kind \in {"triggered", "backfilled"} => notice'.kind = notice.kind
    PROVE  NoRead /\ ListKept' /\ AcceptedSeen'
<1>. USE DEF listing
<1>1. NoRead
  BY DEF NoRead
<1>. QED
  BY <1>1, NoReadKeepsList, NoReadKeepsSeen

\* The buttons of a row, and the confirmation of a trigger.
LEMMA RowActionKeeps ==
    ASSUME IInv, NEW s \in Schedules, NEW op \in {"pause", "resume", "trigger"},
           RunRowAction(s, op),
           notice' = notice \/ (notice.kind = "question" /\ notice' = NoNotice),
           UNCHANGED <<listing, form, accepted, done>>
    PROVE  IInv'
<1>. DEFINE o == [id |-> posted + 1, row |-> s, op |-> op, waiting |-> TRUE, answer |-> "none"]
<1>1. /\ s \notin pendingRowKeys /\ posted' = posted + 1 /\ posts' = posts \cup {o}
      /\ pendingRowKeys' = pendingRowKeys \cup {s}
  BY DEF RunRowAction
<1>2. posted \in Nat
  BY DEF IInv, TypeInv
<1>3. /\ o \in PostRecords /\ o.id = posted + 1 /\ o.row = s /\ PostHolds(o, s)
  BY <1>2 DEF PostRecords, PostHolds
<1>. HIDE DEF o
<1>4. UNCHANGED reads
  BY DEF listing
<1>6. PostsNumbered' /\ posts' \subseteq PostRecords /\ posted' \in Nat
  <2>1. accepted' = accepted
    OBVIOUS
  <2>. QED
    BY <1>1, <1>3, <2>1, PostKeepsPosts
<1>7. NoRead /\ ListKept' /\ AcceptedSeen'
  <2>1. accepted' \cap done' = accepted \cap done /\ UNCHANGED listing
    OBVIOUS
  <2>2. notice.kind \in {"triggered", "backfilled"} => notice'.kind = notice.kind
    OBVIOUS
  <2>. QED
    BY <2>1, <2>2, ListLeftAlone
<1>8. RowsHeld'
  <2>1. \A r \in Schedules : NoticeHolds(r)' <=> NoticeHolds(r)
    BY DEF NoticeHolds, NoNotice
  <2>2. /\ o.row \notin pendingRowKeys /\ PostHolds(o, o.row)
        /\ pendingRowKeys' = pendingRowKeys \cup {o.row}
    BY <1>1, <1>3
  <2>. QED
    BY <1>1, <1>4, <2>1, <2>2, NewPostKeepsRows
<1>9. TypeInv'
  <2>1. notice' \in [kind : Kinds, row : Keys]
    BY RowsAreKeys DEF IInv, TypeInv, NoNotice, Kinds, Nothing
  <2>2. /\ notice'.kind = "question" => notice'.row \in Schedules
        /\ notice'.kind = "backfilled" => notice'.row = TheForm
    BY DEF IInv, TypeInv, NoNotice
  <2>. QED
    BY <1>4, <1>6, <2>1, <2>2 DEF IInv, TypeInv, listing
<1>. QED
  BY <1>6, <1>7, <1>8, <1>9 DEF IInv, ListKept

LEMMA AskTriggerKeeps ==
    ASSUME IInv, NEW s \in Schedules, AskTrigger(s)
    PROVE  IInv'
<1>1. /\ notice = NoNotice /\ notice' = [kind |-> "question", row |-> s]
      /\ UNCHANGED <<listing, pendingRowKeys, posts, posted, form, accepted, done>>
  BY DEF AskTrigger, Offered, Idle, server
<1>2. NoRead /\ ListKept' /\ AcceptedSeen'
  <2>1. /\ UNCHANGED listing /\ accepted' \cap done' = accepted \cap done
        /\ notice.kind \in {"triggered", "backfilled"} => notice'.kind = notice.kind
    BY <1>1 DEF NoNotice
  <2>. QED
    BY <2>1, ListLeftAlone
<1>3. TypeInv' /\ PostsNumbered'
  BY <1>1, RowsAreKeys DEF IInv, TypeInv, PostsNumbered, listing, Kinds
<1>4. RowsHeld'
  <2>1. \A r \in Schedules : ~NoticeHolds(r)' /\ ~NoticeHolds(r)
    BY <1>1 DEF NoticeHolds, NoNotice
  <2>. QED
    BY <1>1, <2>1 DEF IInv, RowsHeld, Held, HeldOnce, PostHolds, listing
<1>. QED
  BY <1>2, <1>3, <1>4 DEF IInv, ListKept

LEMMA DismissNoticeKeeps ==
    ASSUME IInv, DismissNotice
    PROVE  IInv'
<1>1. /\ notice' = NoNotice /\ GoesOn(notice)
      /\ UNCHANGED <<appliedStatus, currentPage, posts, posted, form, accepted, done>>
  BY DEF DismissNotice, server
<1>2. RowsHeld'
  <2>1. \A s \in Schedules : ~NoticeHolds(s)'
    BY <1>1 DEF NoticeHolds, NoNotice
  <2>2. posts' = posts /\ GoesOn(notice)
    BY <1>1
  <2>. QED
    BY <2>1, <2>2, NoticeKeepsRows
<1>3. PostsNumbered' /\ posts' \subseteq PostRecords
  BY <1>1 DEF IInv, TypeInv, PostsNumbered
<1>4. GoneOn
  BY <1>1, GoesOnKeepsList DEF NoNotice
<1>5. /\ UNCHANGED posted /\ form' \in {0, form} /\ notice'.kind \in Kinds \ {"question"}
      /\ notice' = [kind |-> notice'.kind, row |-> notice'.row] /\ notice'.row \in Keys
      /\ notice'.kind # "backfilled"
  BY <1>1, RowsAreKeys DEF NoNotice, Kinds, Nothing
<1>. QED
  BY <1>2, <1>3, <1>4, <1>5, NoticeKeeps

\* The backfill form opens, closes and posts; it holds no row.
LEMMA FormKeeps ==
    ASSUME IInv,
           (\E s \in Schedules : ShowBackfillDialog(s)) \/ CloseBackfillDialog \/ ExecuteBackfill
    PROVE  IInv'
<1>1. UNCHANGED <<listing, pendingRowKeys, notice, accepted, done>>
  BY DEF ShowBackfillDialog, CloseBackfillDialog, ExecuteBackfill, server
<1>2. NoRead /\ ListKept' /\ AcceptedSeen'
  <2>1. /\ UNCHANGED listing /\ accepted' \cap done' = accepted \cap done
        /\ notice.kind \in {"triggered", "backfilled"} => notice'.kind = notice.kind
    BY <1>1
  <2>. QED
    BY <2>1, ListLeftAlone
<1>3. form' \in 0..MaxSchedules
  BY ScheduleTableAssumption DEF IInv, TypeInv, ShowBackfillDialog, CloseBackfillDialog,
     ExecuteBackfill, Schedules
<1>4. UNCHANGED reads /\ UNCHANGED listRequest
  BY <1>1 DEF listing
<1>5. PostsNumbered' /\ posts' \subseteq PostRecords /\ posted' \in Nat /\ RowsHeld'
  <2>1. CASE UNCHANGED <<posts, posted>>
    BY <1>1, <1>4, <2>1 DEF IInv, TypeInv, PostsNumbered, RowsHeld, Held, HeldOnce, PostHolds,
       NoticeHolds
  <2>2. CASE ExecuteBackfill
    <3>. DEFINE o == [id |-> posted + 1, row |-> form, op |-> "backfill", waiting |-> TRUE,
                      answer |-> "none"]
    <3>1. /\ form # 0 /\ posted' = posted + 1 /\ posts' = posts \cup {o}
          /\ accepted' = accepted /\ pendingRowKeys' = pendingRowKeys
      BY <2>2 DEF ExecuteBackfill
    <3>2. posted \in Nat /\ form \in Schedules
      BY <3>1, ScheduleTableAssumption DEF IInv, TypeInv, Schedules
    <3>3. o \in PostRecords /\ o.id = posted + 1 /\ o.op = "backfill"
      BY <3>2 DEF PostRecords
    <3>. HIDE DEF o
    <3>4. PostsNumbered' /\ posts' \subseteq PostRecords /\ posted' \in Nat
      BY <3>1, <3>3, PostKeepsPosts
    <3>5. \A s \in Schedules : NoticeHolds(s)' <=> NoticeHolds(s)
      BY <1>1 DEF NoticeHolds
    <3>6. o.op = "backfill" /\ pendingRowKeys' = pendingRowKeys
      BY <3>1, <3>3
    <3>7. RowsHeld'
      BY <1>4, <3>1, <3>5, <3>6, NewPostKeepsRows
    <3>. QED
      BY <3>4, <3>7
  <2>. QED
    BY <2>1, <2>2 DEF ShowBackfillDialog, CloseBackfillDialog
<1>6. TypeInv'
  BY <1>1, <1>3, <1>4, <1>5 DEF IInv, TypeInv
<1>. QED
  BY <1>2, <1>5, <1>6 DEF IInv, ListKept

\* A row is held by the action in flight and no other.
LEMMA OnePostOfRow ==
    ASSUME IInv, NEW p \in posts, PostHolds(p, p.row)
    PROVE  \A o \in posts \ {p} : ~PostHolds(o, p.row)
<1>1. p.row \in Schedules
  BY DEF IInv, TypeInv, PostRecords
<1>. QED
  BY <1>1 DEF IInv, RowsHeld, HeldOnce

LEMMA ActionAnsweredKeeps ==
    ASSUME IInv, NEW p \in posts, ActionAnswered(p)
    PROVE  IInv'
<1>1. /\ p.waiting /\ posts' = posts \ {p} /\ accepted' = accepted \cup {p.id}
      /\ ActionAccepted(p)
      /\ UNCHANGED <<appliedStatus, currentPage, posted, done>>
  BY DEF ActionAnswered, ActionAccepted, server
<1>2. p \in PostRecords
  BY DEF IInv, TypeInv
<1>3. PostsNumbered' /\ posts' \subseteq PostRecords
  <2>1. {} \in SUBSET {p} /\ posts' = (posts \ {p}) \cup {} /\ p.id = p.id /\ posted' = posted
    BY <1>1
  <2>2. accepted' = accepted \/ ({} = {} /\ accepted' = accepted \cup {p.id})
    BY <1>1
  <2>. QED
    BY <1>2, <2>1, <2>2, PostGivesWay
<1>4. CASE p.op \in {"pause", "resume"}
  <2>1. LoadData(p.row) /\ UNCHANGED <<pendingRowKeys, notice, form>>
    BY <1>1, <1>4 DEF ActionAccepted
  <2>2. p.row \in Keys /\ PostHolds(p, p.row)
    BY <1>1, <1>2, <1>4, RowsAreKeys DEF PostRecords, PostHolds
  <2>3. /\ ListKept' /\ AcceptedSeen'
        /\ listRequest' \in Nat /\ reads' \subseteq [id : Nat, releases : Keys]
        /\ \E n : n.releases = p.row /\ n \notin reads /\ reads' = reads \cup {n}
    BY <2>1, <2>2, LoadKeepsList
  <2>4. PICK n : n.releases = p.row /\ reads' = reads \cup {n}
    BY <2>3
  <2>5. RowsHeld'
    BY <1>1, <2>1, <2>2, <2>4, HandOverKeepsRows
  <2>6. TypeInv'
    BY <1>1, <1>3, <2>1, <2>3 DEF IInv, TypeInv
  <2>. QED
    BY <1>3, <2>3, <2>5, <2>6 DEF IInv, ListKept
<1>5. CASE p.op \in {"trigger", "backfill"}
  <2>1. /\ GoesOn(notice) /\ form' \in {0, form}
        /\ notice' = IF p.op = "trigger" THEN [kind |-> "triggered", row |-> p.row]
                                         ELSE [kind |-> "backfilled", row |-> TheForm]
    BY <1>1, <1>5 DEF ActionAccepted
  <2>2. /\ notice'.kind \in {"triggered", "backfilled"} /\ notice'.kind \in Kinds \ {"question"}
        /\ notice' = [kind |-> notice'.kind, row |-> notice'.row] /\ notice'.row \in Keys
    BY <1>2, <2>1, RowsAreKeys DEF Kinds, PostRecords
  <2>3. notice'.kind = "backfilled" => notice'.row = TheForm
    BY <2>1
  <2>4. GoneOn
    BY <1>1, <2>1, <2>2, GoesOnKeepsList
  <2>5. ASSUME NEW s \in Schedules, NoticeHolds(s)'
        PROVE  (\E o \in posts : PostHolds(o, s)) /\ \A o \in posts' : ~PostHolds(o, s)
    <3>1. p.op = "trigger" /\ p.row = s
      BY <1>5, <2>1, <2>5 DEF NoticeHolds
    <3>2. PostHolds(p, s)
      BY <1>1, <3>1 DEF PostHolds
    <3>. QED
      BY <1>1, <3>1, <3>2, OnePostOfRow
  <2>6. ASSUME NEW s \in Schedules, NEW o, ~NoticeHolds(s)', PostHolds(o, s)
        PROVE  o \in posts' <=> o \in posts
    <3>1. o # p
      BY <1>5, <2>1, <2>6 DEF NoticeHolds, PostHolds
    <3>. QED
      BY <1>1, <3>1
  <2>7. RowsHeld'
    BY <2>1, <2>5, <2>6, NoticeKeepsRows
  <2>8. posted' = posted /\ form' \in {0, form}
    BY <1>1, <2>1
  <2>. QED
    BY <1>3, <2>2, <2>3, <2>4, <2>7, <2>8, NoticeKeeps
<1>. QED
  BY <1>2, <1>4, <1>5 DEF PostRecords

LEMMA ActionFailedKeeps ==
    ASSUME IInv, NEW p \in posts, ActionFailed(p)
    PROVE  IInv'
<1>. DEFINE o == [p EXCEPT !.waiting = FALSE]
            S == IF p.answer = "none" THEN {o} ELSE {}
<1>1. /\ p.waiting /\ posts' = (posts \ {p}) \cup S /\ GoesOn(notice)
      /\ notice' = [kind |-> "failed", row |-> IF p.op = "backfill" THEN Nothing ELSE p.row]
      /\ UNCHANGED <<appliedStatus, currentPage, posted, form, accepted, done>>
  BY DEF ActionFailed, server
<1>2. p \in PostRecords
  BY DEF IInv, TypeInv
<1>3. o \in PostRecords /\ o.id = p.id /\ ~o.waiting
  BY <1>2 DEF PostRecords
<1>4. S \in SUBSET {o}
  OBVIOUS
<1>. HIDE DEF S, o
<1>5. PostsNumbered' /\ posts' \subseteq PostRecords
  <2>1. posted' = posted /\ accepted' = accepted /\ posts' = (posts \ {p}) \cup S
    BY <1>1
  <2>. QED
    BY <1>3, <1>4, <2>1, PostGivesWay
<1>6. /\ posted' = posted /\ form' \in {0, form} /\ notice'.kind \in Kinds \ {"question"}
      /\ notice' = [kind |-> notice'.kind, row |-> notice'.row] /\ notice'.row \in Keys
      /\ notice'.kind # "backfilled"
  BY <1>1, <1>2, RowsAreKeys DEF Kinds, PostRecords
<1>7. GoneOn
  BY <1>1, GoesOnKeepsList
<1>8. \A s : ~PostHolds(o, s)
  BY <1>3 DEF PostHolds
<1>9. ASSUME NEW s \in Schedules, NoticeHolds(s)'
      PROVE  (\E r \in posts : PostHolds(r, s)) /\ \A r \in posts' : ~PostHolds(r, s)
  <2>1. p.op # "backfill" /\ p.row = s
    BY <1>1, <1>9, RowsAreKeys DEF NoticeHolds
  <2>2. PostHolds(p, s)
    BY <1>1, <2>1 DEF PostHolds
  <2>3. \A r \in posts \ {p} : ~PostHolds(r, s)
    BY <2>1, <2>2, OnePostOfRow
  <2>. QED
    BY <1>1, <1>4, <1>8, <2>2, <2>3
<1>10. ASSUME NEW s \in Schedules, NEW r, ~NoticeHolds(s)', PostHolds(r, s)
       PROVE  r \in posts' <=> r \in posts
  <2>1. r # p
    BY <1>1, <1>10 DEF NoticeHolds, PostHolds
  <2>2. r # o
    BY <1>8, <1>10
  <2>. QED
    BY <1>1, <1>4, <2>1, <2>2
<1>11. RowsHeld'
  BY <1>1, <1>9, <1>10, NoticeKeepsRows
<1>. QED
  BY <1>5, <1>6, <1>7, <1>11, NoticeKeeps

\* The server gets to an action that was not answered yet.
LEMMA ServerKeeps ==
    ASSUME IInv, NEW p \in posts, Perform(p) \/ Decline(p)
    PROVE  IInv'
<1>1. PICK a \in {"accepted", "failed"} : Reply(p, a)
  BY DEF Perform, Decline
<1>2. /\ p.answer = "none"
      /\ UNCHANGED <<listing, pendingRowKeys, posted, notice, form, accepted>>
      /\ done' = done \/ done' = done \cup {p.id}
  BY DEF Perform, Decline, server
<1>3. p.id \notin accepted
  BY DEF IInv, PostsNumbered
<1>4. accepted \cap done' = accepted \cap done
  BY <1>2, <1>3
<1>. QED
  BY <1>1, <1>2, <1>4, ReplyKeeps

\* What leaves everything the page keeps alone.
LEMMA PageLeftAlone ==
    ASSUME IInv, UNCHANGED <<listing, actions, done>>
    PROVE  IInv'
  BY DEF listing, actions, IInv, TypeInv, ReadsNumbered, PostsNumbered, ListAwaited, InFlight,
     AnswersRequest, TableAnswersRequest, AcceptedSeen, RowsHeld, Held, HeldOnce, PostHolds,
     NoticeHolds

LEMMA OperatorKeeps ==
    ASSUME IInv, Operator
    PROVE  IInv'
<1>1. CASE (\E f \in Filters : ApplyFilters(f)) \/ Refresh \/ \E p \in Schedules : GoToPage(p)
  <2>1. LoadData(Nothing) /\ UNCHANGED actions
    BY <1>1 DEF ApplyFilters, Refresh, GoToPage
  <2>. QED
    BY <2>1, FreeReadKeeps
<1>2. ASSUME NEW s \in Schedules, PauseSchedule(s) \/ ResumeSchedule(s)
      PROVE  IInv'
  <2>1. PICK op \in {"pause", "resume", "trigger"} : RunRowAction(s, op)
    BY <1>2 DEF PauseSchedule, ResumeSchedule
  <2>2. notice' = notice /\ UNCHANGED <<listing, form, accepted, done>>
    BY <1>2 DEF PauseSchedule, ResumeSchedule, server
  <2>. QED
    BY <2>1, <2>2, RowActionKeeps
<1>3. CASE ConfirmTrigger
  <2>1. /\ notice.kind = "question" /\ RunRowAction(notice.row, "trigger")
        /\ notice' = NoNotice /\ UNCHANGED <<listing, form, accepted, done>>
    BY <1>3 DEF ConfirmTrigger, server
  <2>2. notice.row \in Schedules
    BY <2>1 DEF IInv, TypeInv
  <2>. QED
    BY <2>1, <2>2, RowActionKeeps
<1>4. ASSUME NEW s \in Schedules, AskTrigger(s)
      PROVE  IInv'
  BY <1>4, AskTriggerKeeps
<1>5. CASE (\E s \in Schedules : ShowBackfillDialog(s)) \/ CloseBackfillDialog \/ ExecuteBackfill
  BY <1>5, FormKeeps
<1>6. CASE DismissNotice
  BY <1>6, DismissNoticeKeeps
<1>. QED
  BY <1>1, <1>2, <1>3, <1>4, <1>5, <1>6 DEF Operator

LEMMA NextKeeps ==
    ASSUME IInv, [Next]_vars
    PROVE  IInv'
<1>1. CASE Mount \/ Tick
  <2>1. LoadData(Nothing) /\ UNCHANGED actions
    BY <1>1 DEF Mount, Tick
  <2>. QED
    BY <2>1, FreeReadKeeps
<1>2. CASE Operator
  BY <1>2, OperatorKeeps
<1>3. CASE ServerReads
  BY <1>3, ServerReadsKeeps
<1>4. ASSUME NEW q \in reads, SettleList(q)
      PROVE  IInv'
  BY <1>4, SettleListKeeps
<1>5. ASSUME NEW p \in posts, ActionAnswered(p)
      PROVE  IInv'
  BY <1>5, ActionAnsweredKeeps
<1>6. ASSUME NEW p \in posts, ActionFailed(p)
      PROVE  IInv'
  BY <1>6, ActionFailedKeeps
<1>7. ASSUME NEW p \in posts, Perform(p) \/ Decline(p)
      PROVE  IInv'
  BY <1>7, ServerKeeps
<1>8. ASSUME NEW s \in Schedules, NEW st \in {"active", "paused", "deleted"},
             ChangedElsewhere(s, st)
      PROVE  IInv'
  <2>1. UNCHANGED <<listing, actions, done>>
    BY <1>8 DEF ChangedElsewhere
  <2>. QED
    BY <2>1, PageLeftAlone
<1>9. CASE UNCHANGED vars
  BY <1>9, PageLeftAlone DEF vars, server
<1>. QED
  BY <1>1, <1>2, <1>3, <1>4, <1>5, <1>6, <1>7, <1>8, <1>9 DEF Next
-----------------------------------------------------------------------------
(***************************************************************************)
(* What follows.                                                           *)
(***************************************************************************)
\* The page settles with the rows the accepted actions led to.
LEMMA SeenWhenSettled == IInv => AcceptedActionShown
<1>. SUFFICES ASSUME IInv, ~loading, ~refreshing, ~error, notice = NoNotice
              PROVE  accepted \cap done \subseteq table.seen
  BY DEF AcceptedActionShown
<1>1. notice.kind \notin {"triggered", "backfilled"}
  BY DEF NoNotice
<1>2. listRequest > 0 => ~InFlight
  BY DEF IInv, ListAwaited
<1>3. listRequest = 0 => ~InFlight
  BY DEF IInv, ReadsNumbered, InFlight
<1>4. ~InFlight
  BY <1>2, <1>3 DEF IInv, TypeInv
<1>. QED
  BY <1>1, <1>4 DEF IInv, AcceptedSeen

\* One holder of each disabled row, none of the others.
LEMMA OneHolder ==
    ASSUME IInv, NEW s \in Schedules
    PROVE  Cardinality(Holders(s)) = IF s \in pendingRowKeys THEN 1 ELSE 0
<1>. DEFINE P == {<<"post", p.id>> : p \in {p \in posts : p.row = s /\ p.op # "backfill" /\ p.waiting}}
            R == {<<"read", q.id>> : q \in {q \in reads : q.releases = s}}
            N == {<<"notice", 0>> : n \in {n \in {notice} : n.row = s /\ n.kind \in {"triggered", "failed"}}}
<1>1. Holders(s) = P \cup R \cup N
  BY DEF Holders
<1>2. (s \in pendingRowKeys <=> Held(s)) /\ HeldOnce(s)
  BY DEF IInv, RowsHeld
<1>3. P # {} <=> \E p \in posts : PostHolds(p, s)
  BY DEF PostHolds
<1>4. R # {} <=> \E q \in reads : q.releases = s
  OBVIOUS
<1>5. N # {} <=> NoticeHolds(s)
  BY DEF NoticeHolds
<1>6. \A x, y \in P : x = y
  BY <1>2 DEF HeldOnce, PostHolds
<1>7. \A x, y \in R : x = y
  BY <1>2 DEF HeldOnce
<1>8. \A x, y \in N : x = y
  OBVIOUS
<1>9. /\ ~(P # {} /\ R # {})
      /\ ~(P # {} /\ N # {})
      /\ ~(R # {} /\ N # {})
  BY <1>2, <1>3, <1>4, <1>5 DEF HeldOnce
<1>10. s \in pendingRowKeys <=> P # {} \/ R # {} \/ N # {}
  BY <1>2, <1>3, <1>4, <1>5 DEF Held
<1>. HIDE DEF P, R, N
<1>11. \A x, y \in Holders(s) : x = y
  BY <1>1, <1>6, <1>7, <1>8, <1>9
<1>12. CASE s \in pendingRowKeys
  <2>1. PICK h : h \in Holders(s)
    BY <1>1, <1>10, <1>12
  <2>2. Holders(s) = {h}
    BY <1>11, <2>1
  <2>. QED
    BY <1>12, <2>2, FS_Singleton
<1>13. CASE s \notin pendingRowKeys
  <2>1. Holders(s) = {}
    BY <1>1, <1>10, <1>13
  <2>. QED
    BY <1>13, <2>1, FS_EmptySet
<1>. QED
  BY <1>12, <1>13

\* The inductive invariant, for any number of schedules, page size, reads and
\* actions, with and without failures.
THEOREM Invariance == SafeSpec => []IInv
  BY InitEstablishes, NextKeeps, PTL DEF SafeSpec

\* Waits are owned: the page waits for its newest read and no other, and the
\* buttons of a row are disabled by one action of the row that is under way,
\* from its click to the read that shows it, however reads, answers, failures
\* and notices replace each other (runRowAction, executeBackfill, loadData).
THEOREM WaitsOwned == SafeSpec => []WaitsAreOwned
<1>1. IInv => WaitsAreOwned
  BY OneHolder DEF IInv, ListAwaited, InFlight, WaitsAreOwned
<1>. QED
  BY <1>1, Invariance, PTL

\* The table on display, the filter form and the page the next read asks for
\* agree, whichever answers were superseded (loadData).
THEOREM TableMatches == SafeSpec => []TableAnswersRequest
<1>1. IInv => TableAnswersRequest
  BY DEF IInv, AnswersRequest
<1>. QED
  BY <1>1, Invariance, PTL

\* No accepted action settles with rows read before it took effect.
THEOREM AcceptedShown == SafeSpec => []AcceptedActionShown
  BY SeenWhenSettled, Invariance, PTL
-----------------------------------------------------------------------------
(***************************************************************************)
(* The dialogs over the table.                                             *)
(***************************************************************************)

\* An event in the list of a history dialog.
HistoryEvent == [schedule : Listed, sequence : Nat]

HistoryRead == [id : Nat, schedule : Listed, after : Nat, reset : BOOLEAN, since : Nat]

DialogsTypeOK ==
    /\ events \in [Listed -> Nat]
    /\ issued \in Nat
    /\ showDetail => detailSchedule.schedule \in Listed
    /\ showHistory => historySchedule \in Listed
    /\ historyReads \subseteq HistoryRead
    /\ historyEvents \in Seq(HistoryEvent)
    /\ historyNextCursor \in Nat
    /\ historyHasMore \in BOOLEAN
    /\ overlapped \in BOOLEAN

\* A dialog that was opened shows nothing but details of the row it names.
DetailNamed == detail # NoDetail => detail.schedule = detailSchedule.schedule

\* The first n events of a schedule.
FirstEvents(list, s, n) ==
    Len(list) = n /\ \A i \in 1..n : list[i] = [schedule |-> s, sequence |-> i]

\* While no two reads overlap: one read at most is in flight, for the schedule
\* the dialog names or named last, and it goes on where the list ends.
OneReadOnly ==
    /\ \A p, q \in historyReads : p = q
    /\ \A q \in historyReads :
          /\ q.schedule = historySchedule
          /\ q.after = IF q.reset THEN 0 ELSE Len(historyEvents)
          /\ q.after <= q.since

ListIsFirstEvents ==
    /\ FirstEvents(historyEvents, historySchedule, Len(historyEvents))
    /\ historyHasMore =>
          /\ historyNextCursor = Len(historyEvents)
          /\ historySchedule \in Listed
          /\ historyNextCursor <= events[historySchedule]

HistoryInOrder == ~overlapped => OneReadOnly /\ ListIsFirstEvents

DialogsInv == DialogsTypeOK /\ DetailNamed /\ HistoryInOrder

\* The server's page goes on where the cursor stands.
LEMMA PageGoesOn ==
    ASSUME NEW s \in Listed, NEW after \in Nat, NEW n \in Nat
    PROVE  /\ Page(s, after, n).events \in Seq(HistoryEvent)
           /\ Page(s, after, n).hasMore \in BOOLEAN
           /\ Page(s, after, n).nextCursor \in Nat
           /\ \A i \in 1..Len(Page(s, after, n).events) :
                 Page(s, after, n).events[i] = [schedule |-> s, sequence |-> after + i]
           /\ after <= n =>
                 /\ Len(Page(s, after, n).events) + after <= n
                 /\ Page(s, after, n).hasMore =>
                       Page(s, after, n).nextCursor = after + Len(Page(s, after, n).events)
<1> DEFINE last == IF n > after + PageLimit THEN after + PageLimit ELSE n
           size == IF last > after THEN last - after ELSE 0
           list == [i \in 1..(last - after) |-> [schedule |-> s, sequence |-> after + i]]
<1>1. PageLimit \in Nat /\ PageLimit > 0
  BY ScheduleDialogsAssumption
<1>2. /\ last \in Nat /\ last <= n /\ size \in Nat /\ 1..(last - after) = 1..size
      /\ after <= n => after + size = last
  BY <1>1
<1>3. /\ Page(s, after, n).events = list
      /\ Page(s, after, n).hasMore = (n > last)
      /\ Page(s, after, n).nextCursor = IF n > last THEN last ELSE NoCursor
  BY DEF Page
<1> HIDE DEF last, size
<1>4. list \in Seq(HistoryEvent) /\ Len(list) = size
  <2>1. \A i \in 1..size : [schedule |-> s, sequence |-> after + i] \in HistoryEvent
    BY <1>2 DEF HistoryEvent
  <2>2. list = [i \in 1..size |-> [schedule |-> s, sequence |-> after + i]]
    BY <1>2
  <2>3. list \in [1..size -> HistoryEvent]
    BY <2>1, <2>2
  <2> HIDE DEF list
  <2>4. DOMAIN list = 1..size
    BY <2>2
  <2> QED
    BY <1>2, <2>3, <2>4
<1>5. \A i \in 1..Len(list) : list[i] = [schedule |-> s, sequence |-> after + i]
  BY <1>2, <1>4
<1>6. (n > last) \in BOOLEAN /\ (IF n > last THEN last ELSE NoCursor) \in Nat
  BY <1>2 DEF NoCursor
<1> HIDE DEF list
<1>7. after <= n /\ Page(s, after, n).hasMore => Page(s, after, n).nextCursor = after + Len(list)
  BY <1>2, <1>3, <1>4
<1>8. after <= n => Len(list) + after <= n
  BY <1>2, <1>4
<1> QED
  BY <1>3, <1>4, <1>5, <1>6, <1>7, <1>8

\* A page after the first events of a schedule makes more of them.
LEMMA AppendKeepsOrder ==
    ASSUME NEW s \in Listed, NEW list \in Seq(HistoryEvent), NEW page \in Seq(HistoryEvent),
           NEW n \in Nat, FirstEvents(list, s, n),
           \A i \in 1..Len(page) : page[i] = [schedule |-> s, sequence |-> n + i]
    PROVE  /\ list \o page \in Seq(HistoryEvent)
           /\ FirstEvents(list \o page, s, n + Len(page))
<1>1. /\ list \o page \in Seq(HistoryEvent)
      /\ Len(list) = n /\ Len(page) \in Nat /\ Len(list \o page) = n + Len(page)
      /\ \A i \in 1..(n + Len(page)) :
            (list \o page)[i] = IF i <= n THEN list[i] ELSE page[i - n]
  BY DEF FirstEvents
<1>2. ASSUME NEW i \in 1..(n + Len(page))
      PROVE  (list \o page)[i] = [schedule |-> s, sequence |-> i]
  <2>1. CASE i <= n
    BY <1>1, <2>1 DEF FirstEvents
  <2>2. CASE i > n
    <3>1. i - n \in 1..Len(page) /\ n + (i - n) = i
      BY <1>1, <2>2
    <3>2. page[i - n] = [schedule |-> s, sequence |-> n + (i - n)]
      BY <3>1
    <3> QED
      BY <1>1, <2>2, <3>1, <3>2
  <2> QED
    BY <1>1, <2>1, <2>2
<1> QED
  BY <1>1, <1>2 DEF FirstEvents

\* A read that is issued while none is in flight is the only one.
LEMMA ReadIsIssued ==
    ASSUME DialogsTypeOK, NEW s \in Listed, NEW after \in Nat, NEW reset \in BOOLEAN,
           ReadHistory(s, after, reset)
    PROVE  /\ issued' \in Nat /\ overlapped' \in BOOLEAN /\ historyReads' \subseteq HistoryRead
           /\ ~overlapped' =>
                 /\ ~overlapped
                 /\ \A q \in historyReads' :
                       q = [id |-> issued + 1, schedule |-> s, after |-> after,
                            reset |-> reset, since |-> events[s]]
<1> DEFINE new == [id |-> issued + 1, schedule |-> s, after |-> after, reset |-> reset,
                   since |-> events[s]]
<1>1. events[s] \in Nat /\ issued \in Nat /\ historyReads \subseteq HistoryRead
      /\ overlapped \in BOOLEAN
  BY DEF DialogsTypeOK
<1>2. new \in HistoryRead
  BY <1>1 DEF HistoryRead
<1>3. /\ issued' = issued + 1 /\ historyReads' = historyReads \cup {new}
      /\ overlapped' = (overlapped \/ historyReads # {})
  BY DEF ReadHistory
<1> HIDE DEF new
<1>4. ~overlapped' => ~overlapped /\ historyReads' = {new}
  BY <1>3
<1>5. overlapped' \in BOOLEAN
  BY <1>3
<1>6. issued' \in Nat /\ historyReads' \subseteq HistoryRead
  BY <1>1, <1>2, <1>3
<1>7. ~overlapped' => \A q \in historyReads' : q = new
  BY <1>4
<1> USE DEF new
<1> QED
  BY <1>4, <1>5, <1>6, <1>7

\* Reading from the first page on empties the list, whatever was in flight.
LEMMA ReloadKeepsOrder ==
    ASSUME DialogsTypeOK, NEW s \in Listed, ReloadHistory(s), events' = events,
           historySchedule' = s
    PROVE  /\ historyReads' \subseteq HistoryRead /\ issued' \in Nat /\ overlapped' \in BOOLEAN
           /\ historyEvents' \in Seq(HistoryEvent) /\ historyNextCursor' \in Nat
           /\ historyHasMore' \in BOOLEAN
           /\ HistoryInOrder'
<1>1. /\ ReadHistory(s, 0, TRUE)
      /\ historyEvents' = <<>> /\ historyHasMore' = FALSE /\ historyNextCursor' = 0
  BY DEF ReloadHistory, NoCursor
<1>2. /\ issued' \in Nat /\ overlapped' \in BOOLEAN /\ historyReads' \subseteq HistoryRead
      /\ ~overlapped' =>
            \A q \in historyReads' :
               q = [id |-> issued + 1, schedule |-> s, after |-> 0,
                    reset |-> TRUE, since |-> events[s]]
  BY <1>1, ReadIsIssued
<1>3. historyEvents' \in Seq(HistoryEvent)
  BY <1>1
<1>4. events[s] \in Nat
  BY DEF DialogsTypeOK
<1>5. ASSUME ~overlapped'
      PROVE  OneReadOnly'
  <2>1. \A q \in historyReads' :
           q.schedule = s /\ q.reset = TRUE /\ q.after = 0 /\ q.since = events[s]
    BY <1>2, <1>5
  <2>2. \A p, q \in historyReads' : p = q
    BY <1>2, <1>5
  <2> QED
    BY <1>4, <2>1, <2>2 DEF OneReadOnly
<1>6. ListIsFirstEvents'
  BY <1>1 DEF ListIsFirstEvents, FirstEvents
<1> QED
  BY <1>1, <1>2, <1>3, <1>5, <1>6 DEF HistoryInOrder

\* What is neither read, listed nor named stays in order; a schedule only gains
\* events.
LEMMA OrderKept ==
    ASSUME DialogsInv, historyReads' \subseteq historyReads,
           UNCHANGED <<historyEvents, historySchedule, historyHasMore, historyNextCursor, overlapped>>,
           events' \in [Listed -> Nat], \A s \in Listed : events[s] <= events'[s]
    PROVE  HistoryInOrder'
<1>1. ASSUME ~overlapped
      PROVE  OneReadOnly' /\ ListIsFirstEvents'
  <2>1. OneReadOnly /\ ListIsFirstEvents /\ events \in [Listed -> Nat] /\ historyNextCursor \in Nat
    BY <1>1 DEF DialogsInv, DialogsTypeOK, HistoryInOrder
  <2>2. OneReadOnly'
    BY <2>1 DEF OneReadOnly
  <2>3. ListIsFirstEvents'
    BY <2>1 DEF ListIsFirstEvents, FirstEvents
  <2> QED
    BY <2>2, <2>3
<1> QED
  BY <1>1 DEF HistoryInOrder

LEMMA HistoryArrivesKeeps ==
    ASSUME DialogsInv, NEW q \in historyReads, HistoryArrives(q)
    PROVE  DialogsInv'
<1>1. PICK n \in q.since..events[q.schedule] : AppendPage(q, Page(q.schedule, q.after, n))
  BY DEF HistoryArrives
<1> DEFINE page == Page(q.schedule, q.after, n)
<1>2. /\ q \in HistoryRead /\ DialogsTypeOK
      /\ q.schedule \in Listed /\ q.after \in Nat /\ q.since \in Nat
      /\ n \in Nat /\ q.since <= n /\ n <= events[q.schedule]
      /\ historyReads' = historyReads \ {q} /\ historySchedule' = historySchedule
      /\ UNCHANGED <<issued, details, showHistory, overlapped, events>>
  BY DEF DialogsInv, DialogsTypeOK, HistoryRead, HistoryArrives, HistorySettled
<1>3. /\ historyEvents' = IF q.reset THEN page.events ELSE historyEvents \o page.events
      /\ historyHasMore' = page.hasMore /\ historyNextCursor' = page.nextCursor
  BY <1>1 DEF AppendPage
<1>4. /\ page.events \in Seq(HistoryEvent)
      /\ page.hasMore \in BOOLEAN
      /\ page.nextCursor \in Nat
      /\ \A i \in 1..Len(page.events) :
            page.events[i] = [schedule |-> q.schedule, sequence |-> q.after + i]
      /\ q.after <= n =>
            /\ Len(page.events) + q.after <= n
            /\ page.hasMore => page.nextCursor = q.after + Len(page.events)
  BY <1>2, PageGoesOn
<1> HIDE DEF page
<1>5. DialogsTypeOK'
  <2>1. historyEvents' \in Seq(HistoryEvent)
    BY <1>2, <1>3, <1>4 DEF DialogsTypeOK
  <2> QED
    BY <1>2, <1>3, <1>4, <2>1 DEF DialogsTypeOK, details
<1>6. DetailNamed'
  BY <1>2 DEF DialogsInv, DetailNamed, details, NoDetail
<1>7. ASSUME ~overlapped
      PROVE  OneReadOnly' /\ ListIsFirstEvents'
  <2>1. /\ OneReadOnly /\ ListIsFirstEvents
        /\ historyReads = {q} /\ q.schedule = historySchedule
        /\ q.after = IF q.reset THEN 0 ELSE Len(historyEvents)
        /\ q.after <= n
    BY <1>2, <1>7 DEF DialogsInv, HistoryInOrder, OneReadOnly
  <2>2. historyReads' = {}
    BY <1>2, <2>1
  <2>3. OneReadOnly'
    BY <2>2 DEF OneReadOnly
  <2>4. FirstEvents(historyEvents', historySchedule, q.after + Len(page.events))
    <3>1. CASE q.reset
      BY <1>2, <1>3, <1>4, <2>1, <3>1 DEF FirstEvents
    <3>2. CASE ~q.reset
      <4>1. FirstEvents(historyEvents, historySchedule, q.after)
        BY <2>1, <3>2 DEF ListIsFirstEvents
      <4> QED
        BY <1>2, <1>3, <1>4, <2>1, <3>2, <4>1, AppendKeepsOrder DEF DialogsTypeOK
    <3> QED
      BY <3>1, <3>2
  <2>5. Len(historyEvents') = q.after + Len(page.events)
    BY <2>4 DEF FirstEvents
  <2>6. historyHasMore' => historyNextCursor' = Len(historyEvents')
                           /\ historyNextCursor' <= events[q.schedule]
    <3>1. events[q.schedule] \in Nat /\ Len(page.events) \in Nat
      BY <1>2, <1>4 DEF DialogsTypeOK
    <3>2. page.hasMore => /\ page.nextCursor = q.after + Len(page.events)
                          /\ page.nextCursor <= n
      <4>1. page.hasMore => page.nextCursor = q.after + Len(page.events)
        BY <1>4, <2>1
      <4>2. Len(page.events) + q.after <= n
        BY <1>4, <2>1
      <4>3. \A x, y \in Nat : x + y <= n => y + x <= n
        BY <1>2
      <4>4. q.after + Len(page.events) <= n
        BY <1>2, <3>1, <4>2, <4>3
      <4> QED
        BY <4>1, <4>4
    <3>3. page.hasMore => page.nextCursor <= events[q.schedule]
      BY <1>2, <1>4, <3>1, <3>2
    <3> QED
      BY <1>3, <2>5, <3>2, <3>3
  <2>7. ListIsFirstEvents'
    BY <1>2, <2>1, <2>4, <2>5, <2>6 DEF ListIsFirstEvents, FirstEvents
  <2> QED
    BY <2>3, <2>7
<1> QED
  BY <1>2, <1>5, <1>6, <1>7 DEF DialogsInv, HistoryInOrder

LEMMA HistoryFailsKeeps ==
    ASSUME DialogsInv, NEW q \in historyReads, HistoryFails(q)
    PROVE  DialogsInv'
<1>1. /\ DialogsTypeOK /\ DetailNamed /\ historyReads' \subseteq historyReads
      /\ UNCHANGED <<issued, details, showHistory, historySchedule, historyEvents,
                     historyHasMore, historyNextCursor, overlapped, events>>
  BY DEF DialogsInv, HistoryFails, HistorySettled
<1>2. DialogsTypeOK' /\ DetailNamed'
  BY <1>1 DEF DialogsTypeOK, DetailNamed, details, NoDetail
<1>3. \A s \in Listed : events[s] <= events'[s]
  BY <1>1 DEF DialogsTypeOK
<1>4. HistoryInOrder'
  BY <1>1, <1>3, OrderKept DEF DialogsTypeOK
<1> QED
  BY <1>2, <1>4 DEF DialogsInv
-----------------------------------------------------------------------------
LEMMA ReloadHistoryKeeps ==
    ASSUME DialogsInv, NEW s \in Listed, ReloadHistory(s), events' = events,
           historySchedule' = s, DetailNamed',
           showDetail' => detailSchedule'.schedule \in Listed
    PROVE  DialogsInv'
<1>1. DialogsTypeOK
  BY DEF DialogsInv
<1>2. /\ historyReads' \subseteq HistoryRead /\ issued' \in Nat /\ overlapped' \in BOOLEAN
      /\ historyEvents' \in Seq(HistoryEvent) /\ historyNextCursor' \in Nat
      /\ historyHasMore' \in BOOLEAN
      /\ HistoryInOrder'
  BY <1>1, ReloadKeepsOrder
<1> QED
  BY <1>1, <1>2 DEF DialogsInv, DialogsTypeOK

\* A step that leaves the history as it is, or hides it.
LEMMA HistoryLeftAlone ==
    ASSUME DialogsInv, DetailNamed',
           showDetail' => detailSchedule'.schedule \in Listed,
           showHistory' => showHistory,
           UNCHANGED <<historySchedule, historyEvents, historyHasMore, historyNextCursor,
                       historyReads, overlapped>>,
           issued' \in Nat, events' \in [Listed -> Nat], \A s \in Listed : events[s] <= events'[s]
    PROVE  DialogsInv'
<1>1. DialogsTypeOK'
  BY DEF DialogsInv, DialogsTypeOK
<1>2. HistoryInOrder'
  BY OrderKept
<1> QED
  BY <1>1, <1>2 DEF DialogsInv

LEMMA LoadMoreKeeps ==
    ASSUME DialogsInv, LoadMoreHistoryEvents
    PROVE  DialogsInv'
<1>1. /\ DialogsTypeOK /\ DetailNamed /\ historySchedule \in Listed /\ historyHasMore
      /\ historyNextCursor \in Nat
      /\ ReadHistory(historySchedule, historyNextCursor, FALSE)
      /\ UNCHANGED <<loads, details, showHistory, historySchedule, historyEvents, historyLoading,
                     historyError, historyHasMore, historyNextCursor, events>>
  BY DEF DialogsInv, DialogsTypeOK, LoadMoreHistoryEvents, MayLoadMore
<1>2. /\ issued' \in Nat /\ overlapped' \in BOOLEAN /\ historyReads' \subseteq HistoryRead
      /\ ~overlapped' =>
            /\ ~overlapped
            /\ \A q \in historyReads' :
                  q = [id |-> issued + 1, schedule |-> historySchedule,
                       after |-> historyNextCursor, reset |-> FALSE,
                       since |-> events[historySchedule]]
  BY <1>1, ReadIsIssued
<1>3. DialogsTypeOK' /\ DetailNamed'
  BY <1>1, <1>2 DEF DialogsTypeOK, DetailNamed, details, NoDetail
<1>4. ASSUME ~overlapped'
      PROVE  OneReadOnly' /\ ListIsFirstEvents'
  <2>1. ListIsFirstEvents
    BY <1>2, <1>4 DEF DialogsInv, HistoryInOrder
  <2>2. ListIsFirstEvents'
    BY <1>1, <2>1 DEF ListIsFirstEvents, FirstEvents
  <2>3. historyNextCursor = Len(historyEvents) /\ historyNextCursor <= events[historySchedule]
    BY <1>1, <2>1 DEF ListIsFirstEvents
  <2>4. \A q \in historyReads' :
           /\ q.schedule = historySchedule /\ q.reset = FALSE
           /\ q.after = historyNextCursor /\ q.since = events[historySchedule]
    BY <1>2, <1>4
  <2>5. \A p, q \in historyReads' : p = q
    BY <1>2, <1>4
  <2>6. OneReadOnly'
    BY <1>1, <2>3, <2>4, <2>5 DEF OneReadOnly
  <2> QED
    BY <2>2, <2>6
<1> QED
  BY <1>3, <1>4 DEF DialogsInv, HistoryInOrder

LEMMA DialogsOperatorKeeps ==
    ASSUME DialogsInv, DialogsOperator
    PROVE  DialogsInv'
<1>1. DialogsTypeOK /\ DetailNamed /\ \A s \in Listed : events[s] <= events[s]
  BY DEF DialogsInv, DialogsTypeOK
<1>2. ASSUME NEW s \in Listed, ShowDetailDialog(s)
      PROVE  DialogsInv'
  <2>1. DetailNamed'
    BY <1>2 DEF ShowDetailDialog, DetailNamed, NoDetail
  <2>2. detailSchedule'.schedule \in Listed
    BY <1>2 DEF ShowDetailDialog, Row
  <2>3. issued' \in Nat
    BY <1>1, <1>2 DEF ShowDetailDialog, LoadDetail, DialogsTypeOK
  <2>4. UNCHANGED <<history, events>>
    BY <1>2 DEF ShowDetailDialog
  <2> QED
    BY <1>1, <2>1, <2>2, <2>3, <2>4, HistoryLeftAlone DEF history, DialogsTypeOK
<1>3. ASSUME NEW s \in Listed, ShowHistoryDialog(s)
      PROVE  DialogsInv'
  BY <1>1, <1>3, ReloadHistoryKeeps
     DEF ShowHistoryDialog, OpenHistory, details, DetailNamed, NoDetail, DialogsTypeOK
<1>4. CASE CloseDetailDialog
  BY <1>1, <1>4, HistoryLeftAlone
     DEF CloseDetailDialog, CloseDetail, history, DetailNamed, NoDetail, DialogsTypeOK
<1>5. CASE RetryDetail
  BY <1>1, <1>5, HistoryLeftAlone
     DEF RetryDetail, LoadDetail, history, DetailNamed, NoDetail, DialogsTypeOK
<1>6. CASE OpenHistoryFromDetail
  BY <1>1, <1>6, ReloadHistoryKeeps
     DEF OpenHistoryFromDetail, OpenHistory, CloseDetail, DetailNamed, NoDetail, DialogsTypeOK
<1>7. CASE CloseHistoryDialog
  BY <1>1, <1>7, HistoryLeftAlone
     DEF CloseHistoryDialog, details, DetailNamed, NoDetail, DialogsTypeOK
<1>8. CASE RetryHistory
  BY <1>1, <1>8, ReloadHistoryKeeps
     DEF RetryHistory, details, DetailNamed, NoDetail, DialogsTypeOK
<1>9. CASE LoadMoreHistoryEvents
  BY <1>9, LoadMoreKeeps
<1> QED
  BY <1>2, <1>3, <1>4, <1>5, <1>6, <1>7, <1>8, <1>9 DEF DialogsOperator

LEMMA SettleDetailKeeps ==
    ASSUME DialogsInv, NEW q \in detailReads, SettleDetail(q)
    PROVE  DialogsInv'
<1>1. /\ DialogsTypeOK /\ DetailNamed /\ \A s \in Listed : events[s] <= events[s]
      /\ UNCHANGED <<issued, showDetail, detailSchedule, history, events>>
  BY DEF DialogsInv, DialogsTypeOK, SettleDetail, DetailArrives, DetailFails
<1>2. detail' = detail \/ (detailSchedule = q.row /\ detail'.schedule = q.row.schedule)
  BY DEF SettleDetail, DetailArrives, DetailFails, Named
<1>3. DetailNamed'
  BY <1>1, <1>2 DEF DetailNamed, NoDetail
<1> QED
  BY <1>1, <1>3, HistoryLeftAlone DEF history, DialogsTypeOK

LEMMA ServerStepKeepsDialogs ==
    ASSUME DialogsInv, ReloadRows \/ \E s \in Listed : RecordEvent(s)
    PROVE  DialogsInv'
<1>1. DialogsTypeOK /\ DetailNamed
  BY DEF DialogsInv
<1>2. UNCHANGED <<issued, details, history>>
  BY DEF ReloadRows, RecordEvent
<1>3. events' \in [Listed -> Nat] /\ \A s \in Listed : events[s] <= events'[s]
  BY <1>1 DEF ReloadRows, RecordEvent, DialogsTypeOK
<1>4. DetailNamed'
  BY <1>1, <1>2 DEF DetailNamed, details, NoDetail
<1> QED
  BY <1>1, <1>2, <1>3, <1>4, HistoryLeftAlone DEF details, history, DialogsTypeOK

LEMMA DialogsNextKeeps ==
    ASSUME DialogsInv, [DialogsNext]_dialogsVars
    PROVE  DialogsInv'
<1>1. CASE UNCHANGED dialogsVars
  BY <1>1 DEF dialogsVars, details, history, DialogsInv, DialogsTypeOK, DetailNamed, NoDetail,
     HistoryInOrder, OneReadOnly, ListIsFirstEvents, FirstEvents
<1> QED
  BY <1>1, DialogsOperatorKeeps, SettleDetailKeeps, HistoryArrivesKeeps, HistoryFailsKeeps,
     ServerStepKeepsDialogs DEF DialogsNext, SettleHistory

LEMMA DialogsInitEstablishes == DialogsInit => DialogsInv
<1> SUFFICES ASSUME DialogsInit
             PROVE  DialogsInv
  OBVIOUS
<1>1. events \in [Listed -> Nat]
  BY ScheduleDialogsAssumption DEF DialogsInit
<1>2. historyEvents \in Seq(HistoryEvent)
  BY DEF DialogsInit
<1>3. DialogsTypeOK
  BY <1>1, <1>2 DEF DialogsInit, DialogsTypeOK, NoCursor
<1> QED
  BY <1>3 DEF DialogsInit, DialogsInv, DetailNamed, HistoryInOrder, OneReadOnly,
     ListIsFirstEvents, FirstEvents

\* The inductive invariant of the dialogs, for any number of schedules, reads
\* and events, and any page size.
THEOREM DialogsInvariance == DialogsSafeSpec => []DialogsInv
  BY DialogsInitEstablishes, DialogsNextKeeps, PTL DEF DialogsSafeSpec

\* The details on display are those of the schedule the dialog names, however
\* late an earlier dialog's read is answered (loadDetail compares the row).
THEOREM DetailNamesSchedule == DialogsSafeSpec => []DetailOfNamedSchedule
<1>1. DialogsInv => DetailOfNamedSchedule
  BY DEF DialogsInv, DetailNamed, DetailOfNamedSchedule
<1> QED
  BY DialogsInvariance, <1>1, PTL

\* The history on display has no gap and no repetition, through failed pages,
\* retries and events recorded meanwhile, while no two reads overlap
\* (loadHistoryEvents and the cursor of the history endpoint).
THEOREM HistoryHasNoGap == DialogsSafeSpec => []HistoryGapFree
<1>1. DialogsInv => HistoryGapFree
  <2> SUFFICES ASSUME DialogsInv, ~overlapped
               PROVE  /\ \A i \in DOMAIN historyEvents :
                            historyEvents[i] = [schedule |-> historySchedule, sequence |-> i]
                      /\ historyHasMore => historyNextCursor = Len(historyEvents)
    BY DEF HistoryGapFree
  <2>1. historyEvents \in Seq(HistoryEvent) /\ ListIsFirstEvents
    BY DEF DialogsInv, DialogsTypeOK, HistoryInOrder
  <2>2. DOMAIN historyEvents = 1..Len(historyEvents)
    BY <2>1
  <2> QED
    BY <2>1, <2>2 DEF ListIsFirstEvents, FirstEvents
<1> QED
  BY DialogsInvariance, <1>1, PTL
-----------------------------------------------------------------------------
(***************************************************************************)
(* What the view tells of the schedules it shows (ScheduleFigures), for    *)
(* every answer of the engine.                                             *)
(***************************************************************************)
LEMMA KeptSet ==
    ASSUME NEW s, NEW n \in Nat, NEW places \in SUBSET (1..n)
    PROVE  ToSet(At(places, s)) = {s[i] : i \in places}
<1>1. \A m \in DOMAIN At(places, s) : \E i \in places : At(places, s)[m] = s[i]
  BY KeptFrom
<1>2. \A i \in places : \E m \in DOMAIN At(places, s) : At(places, s)[m] = s[i]
  BY KeptAll
<1> QED BY <1>1, <1>2 DEF ToSet

\* A namespace, where there is one, has a name.
NamespaceNamed(schedule) == Has(schedule, "namespace") => schedule.namespace # Absent

\* Two schedules share a row's key exactly if they share the request, whatever
\* fields the engine leaves out (rowKey and the calls of the row's actions).
THEOREM RowsAreNamed ==
    ASSUME NEW one, NEW other, NamespaceNamed(one), NamespaceNamed(other)
    PROVE  RequestNamesTheRow(one, other)
<1>1. \A s : FirstOf(s, <<"namespace">>) = IF Has(s, "namespace") THEN s.namespace ELSE Absent
  BY FirstOfOne
<1>2. \A s : ScheduleRowKey(s) = <<IF Has(s, "namespace") THEN s.namespace ELSE Absent, ScheduleId(s)>>
  BY <1>1 DEF ScheduleRowKey
<1> QED BY <1>2 DEF RequestNamesTheRow, ScheduleRequest, NamespaceNamed

\* Of the outcomes only "failed" is red.
LEMMA TonesAre ==
    ASSUME NEW outcome
    PROVE  /\ OutcomeTone(outcome) = "danger" <=> outcome = "failed"
           /\ OutcomeTone(outcome) \in {"success", "warning", "danger", "muted"}
  BY DEF OutcomeTone, Outcomes

\* What is recorded of a schedule's fires: times and reasons are no words of
\* the view, skipped triggers are counted.
FiresAreRecorded(schedule) ==
    /\ Has(schedule, "last_fired_at") => schedule.last_fired_at \notin {"Never", Absent}
    /\ Has(schedule, "last_outcome") /\ Has(schedule.last_outcome, "at") =>
          schedule.last_outcome.at \notin {"Never", Absent}
    /\ Has(schedule, "last_outcome") /\ Has(schedule.last_outcome, "reason") =>
          schedule.last_outcome.reason # Absent

LEMMA LastResultIs ==
    ASSUME NEW s, NEW r, r = ScheduleLastResult(s)
    PROVE  LET fired == IF Has(s, "last_fired_at") THEN s.last_fired_at ELSE Absent
               known == Has(s, "last_outcome") /\ Has(s.last_outcome, "outcome")
           IN  /\ known =>
                    /\ r.state = "recorded" /\ r.outcome = s.last_outcome.outcome
                    /\ r.tone = OutcomeTone(s.last_outcome.outcome)
                    /\ r.at = IF Has(s.last_outcome, "at") THEN s.last_outcome.at ELSE fired
                    /\ r.reason = IF Has(s.last_outcome, "reason") THEN s.last_outcome.reason
                                  ELSE Absent
               /\ ~ known =>
                    /\ r.state = IF \/ Has(s, "last_fired_at") \/ Has(s, "last_skipped_at")
                                    \/ Has(s, "last_skip_reason")
                                    \/ Has(s, "skipped_trigger_count") /\ s.skipped_trigger_count > 0
                                 THEN "unreported" ELSE "never"
                    /\ r.at = fired
<1>1. \A of, field : FirstOf(of, <<field>>) = IF Has(of, field) THEN of[field] ELSE Absent
  BY FirstOfOne
<1> DEFINE last == IF Has(s, "last_outcome") THEN s.last_outcome ELSE <<>>
<1>2. Has(last, "outcome") <=> Has(s, "last_outcome") /\ Has(s.last_outcome, "outcome")
  BY DEF Has
<1>3. CASE Has(s, "last_outcome") /\ Has(s.last_outcome, "outcome")
  BY <1>1, <1>2, <1>3 DEF ScheduleLastResult
<1>4. CASE ~ (Has(s, "last_outcome") /\ Has(s.last_outcome, "outcome"))
  BY <1>1, <1>2, <1>4 DEF ScheduleLastResult
<1> QED BY <1>3, <1>4

\* "Never", a failure and its reason are told of a schedule that has them, and
\* of no other, in the row and in the details (scheduleLastResult).
THEOREM LastResultsTold ==
    ASSUME NEW schedule, FiresAreRecorded(schedule)
    PROVE  LastResultIsTold(schedule)
<1> DEFINE r == ScheduleLastResult(schedule)
           fired == IF Has(schedule, "last_fired_at") THEN schedule.last_fired_at ELSE Absent
           last == schedule.last_outcome
           cell == LastResultCell(schedule)
           said == DetailLastResult(schedule)
           skipped == Has(schedule, "skipped_trigger_count") /\ schedule.skipped_trigger_count > 0
<1>1. CASE Has(schedule, "last_outcome") /\ Has(schedule.last_outcome, "outcome")
  <2>1. /\ r.state = "recorded" /\ r.outcome = last.outcome /\ r.tone = OutcomeTone(last.outcome)
        /\ r.at = IF Has(last, "at") THEN last.at ELSE fired
        /\ r.reason = IF Has(last, "reason") THEN last.reason ELSE Absent
    BY <1>1, LastResultIs
  <2>2. r.at # "Never"
    BY <2>1, <1>1 DEF FiresAreRecorded, Absent
  <2>3. cell = {<<"at", r.at>>} \cup {<<r.tone, r.outcome>>}
                  \cup When(r.reason # Absent, {<<"reason", r.reason>>})
    BY <2>1 DEF LastResultCell, When, Absent
  <2>4. said = {<<r.tone, r.outcome>>} \cup When(r.at # Absent, {<<"at", r.at>>})
                  \cup When(r.reason # Absent, {<<"reason", r.reason>>})
    BY <2>1 DEF DetailLastResult, When, Absent
  <2>5. /\ r.tone = "danger" <=> r.outcome = "failed"
        /\ r.tone \in {"success", "warning", "danger", "muted"}
    BY <2>1, TonesAre
  <2>6. <<"at", "Never">> \notin cell \cup said
    BY <2>2, <2>3, <2>4, <2>5 DEF When
  <2>7. <<"danger", "failed">> \in cell <=> r.outcome = "failed"
    BY <2>3, <2>5 DEF When
  <2>8. Has(last, "reason") => <<"reason", last.reason>> \in cell
    BY <2>1, <2>3, <1>1 DEF When, FiresAreRecorded
  <2>9. cell \ said \subseteq {<<"at", Absent>>} /\ said \subseteq cell
    BY <2>3, <2>4 DEF When
  <2> QED BY <1>1, <2>1, <2>6, <2>7, <2>8, <2>9 DEF LastResultIsTold, Is
<1>2. CASE ~ (Has(schedule, "last_outcome") /\ Has(schedule.last_outcome, "outcome"))
  <2>1. /\ r.state = IF \/ Has(schedule, "last_fired_at") \/ Has(schedule, "last_skipped_at")
                        \/ Has(schedule, "last_skip_reason") \/ skipped
                     THEN "unreported" ELSE "never"
        /\ r.at = fired
    BY <1>2, LastResultIs
  <2>2. CASE r.state = "never"
    <3>1. r.at = Absent /\ ~ Has(schedule, "last_skipped_at") /\ ~ Has(schedule, "last_skip_reason")
          /\ ~ Has(schedule, "last_fired_at") /\ ~ skipped
      BY <2>1, <2>2
    <3>2. cell = {<<"at", "Never">>} /\ said = {<<"at", "Never">>}
      BY <3>1, <2>2 DEF LastResultCell, DetailLastResult, When, Absent
    <3> QED BY <1>2, <3>1, <3>2 DEF LastResultIsTold, Is, Has
  <2>3. CASE r.state = "unreported"
    <3>1. cell = {<<"at", r.at>>, <<"muted", "Outcome-not-reported">>}
      BY <2>3 DEF LastResultCell, When
    <3>2. said = {<<"muted", "Outcome-not-reported">>} \cup When(r.at # Absent, {<<"at", r.at>>})
      BY <2>3 DEF DetailLastResult, When
    <3>3. r.at # "Never"
      BY <2>1 DEF FiresAreRecorded, Absent
    <3>4. <<"at", "Never">> \notin cell \cup said /\ <<"danger", "failed">> \notin cell
      BY <3>1, <3>2, <3>3 DEF When
    <3>5. cell \ said \subseteq {<<"at", Absent>>} /\ said \subseteq cell
      BY <3>1, <3>2 DEF When
    <3> QED BY <1>2, <3>4, <3>5 DEF LastResultIsTold, Is
  <2> QED BY <2>1, <2>2, <2>3
<1> QED BY <1>1, <1>2

\* Every expression and interval of a schedule is told, "Custom" only of one
\* that has none, however many it has (scheduleCadence).
THEOREM CadencesTold ==
    ASSUME NEW spec, IsTable(spec, "cron_expressions"), IsTable(spec, "intervals")
    PROVE  CadenceIsTold(spec)
<1> DEFINE cron == Rows(spec, "cron_expressions")
           all == Rows(spec, "intervals")
           places == {i \in DOMAIN all : Has(all[i], "every")}
           some == At(places, all)
           lines == CadenceLines(spec)
<1>1. /\ Len(cron) \in Nat /\ DOMAIN cron = 1..Len(cron)
      /\ Len(all) \in Nat /\ DOMAIN all = 1..Len(all)
  BY TableIs
<1>2. Where(all, LAMBDA interval : Has(interval, "every")) = some
  BY DEF Where
<1>3. lines = {<<"Cron", cron[i]>> : i \in DOMAIN cron}
              \cup {<<"Every", some[i].every>> : i \in DOMAIN some}
              \cup When(cron = <<>> /\ some = <<>>, {<<"Custom", Absent>>})
  BY <1>2 DEF CadenceLines, ScheduleCadence
<1> HIDE DEF some, lines
<1>4. /\ \A i \in places : \E m \in DOMAIN some : some[m] = all[i]
      /\ (some = <<>>) <=> (places = {})
  <2>1. places \in SUBSET (1..Len(all))
    BY <1>1
  <2>2. Len(all) \in Nat
    BY <1>1
  <2> DEFINE n == Len(all)
  <2> HIDE DEF places, all, n
  <2>3. n \in Nat /\ places \in SUBSET (1..n)
    BY <2>1, <2>2 DEF n
  <2>4. some = At(places, all)
    BY DEF some
  <2>5. \A i \in places : \E m \in DOMAIN some : some[m] = all[i]
    BY <2>3, <2>4, KeptAll
  <2>6. (some = <<>>) <=> (places = {})
    BY <2>3, <2>4, AtNoPlace
  <2> QED BY <2>5, <2>6
<1>5. \A expression \in ToSet(cron) : <<"Cron", expression>> \in lines
  BY <1>3 DEF ToSet
<1>6. ASSUME NEW interval \in ToSet(all), Has(interval, "every")
      PROVE  <<"Every", interval.every>> \in lines
  <2>1. PICK i \in places : all[i] = interval
    BY <1>6 DEF ToSet
  <2>2. PICK m \in DOMAIN some : some[m] = interval
    BY <1>4, <2>1
  <2> HIDE DEF places
  <2> QED BY <1>3, <2>2
<1>7. (<<"Custom", Absent>> \in lines) <=> (cron = <<>> /\ some = <<>>)
  BY <1>3 DEF When
<1>8. (places = {}) <=> \A interval \in ToSet(all) : ~ Has(interval, "every")
  BY DEF ToSet
<1> QED BY <1>4, <1>5, <1>6, <1>7, <1>8 DEF CadenceIsTold, lines

\* The recent fires are told from the last to the first, and only the failed
\* ones as failures, however many there are (detailRecentActions).
THEOREM FiresTold ==
    ASSUME NEW schedule, IsTable(schedule, "recent_actions")
    PROVE  FiresAreTold(schedule)
<1> DEFINE recorded == Rows(schedule, "recent_actions")
           told == DetailRecentActions(schedule)
           n == Len(recorded)
<1>1. n \in Nat /\ DOMAIN recorded = 1..n
  BY TableIs
<1> DEFINE back == Reverse(recorded)
<1>2. DOMAIN back = 1..n /\ \A i \in 1..n : back[i] = recorded[(n - i) + 1]
  BY <1>1 DEF Reverse
<1>3. told = [i \in DOMAIN back |->
                [tone |-> OutcomeTone(FirstOf(back[i], <<"outcome">>)),
                 lines |-> Shown(back[i], {"fired_at", "outcome", "reason", "workflow_id"})]]
  BY DEF DetailRecentActions
<1> HIDE DEF told, back, recorded
<1>4. Len(told) = n /\ \A i \in 1..n :
         /\ told[i].tone = OutcomeTone(FirstOf(back[i], <<"outcome">>))
         /\ told[i].lines = Shown(back[i], {"fired_at", "outcome", "reason", "workflow_id"})
  BY <1>1, <1>2, <1>3
<1>5. ASSUME NEW i \in 1..n
      PROVE  LET place == n + 1 - i
             IN  /\ told[place].tone = "danger" <=> Is(recorded[i], "outcome", "failed")
                 /\ Has(recorded[i], "reason") => "reason" \in told[place].lines
  <2> DEFINE place == n + 1 - i
  <2>1. place \in 1..n /\ (n - place) + 1 = i
    BY <1>1
  <2>2. back[place] = recorded[i]
    BY <1>2, <2>1
  <2>3. FirstOf(recorded[i], <<"outcome">>) = IF Has(recorded[i], "outcome")
                                              THEN recorded[i].outcome ELSE Absent
    BY FirstOfOne
  <2>4. FirstOf(recorded[i], <<"outcome">>) = "failed" <=> Is(recorded[i], "outcome", "failed")
    BY <2>3 DEF Is, Absent
  <2> HIDE DEF place
  <2>5. (told[place].tone = "danger") <=> Is(recorded[i], "outcome", "failed")
    BY <1>4, <2>1, <2>2, <2>4, TonesAre
  <2>6. Has(recorded[i], "reason") => "reason" \in told[place].lines
    BY <1>4, <2>1, <2>2 DEF Shown, Has
  <2> QED BY <2>5, <2>6 DEF place
<1> QED BY <1>1, <1>4, <1>5 DEF FiresAreTold, told, recorded

\* The figures of an answer to a backfill, where it has them, are those of its
\* results.
FiguresOfResults(response) ==
    LET results == Rows(response, "results")
        CountOf(outcome) == Cardinality({i \in DOMAIN results : results[i] = outcome})
    IN  /\ Has(response, "fires_attempted") => response.fires_attempted = Len(results)
        /\ Has(response, "started_count") => response.started_count = CountOf("started")
        /\ Has(response, "skipped_count") => response.skipped_count = CountOf("skipped")
        /\ Has(response, "failed_count") => response.failed_count = CountOf("failed")

LEMMA CountsOf ==
    ASSUME NEW s, NEW n \in Nat, DOMAIN s = 1..n, NEW x, NEW places,
           places = {i \in DOMAIN s : s[i] = x}
    PROVE  /\ Len(At(places, s)) = Cardinality(places)
           /\ Cardinality(places) \in Nat
           /\ (Cardinality(places) > 0) <=> (x \in ToSet(s))
<1>1. places \in SUBSET (1..n) /\ (x \in ToSet(s)) <=> (places # {})
  BY DEF ToSet
<1>2. /\ Len(At(places, s)) = Cardinality(places) /\ Cardinality(places) \in Nat
      /\ (Cardinality(places) = 0) <=> (places = {})
  BY <1>1, KeptLength
<1>3. (Cardinality(places) > 0) <=> (Cardinality(places) # 0)
  BY <1>2
<1> QED BY <1>1, <1>2, <1>3

\* The notice of a backfill does not hide a fire that failed, nor claim one
\* that did not start, of any number of them (runBackfill).
THEOREM BackfillsTold ==
    ASSUME NEW response, IsTable(response, "results"), FiguresOfResults(response)
    PROVE  BackfillIsTold(response)
<1> DEFINE results == Rows(response, "results")
           counts == BackfillCounts(response)
           n == Len(results)
           CountOf(outcome) == Len(Where(results, LAMBDA result : result = outcome))
           Figure(field, m) == IF Has(response, field) THEN response[field] ELSE m
<1>1. n \in Nat /\ DOMAIN results = 1..n
  BY TableIs
<1>2. counts = [attempted |-> Figure("fires_attempted", n),
                started |-> Figure("started_count", CountOf("started")),
                skipped |-> Figure("skipped_count", CountOf("skipped")),
                failed |-> Figure("failed_count", CountOf("failed"))]
  BY DEF BackfillCounts
<1>3. ASSUME NEW x
      PROVE  /\ CountOf(x) = Cardinality({i \in DOMAIN results : results[i] = x})
             /\ CountOf(x) \in Nat
             /\ CountOf(x) > 0 <=> x \in ToSet(results)
  <2> DEFINE places == {i \in DOMAIN results : results[i] = x}
  <2>1. CountOf(x) = Len(At(places, results))
    BY DEF Where
  <2> HIDE DEF results, CountOf
  <2>2. places = {i \in DOMAIN results : results[i] = x}
    OBVIOUS
  <2> HIDE DEF places
  <2>3. /\ Len(At(places, results)) = Cardinality(places)
        /\ Cardinality(places) \in Nat
        /\ (Cardinality(places) > 0) <=> (x \in ToSet(results))
    BY <1>1, <2>2, CountsOf
  <2> QED BY <2>1, <2>3 DEF places
<1>4. /\ counts.attempted = n
      /\ counts.started = CountOf("started")
      /\ counts.failed = CountOf("failed")
  <2>1. /\ CountOf("started") = Cardinality({i \in DOMAIN results : results[i] = "started"})
        /\ CountOf("failed") = Cardinality({i \in DOMAIN results : results[i] = "failed"})
    BY <1>3
  <2>2. /\ Figure("fires_attempted", n) = n
        /\ Figure("started_count", CountOf("started")) = CountOf("started")
        /\ Figure("failed_count", CountOf("failed")) = CountOf("failed")
    BY <2>1 DEF FiguresOfResults
  <2> HIDE DEF CountOf, Figure, n
  <2> QED BY <1>2, <2>2
<1>5. n = 0 => ToSet(results) = {}
  BY <1>1 DEF ToSet
<1> HIDE DEF counts, CountOf
<1> QED BY <1>1, <1>3, <1>4, <1>5 DEF BackfillIsTold, BackfillIcon, BackfillText, counts

\* The cards count what the rows show, of any list of schedules at any time
\* (summaryCards, nextFireClass).
THEOREM CardsTold ==
    ASSUME NEW schedules, NEW n \in Nat, DOMAIN schedules = 1..n, NEW now
    PROVE  CardsCountRows(schedules, now)
<1> DEFINE Active == {i \in DOMAIN schedules : Is(schedules[i], "status", "active")}
           Paused == {i \in DOMAIN schedules : Is(schedules[i], "status", "paused")}
           Overdue == {i \in DOMAIN schedules : IsOverdue(schedules[i], now)}
           Red == {i \in DOMAIN schedules : NextFireClass(schedules[i], now) = "danger"}
           cards == SummaryCards(schedules, now)
<1>1. /\ cards.active = Len(At(Active, schedules))
      /\ cards.paused = Len(At(Paused, schedules))
      /\ cards.overdue = Len(At(Overdue, schedules))
  BY DEF SummaryCards, Where
<1>2. Red = Overdue
  BY DEF NextFireClass, IsOverdue, Absent
<1>3. Active \subseteq 1..n /\ Paused \subseteq 1..n /\ Overdue \subseteq Active
      /\ Active \cap Paused = {}
  BY DEF Is, IsOverdue
<1> HIDE DEF Active, Paused, Overdue
<1>4. /\ cards.active = Cardinality(Active) /\ Cardinality(Active) \in Nat
      /\ cards.paused = Cardinality(Paused) /\ Cardinality(Paused) \in Nat
      /\ cards.overdue = Cardinality(Overdue)
  <2>1. /\ Active \in SUBSET (1..n) /\ Paused \in SUBSET (1..n) /\ Overdue \in SUBSET (1..n)
    BY <1>3
  <2>2. Len(At(Active, schedules)) = Cardinality(Active) /\ Cardinality(Active) \in Nat
    BY <2>1, KeptLength
  <2>3. Len(At(Paused, schedules)) = Cardinality(Paused) /\ Cardinality(Paused) \in Nat
    BY <2>1, KeptLength
  <2>4. Len(At(Overdue, schedules)) = Cardinality(Overdue)
    BY <2>1, KeptLength
  <2> QED BY <1>1, <2>2, <2>3, <2>4
<1>5. IsFiniteSet(1..n) /\ Cardinality(1..n) = n
  BY FS_Interval
<1>6. IsFiniteSet(Active) /\ IsFiniteSet(Paused)
  BY <1>3, <1>5, FS_Subset
<1>7. Cardinality(Overdue) <= Cardinality(Active)
  BY <1>3, <1>6, FS_Subset
<1>8. Cardinality(Active) + Cardinality(Paused) <= n
  <2>1. Cardinality(Active \cup Paused) = Cardinality(Active) + Cardinality(Paused)
    <3>1. Cardinality(Active \cup Paused) =
             Cardinality(Active) + Cardinality(Paused) - Cardinality(Active \cap Paused)
      BY <1>6, FS_Union
    <3>2. Cardinality({}) = 0
      BY FS_EmptySet
    <3>3. Cardinality(Active \cap Paused) = 0
      BY <1>3, <3>2
    <3> QED BY <1>4, <3>1, <3>3
  <2>2. Active \cup Paused \subseteq 1..n
    BY <1>3
  <2>3. Cardinality(Active \cup Paused) <= Cardinality(1..n)
    BY <1>5, <2>2, FS_Subset
  <2> QED BY <1>5, <2>1, <2>3
<1>9. Len(schedules) = n
  OBVIOUS
<1> HIDE DEF cards, Red
<1>10. cards.overdue = Cardinality(Red)
  BY <1>2, <1>4
<1> QED BY <1>4, <1>7, <1>8, <1>9, <1>10 DEF CardsCountRows, cards, Red

\* The focus stays in a dialog, reaches all of its places and comes back, however
\* many there are (trapDialogFocus).
THEOREM FocusStays ==
    ASSUME NEW n \in Nat
    PROVE  FocusStaysInDialog(n)
<1> USE DEF Outside, TheDialog
<1>1. ASSUME NEW active \in Outside..n, NEW shift \in BOOLEAN
      PROVE  TrapDialogFocus(n, active, shift) \in TheDialog..n
  BY DEF TrapDialogFocus, BrowserMoves
<1>2. \A active \in 1..n : TrapDialogFocus(n, active, FALSE) =
                              IF active = n THEN 1 ELSE active + 1
  BY DEF TrapDialogFocus, BrowserMoves
<1>3. \A active \in 1..n : TrapDialogFocus(n, active, TRUE) =
                              IF active = 1 THEN n ELSE active - 1
  BY DEF TrapDialogFocus, BrowserMoves
<1>4. \A place \in 1..n : \E active \in 1..n : TrapDialogFocus(n, active, FALSE) = place
  <2> SUFFICES ASSUME NEW place \in 1..n
               PROVE  \E active \in 1..n : TrapDialogFocus(n, active, FALSE) = place
    OBVIOUS
  <2>1. CASE place = 1
    <3>1. n \in 1..n
      BY <2>1
    <3> QED BY <2>1, <3>1, <1>2
  <2>2. CASE place # 1
    <3>1. place - 1 \in 1..n /\ place - 1 # n /\ (place - 1) + 1 = place
      BY <2>2
    <3> QED BY <3>1, <1>2
  <2> QED BY <2>1, <2>2
<1>5. \A active \in 1..n : TrapDialogFocus(n, active, FALSE) \in 1..n
  <2>1. \A active \in 1..n : 1 \in 1..n /\ (active # n => active + 1 \in 1..n)
    OBVIOUS
  <2> QED BY <1>2, <2>1
<1>6. {TrapDialogFocus(n, active, FALSE) : active \in 1..n} = 1..n
  BY <1>4, <1>5
<1>7. \A active \in 1..n : TrapDialogFocus(n, TrapDialogFocus(n, active, FALSE), TRUE) = active
  <2> SUFFICES ASSUME NEW active \in 1..n
               PROVE  TrapDialogFocus(n, TrapDialogFocus(n, active, FALSE), TRUE) = active
    OBVIOUS
  <2> DEFINE next == TrapDialogFocus(n, active, FALSE)
  <2>1. next \in 1..n /\ next = IF active = n THEN 1 ELSE active + 1
    BY <1>2, <1>5
  <2> HIDE DEF next
  <2>2. TrapDialogFocus(n, next, TRUE) = IF next = 1 THEN n ELSE next - 1
    BY <2>1, <1>3
  <2>3. CASE active = n
    BY <2>1, <2>2, <2>3 DEF next
  <2>4. CASE active # n
    <3>1. next = active + 1 /\ next # 1 /\ next - 1 = active
      BY <2>1, <2>4
    <3> QED BY <2>2, <3>1 DEF next
  <2> QED BY <2>3, <2>4
<1> QED BY <1>1, <1>6, <1>7 DEF FocusStaysInDialog

LEMMA ShownColumns ==
    ASSUME NEW preferences, IsTable(preferences, "columns")
    PROVE  /\ "schedule_id" \in ToSet(Columns(preferences))
           /\ Has(preferences, "columns") =>
                 ToSet(Columns(preferences)) =
                    (ToSet(preferences.columns) \cap ToSet(ColumnOptions)) \cup {"schedule_id"}
<1> DEFINE all == preferences.columns
           places == {i \in DOMAIN all : all[i] \in ToSet(ColumnOptions)}
           known == At(places, all)
<1>1. "schedule_id" \in ToSet(ColumnOptions)
  BY DEF ToSet, ColumnOptions
<1>2. CASE ~ Has(preferences, "columns")
  BY <1>1, <1>2 DEF Columns
<1>3. CASE Has(preferences, "columns")
  <2>1. PICK n \in Nat : DOMAIN all = 1..n
    BY <1>3 DEF IsTable
  <2>2. Where(all, LAMBDA column : column \in ToSet(ColumnOptions)) = known
    BY DEF Where
  <2>3. Columns(preferences) = IF "schedule_id" \in ToSet(known) THEN known
                               ELSE <<"schedule_id">> \o known
    BY <1>3, <2>2 DEF Columns
  <2>4. places \in SUBSET (1..n)
    BY <2>1
  <2>5. ToSet(known) = ToSet(all) \cap ToSet(ColumnOptions)
    <3>1. ToSet(known) = {all[i] : i \in places}
      <4> HIDE DEF places, all
      <4> QED BY <2>4, KeptSet
    <3> HIDE DEF known
    <3> QED BY <3>1 DEF ToSet
  <2>6. ToSet(<<"schedule_id">> \o known) = ToSet(known) \cup {"schedule_id"}
    <3>1. Len(known) \in Nat /\ DOMAIN known = 1..Len(known)
      <4>1. /\ Len(At(places, all)) = Cardinality(places) /\ Cardinality(places) \in Nat
            /\ DOMAIN At(places, all) = 1..Cardinality(places)
        <5> HIDE DEF places, all
        <5> QED BY <2>4, KeptLength
      <4> HIDE DEF places, all
      <4> QED BY <4>1
    <3> HIDE DEF known
    <3> DEFINE k == Len(known)
               longer == <<"schedule_id">> \o known
    <3>2. /\ DOMAIN longer = 1..(k + 1) /\ longer[1] = "schedule_id"
          /\ \A i \in 2..(k + 1) : longer[i] = known[i - 1]
      BY <3>1
    <3>3. \A i \in 1..k : i + 1 \in 2..(k + 1) /\ (i + 1) - 1 = i
      BY <3>1
    <3>4. \A i \in 1..(k + 1) : i = 1 \/ (i \in 2..(k + 1) /\ i - 1 \in 1..k)
      BY <3>1
    <3>5. 1 \in 1..(k + 1) /\ \A i \in 2..(k + 1) : i \in 1..(k + 1)
      BY <3>1
    <3> HIDE DEF longer, k
    <3>6. DOMAIN known = 1..k
      BY <3>1 DEF k
    <3>7. \A x \in ToSet(known) : x \in ToSet(longer)
      BY <3>2, <3>3, <3>5, <3>6 DEF ToSet
    <3>8. \A x \in ToSet(longer) : x \in ToSet(known) \/ x = "schedule_id"
      BY <3>2, <3>4, <3>6 DEF ToSet
    <3>9. "schedule_id" \in ToSet(longer)
      BY <3>2, <3>5 DEF ToSet
    <3> QED BY <3>7, <3>8, <3>9 DEF longer
  <2> HIDE DEF known, all
  <2>7. ToSet(Columns(preferences)) = ToSet(known) \cup {"schedule_id"}
    BY <2>3, <2>6
  <2> QED BY <2>5, <2>7 DEF all
<1> QED BY <1>2, <1>3

LEMMA Taken ==
    ASSUME NEW columns
    PROVE  /\ Where(ColumnOptions, LAMBDA column : column \in columns) =
                At({i \in DOMAIN ColumnOptions : ColumnOptions[i] \in columns}, ColumnOptions)
           /\ ToSet(At({i \in DOMAIN ColumnOptions : ColumnOptions[i] \in columns}, ColumnOptions)) =
                columns \cap ToSet(ColumnOptions)
           /\ IsTable([columns |-> At({i \in DOMAIN ColumnOptions : ColumnOptions[i] \in columns},
                                      ColumnOptions)], "columns")
<1> DEFINE places == {i \in DOMAIN ColumnOptions : ColumnOptions[i] \in columns}
           taken == At(places, ColumnOptions)
<1>1. Where(ColumnOptions, LAMBDA column : column \in columns) = taken
  BY DEF Where
<1>2. 7 \in Nat /\ places \in SUBSET (1..7)
  BY DEF ColumnOptions
<1>3. ToSet(taken) = {ColumnOptions[i] : i \in places}
  <2> HIDE DEF places
  <2> QED BY <1>2, KeptSet
<1>4. /\ Cardinality(places) \in Nat
      /\ DOMAIN taken = 1..Cardinality(places)
  <2> HIDE DEF places
  <2> QED BY <1>2, KeptLength
<1>5. ToSet(taken) = columns \cap ToSet(ColumnOptions)
  BY <1>3 DEF ToSet
<1> HIDE DEF taken, places
<1>6. IsTable([columns |-> taken], "columns")
  BY <1>4 DEF IsTable, Has
<1> QED BY <1>1, <1>5, <1>6 DEF taken, places

\* View Options confirmed as they come up change nothing, whatever columns are
\* stored, and the id stays on display (normalizeColumns).
THEOREM OptionsKept ==
    ASSUME NEW preferences, IsTable(preferences, "columns")
    PROVE  OptionsKeepColumns(preferences)
<1> DEFINE ticked == ToSet(Columns(preferences))
           Those(columns) == At({i \in DOMAIN ColumnOptions : ColumnOptions[i] \in columns}, ColumnOptions)
           saved == ColumnsOfOptions(ticked)
<1>1. "schedule_id" \in ticked
  BY ShownColumns
<1>2. saved = [columns |-> Those(ticked \cup {"schedule_id"})]
  BY DEF ColumnsOfOptions, Where
<1>3. \A p : ColumnsShown(p) = Those(ToSet(Columns(p)))
  BY DEF ColumnsShown, Where
<1>4. ticked \cup {"schedule_id"} = ticked
  BY <1>1
<1> DEFINE taken == Those(ticked)
<1>5. saved = [columns |-> taken]
  BY <1>2, <1>4
<1>6. /\ ToSet(taken) = ticked \cap ToSet(ColumnOptions)
      /\ IsTable([columns |-> taken], "columns")
  <2> HIDE DEF ticked
  <2> QED BY Taken
<1> HIDE DEF ticked, taken, saved
<1>7. ToSet(Columns(saved)) = (ticked \cap ToSet(ColumnOptions)) \cup {"schedule_id"}
  <2>1. Has(saved, "columns") /\ saved.columns = taken /\ IsTable(saved, "columns")
    BY <1>5, <1>6 DEF Has
  <2>2. ToSet(Columns(saved)) = (ToSet(saved.columns) \cap ToSet(ColumnOptions)) \cup {"schedule_id"}
    BY <2>1, ShownColumns
  <2> QED BY <1>6, <2>1, <2>2
<1>8. \A column \in ToSet(ColumnOptions) : column \in ToSet(Columns(saved)) <=> column \in ticked
  BY <1>1, <1>7
<1>9. Those(ToSet(Columns(saved))) = Those(ticked)
  <2>1. {i \in DOMAIN ColumnOptions : ColumnOptions[i] \in ToSet(Columns(saved))} =
        {i \in DOMAIN ColumnOptions : ColumnOptions[i] \in ticked}
    BY <1>8 DEF ToSet
  <2> QED BY <2>1
<1>10. ColumnsShown(saved) = ColumnsShown(preferences)
  BY <1>3, <1>9 DEF ticked
<1>11. "schedule_id" \in ToSet(ColumnsShown(preferences))
  <2>1. ColumnsShown(preferences) = taken
    BY <1>3 DEF taken, ticked
  <2>2. "schedule_id" \in ToSet(ColumnOptions)
    BY DEF ToSet, ColumnOptions
  <2> QED BY <1>1, <1>6, <2>1, <2>2
<1> QED BY <1>10, <1>11 DEF OptionsKeepColumns, saved, ticked

\* Letters and amounts, in one or more sections.
IsPart(part) == part = [letter |-> part.letter, amount |-> part.amount]
IsSection(section) ==
    /\ \E n \in Nat : DOMAIN section = 1..n
    /\ \A i \in DOMAIN section : IsPart(section[i])
IsText(text) ==
    \E n \in Nat : DOMAIN text.sections = 1..n /\ \A i \in 1..n : IsSection(text.sections[i])

LEMMA Units ==
    /\ ToSet(DateUnits) = {"Y", "M", "W", "D"} /\ ToSet(TimeUnits) = {"H", "M", "S"}
    /\ \A letter, other \in ToSet(DateUnits) :
          UnitName(letter, DateUnits) = UnitName(other, DateUnits) => letter = other
    /\ \A letter, other \in ToSet(TimeUnits) :
          UnitName(letter, TimeUnits) = UnitName(other, TimeUnits) => letter = other
    /\ \A letter \in ToSet(DateUnits), other \in ToSet(TimeUnits) :
          UnitName(letter, DateUnits) # UnitName(other, TimeUnits)
<1>1. ToSet(DateUnits) = {"Y", "M", "W", "D"} /\ ToSet(TimeUnits) = {"H", "M", "S"}
  BY DEF ToSet, DateUnits, TimeUnits
<1>2. DateUnits # TimeUnits
  BY DEF DateUnits, TimeUnits
<1>3. /\ UnitName("Y", DateUnits) = "year" /\ UnitName("M", DateUnits) = "month"
      /\ UnitName("W", DateUnits) = "week" /\ UnitName("D", DateUnits) = "day"
  BY DEF UnitName, UnitNames
<1>4. /\ UnitName("H", TimeUnits) = "hour" /\ UnitName("M", TimeUnits) = "minute"
      /\ UnitName("S", TimeUnits) = "second"
  BY <1>2 DEF UnitName, UnitNames
<1> QED BY <1>1, <1>3, <1>4

\* The units of a section, and the amounts that a text has in its sections.
UnitsOf(i) == IF i = 1 THEN DateUnits ELSE TimeUnits

LEMMA PartsAre ==
    ASSUME NEW text, IsText(text), "parts" \in DOMAIN FormatIsoDuration(text)
    PROVE  /\ \A i \in DOMAIN text.sections :
                 /\ i \in {1, 2}
                 /\ \A part \in ToSet(text.sections[i]) :
                       IsPart(part) /\ part.letter \in ToSet(UnitsOf(i))
           /\ \A i \in DOMAIN text.sections : \A part \in ToSet(text.sections[i]) :
                 part.amount # 0 => <<part.amount, UnitName(part.letter, UnitsOf(i))>>
                                       \in ToSet(FormatIsoDuration(text).parts)
           /\ \A told \in ToSet(FormatIsoDuration(text).parts) :
                 \E i \in DOMAIN text.sections : \E part \in ToSet(text.sections[i]) :
                    part.amount # 0 /\ told = <<part.amount, UnitName(part.letter, UnitsOf(i))>>
<1> DEFINE sections == text.sections
           date == sections[1]
           time == IF Len(sections) = 2 THEN sections[2] ELSE <<>>
           isDuration == /\ text.prefix /\ Len(sections) \in {1, 2}
                         /\ Len(sections) = 2 => sections[2] # <<>>
                         /\ InOrder(date, DateUnits)
                         /\ InOrder(time, TimeUnits)
           all == DurationParts(date, DateUnits) \o DurationParts(time, TimeUnits)
           places == {i \in DOMAIN all : all[i][1] # 0}
           parts == At(places, all)
<1>1. PICK n \in Nat : DOMAIN sections = 1..n /\ \A i \in 1..n : IsSection(sections[i])
  BY DEF IsText
<1>2. Len(sections) = n
  BY <1>1
<1>3. FormatIsoDuration(text) =
         IF (IF ~ isDuration THEN <<>> ELSE parts) = <<>> THEN [text |-> text]
         ELSE [parts |-> IF ~ isDuration THEN <<>> ELSE parts]
  BY DEF FormatIsoDuration, Where
<1>4. isDuration /\ FormatIsoDuration(text) = [parts |-> parts]
  <2> HIDE DEF isDuration, parts
  <2>1. ~ ("parts" \in DOMAIN [text |-> text])
    OBVIOUS
  <2> QED BY <1>3, <2>1
<1>5. n \in {1, 2}
  BY <1>2, <1>4
<1>6. IsSection(date) /\ IsSection(time)
  <2>1. IsSection(<<>>)
    BY DEF IsSection
  <2> QED BY <1>1, <1>2, <1>5, <2>1
<1>7. /\ \A i \in DOMAIN date : date[i].letter \in ToSet(DateUnits)
      /\ \A i \in DOMAIN time : time[i].letter \in ToSet(TimeUnits)
  BY <1>4 DEF InOrder
<1> DEFINE k == Len(date)
           l == Len(time)
<1>8. /\ k \in Nat /\ l \in Nat /\ DOMAIN date = 1..k /\ DOMAIN time = 1..l
  <2>1. \A s : IsSection(s) => Len(s) \in Nat /\ DOMAIN s = 1..Len(s)
    BY DEF IsSection
  <2> HIDE DEF date, time
  <2> QED BY <1>6, <2>1
<1> HIDE DEF k, l
<1>9. /\ DOMAIN all = 1..(k + l) /\ k + l \in Nat
      /\ \A i \in 1..k :
            i \in 1..(k + l) /\ all[i] = <<date[i].amount, UnitName(date[i].letter, DateUnits)>>
      /\ \A i \in 1..l :
            k + i \in 1..(k + l) /\ all[k + i] = <<time[i].amount, UnitName(time[i].letter, TimeUnits)>>
      /\ \A i \in 1..(k + l) : i \in 1..k \/ \E j \in 1..l : i = k + j
  <2> DEFINE d == DurationParts(date, DateUnits)
             t == DurationParts(time, TimeUnits)
  <2> HIDE DEF date, time
  <2>1. /\ DOMAIN d = 1..k /\ DOMAIN t = 1..l
        /\ \A i \in 1..k : d[i] = <<date[i].amount, UnitName(date[i].letter, DateUnits)>>
        /\ \A i \in 1..l : t[i] = <<time[i].amount, UnitName(time[i].letter, TimeUnits)>>
    BY <1>8 DEF DurationParts
  <2> HIDE DEF d, t
  <2>2. /\ DOMAIN (d \o t) = 1..(k + l) /\ k + l \in Nat
        /\ \A i \in 1..k : i \in 1..(k + l) /\ (d \o t)[i] = d[i]
        /\ \A i \in 1..l : k + i \in 1..(k + l) /\ (d \o t)[k + i] = t[i]
        /\ \A i \in 1..(k + l) : i \in 1..k \/ \E j \in 1..l : i = k + j
    <3>1. DOMAIN d = 1..k /\ DOMAIN t = 1..l /\ k \in Nat /\ l \in Nat
      BY <1>8, <2>1
    <3>2. DOMAIN (d \o t) = 1..(k + l) /\ k + l \in Nat
      BY <3>1, JoinedIs
    <3>3. \A i \in 1..k : i \in 1..(k + l) /\ (d \o t)[i] = d[i]
      BY <3>1, JoinedBefore
    <3>4. \A i \in 1..l : k + i \in 1..(k + l) /\ (d \o t)[k + i] = t[i]
      BY <3>1, JoinedAfter
    <3>5. \A i \in 1..(k + l) : i \in 1..k \/ \E j \in 1..l : i = k + j
      BY <3>1, JoinedIs
    <3> QED BY <3>2, <3>3, <3>4, <3>5
  <2> HIDE DEF all
  <2>3. all = d \o t
    BY DEF all, d, t
  <2> QED BY <2>1, <2>2, <2>3
<1>13. ToSet(parts) = {all[i] : i \in places}
  <2>1. places \in SUBSET (1..(k + l)) /\ k + l \in Nat
    BY <1>9
  <2> HIDE DEF places, all
  <2> QED BY <2>1, KeptSet
<1> DEFINE Told(part, i) == <<part.amount, UnitName(part.letter, UnitsOf(i))>>
<1>14. /\ \A i \in 1..k : IsPart(date[i]) /\ all[i] = Told(date[i], 1)
       /\ \A i \in 1..l : IsPart(time[i]) /\ all[k + i] = Told(time[i], 2)
  <2>1. UnitsOf(1) = DateUnits /\ UnitsOf(2) = TimeUnits
    BY DEF UnitsOf
  <2> HIDE DEF all, date, time
  <2>2. /\ \A i \in 1..k : IsPart(date[i])
        /\ \A i \in 1..l : IsPart(time[i])
    BY <1>6, <1>8 DEF IsSection
  <2>3. \A i \in 1..k : all[i] = Told(date[i], 1)
    BY <1>9, <2>1
  <2>4. \A i \in 1..l : all[k + i] = Told(time[i], 2)
    BY <1>9, <2>1
  <2> HIDE DEF Told
  <2> QED BY <2>2, <2>3, <2>4
<1>15. /\ 1 \in DOMAIN sections /\ \A i \in DOMAIN sections : i = 1 \/ i = 2
       /\ sections[1] = date
       /\ 2 \in DOMAIN sections => sections[2] = time
       /\ 2 \notin DOMAIN sections => l = 0
  BY <1>1, <1>2, <1>5 DEF l
<1>16. DOMAIN date = 1..k /\ DOMAIN time = 1..l /\ DOMAIN all = 1..(k + l)
  BY <1>8, <1>9
<1>17. \A i \in DOMAIN sections : \A part \in ToSet(sections[i]) :
          /\ IsPart(part) /\ part.letter \in ToSet(UnitsOf(i))
          /\ \E m \in 1..(k + l) : all[m] = Told(part, i)
  <2> HIDE DEF all, Told, k, l, date, time
  <2>1. \A part \in ToSet(date) : \E j \in 1..k : part = date[j]
    BY <1>16 DEF ToSet
  <2>2. \A part \in ToSet(time) : \E j \in 1..l : part = time[j]
    BY <1>16 DEF ToSet
  <2>3. \A part \in ToSet(date) :
          /\ IsPart(part) /\ part.letter \in ToSet(UnitsOf(1))
          /\ \E m \in 1..(k + l) : all[m] = Told(part, 1)
    BY <2>1, <1>7, <1>9, <1>14, <1>16 DEF UnitsOf
  <2>4. \A part \in ToSet(time) :
          /\ IsPart(part) /\ part.letter \in ToSet(UnitsOf(2))
          /\ \E m \in 1..(k + l) : all[m] = Told(part, 2)
    BY <2>2, <1>7, <1>9, <1>14, <1>16 DEF UnitsOf
  <2> HIDE DEF sections
  <2> QED BY <1>15, <2>3, <2>4
<1>18. \A m \in 1..(k + l) : \E i \in DOMAIN sections : \E part \in ToSet(sections[i]) :
          all[m] = Told(part, i) /\ all[m][1] = part.amount
  <2> HIDE DEF all, k, l, date, time
  <2> SUFFICES ASSUME NEW m \in 1..(k + l)
               PROVE  \E i \in DOMAIN sections : \E part \in ToSet(sections[i]) :
                         all[m] = Told(part, i) /\ all[m][1] = part.amount
    OBVIOUS
  <2>1. CASE m \in 1..k
    <3>1. date[m] \in ToSet(sections[1]) /\ all[m] = Told(date[m], 1)
      BY <2>1, <1>14, <1>15, <1>16 DEF ToSet
    <3> QED BY <3>1, <1>15
  <2>2. CASE \E j \in 1..l : m = k + j
    <3>1. PICK j \in 1..l : m = k + j /\ all[m] = Told(time[j], 2)
      BY <2>2, <1>14
    <3>2. 2 \in DOMAIN sections
      BY <3>1, <1>15
    <3>3. time[j] \in ToSet(sections[2])
      BY <3>1, <3>2, <1>15, <1>16 DEF ToSet
    <3> QED BY <3>1, <3>2, <3>3
  <2> QED BY <2>1, <2>2, <1>9
<1>19. /\ \A m \in 1..(k + l) : all[m][1] # 0 => all[m] \in ToSet(parts)
       /\ \A told \in ToSet(parts) : \E m \in 1..(k + l) : told = all[m] /\ all[m][1] # 0
  <2> HIDE DEF all, parts, k, l
  <2> QED BY <1>13, <1>16
<1>20. FormatIsoDuration(text).parts = parts
  <2> HIDE DEF isDuration, parts
  <2> QED BY <1>4
<1> HIDE DEF all, parts, k, l, sections
<1>21. \A i \in DOMAIN sections : \A part \in ToSet(sections[i]) :
          part.amount # 0 => Told(part, i) \in ToSet(parts)
  <2>1. \A part, i : Told(part, i)[1] = part.amount
    OBVIOUS
  <2> HIDE DEF Told
  <2> QED BY <1>17, <1>19, <2>1
<1>22. \A told \in ToSet(parts) :
          \E i \in DOMAIN sections : \E part \in ToSet(sections[i]) :
             part.amount # 0 /\ told = Told(part, i)
  <2> HIDE DEF Told
  <2> QED BY <1>18, <1>19
<1> QED BY <1>15, <1>17, <1>20, <1>21, <1>22 DEF sections

\* Durations that look alike are the same, with any amounts in any sections
\* (formatIsoDuration).
THEOREM DurationsTold ==
    ASSUME NEW one, NEW other, IsText(one), IsText(other)
    PROVE  DurationsDiffer(one, other)
<1> DEFINE Has0(text, i, part) == /\ i \in DOMAIN text.sections /\ part \in ToSet(text.sections[i])
                                  /\ part.amount # 0
           Apart(text) == "parts" \in DOMAIN FormatIsoDuration(text)
<1>1. ASSUME NEW text, NEW same, IsText(text), IsText(same), Apart(text),
             FormatIsoDuration(text) = FormatIsoDuration(same),
             NEW i, NEW part, Has0(text, i, part)
      PROVE  Has0(same, i, part)
  <2>1. Apart(same)
    BY <1>1
  <2>2. /\ i \in {1, 2} /\ IsPart(part) /\ part.letter \in ToSet(UnitsOf(i))
        /\ <<part.amount, UnitName(part.letter, UnitsOf(i))>> \in ToSet(FormatIsoDuration(text).parts)
    BY <1>1, PartsAre
  <2>3. PICK j \in DOMAIN same.sections : \E found \in ToSet(same.sections[j]) :
           /\ found.amount # 0
           /\ <<part.amount, UnitName(part.letter, UnitsOf(i))>> =
                  <<found.amount, UnitName(found.letter, UnitsOf(j))>>
    BY <1>1, <2>1, <2>2, PartsAre
  <2>4. PICK found \in ToSet(same.sections[j]) :
           /\ found.amount # 0
           /\ <<part.amount, UnitName(part.letter, UnitsOf(i))>> =
                  <<found.amount, UnitName(found.letter, UnitsOf(j))>>
    BY <2>3
  <2>5. j \in {1, 2} /\ IsPart(found) /\ found.letter \in ToSet(UnitsOf(j))
    BY <1>1, <2>1, <2>3, <2>4, PartsAre
  <2>6. /\ part.amount = found.amount
        /\ UnitName(part.letter, UnitsOf(i)) = UnitName(found.letter, UnitsOf(j))
    BY <2>4
  <2>7. i = j /\ part.letter = found.letter
    BY <2>2, <2>5, <2>6, Units DEF UnitsOf
  <2>8. part = found
    BY <2>2, <2>5, <2>6, <2>7 DEF IsPart
  <2> QED BY <2>3, <2>4, <2>7, <2>8
<1> DEFINE All(text) ==
               {<<i, part>> : i \in DOMAIN text.sections,
                  part \in UNION {ToSet(text.sections[j]) : j \in DOMAIN text.sections}}
           Of(text) == {x \in All(text) : x[2] \in ToSet(text.sections[x[1]]) /\ x[2].amount # 0}
<1>2. ASSUME NEW text, NEW x
      PROVE  x \in Of(text) <=> \E i, part : x = <<i, part>> /\ Has0(text, i, part)
  <2>1. ASSUME x \in Of(text)
        PROVE  \E i, part : x = <<i, part>> /\ Has0(text, i, part)
    <3>1. PICK i \in DOMAIN text.sections,
               part \in UNION {ToSet(text.sections[j]) : j \in DOMAIN text.sections} : x = <<i, part>>
      BY <2>1
    <3>2. x[1] = i /\ x[2] = part
      BY <3>1
    <3> QED BY <2>1, <3>1, <3>2
  <2>2. ASSUME NEW i, NEW part, x = <<i, part>>, Has0(text, i, part)
        PROVE  x \in Of(text)
    <3>1. x \in All(text)
      BY <2>2
    <3>2. x[1] = i /\ x[2] = part
      BY <2>2
    <3> HIDE DEF All
    <3> QED BY <2>2, <3>1, <3>2
  <2> HIDE DEF Of, Has0
  <2> QED BY <2>1, <2>2
<1>3. Apart(one) /\ FormatIsoDuration(one) = FormatIsoDuration(other) => Of(one) = Of(other)
  <2> SUFFICES ASSUME Apart(one), FormatIsoDuration(one) = FormatIsoDuration(other)
               PROVE  Of(one) = Of(other)
    OBVIOUS
  <2>1. Apart(other)
    OBVIOUS
  <2> HIDE DEF Of, Has0, Apart
  <2>2. \A i, part : Has0(one, i, part) => Has0(other, i, part)
    BY <1>1
  <2>3. \A i, part : Has0(other, i, part) => Has0(one, i, part)
    BY <1>1, <2>1
  <2>4. \A x : x \in Of(one) <=> x \in Of(other)
    BY <1>2, <2>2, <2>3
  <2>5. Of(one) \subseteq All(one) /\ Of(other) \subseteq All(other)
    BY DEF Of
  <2> QED BY <2>4
<1> QED BY <1>3 DEF DurationsDiffer
-----------------------------------------------------------------------------
(***************************************************************************)
(* The answers of the model are such answers.                              *)
(***************************************************************************)
Gives(record, given) ==
    /\ DOMAIN given = {f \in DOMAIN record : record[f] # <<>>}
    /\ \A f \in DOMAIN given : given[f] = record[f][1]

LEMMA PartialIs ==
    ASSUME NEW records, NEW given \in Partial(records)
    PROVE  \E r \in records : Gives(r, given)
  BY DEF Partial, Gives

LEMMA MaybeIs ==
    ASSUME NEW values, NEW some \in Maybe(values), some # <<>>
    PROVE  some[1] \in values
  BY DEF Maybe

\* A field that such a record gives has one of the values it may have.
LEMMA FieldIs ==
    ASSUME NEW r, NEW given, Gives(r, given), NEW field, Has(given, field),
           NEW values, r[field] \in Maybe(values)
    PROVE  given[field] \in values
<1>1. r[field] # <<>> /\ given[field] = r[field][1]
  BY DEF Gives, Has
<1> QED BY <1>1, MaybeIs

LEMMA BoundedIs ==
    ASSUME NEW S, NEW n \in Nat, NEW s \in BoundedSeq(S, n)
    PROVE  \E m \in Nat : s \in [1..m -> S]
  BY DEF BoundedSeq, SeqOf

LEMMA NamesAre == ASSUME NEW schedule \in Names PROVE NamespaceNamed(schedule)
<1> DEFINE records == [schedule_id : Maybe({"a", "b"}), id : Maybe({"a", "b"}),
                       namespace : Maybe({"x", "y"})]
<1>1. PICK r \in records : Gives(r, schedule)
  <2> HIDE DEF records
  <2>1. schedule \in Partial(records)
    BY DEF Names, records
  <2> QED BY <2>1, PartialIs
<1>2. r.namespace \in Maybe({"x", "y"})
  OBVIOUS
<1>3. Has(schedule, "namespace") => schedule.namespace \in {"x", "y"}
  BY <1>1, <1>2, FieldIs
<1> QED BY <1>3 DEF NamespaceNamed, Absent

LEMMA TextsAre == ASSUME NEW text \in Texts PROVE IsText(text)
<1> DEFINE one == [letter |-> "M", amount |-> 1]
<1>1. \A s \in Sections : IsSection(s)
  <2> SUFFICES ASSUME NEW s \in Sections PROVE IsSection(s)
    OBVIOUS
  <2>1. PICK m \in Nat : s \in [1..m -> [letter : {"Y", "M", "D", "S"}, amount : 0..2]]
    BY BoundedIs DEF Sections
  <2>2. \A x \in [letter : {"Y", "M", "D", "S"}, amount : 0..2] : IsPart(x)
    BY DEF IsPart
  <2> QED BY <2>1, <2>2 DEF IsSection
<1>2. IsSection(<<>>) /\ IsSection(<<one>>)
  BY DEF IsSection, IsPart
<1>3. \/ \E date \in Sections : text.sections = <<date>>
      \/ \E time \in Sections : text.sections = <<<<>>, time>>
      \/ \E date \in Sections : text.sections = <<date, <<one>>>>
  BY DEF Texts
<1> HIDE DEF one
<1>4. \A date : IsSection(date) /\ text.sections = <<date>> => IsText(text)
  BY DEF IsText
<1>5. \A date, time : IsSection(date) /\ IsSection(time) /\ text.sections = <<date, time>>
                       => IsText(text)
  BY DEF IsText
<1> QED BY <1>1, <1>2, <1>3, <1>4, <1>5

LEMMA LastResultsAre == ASSUME NEW schedule \in LastResults PROVE FiresAreRecorded(schedule)
<1> DEFINE records == [last_outcome : Maybe(LastOutcomes), last_fired_at : Maybe({"then"}),
                       last_skipped_at : Maybe({"then"}), last_skip_reason : Maybe({"why"}),
                       skipped_trigger_count : Maybe(0..1)]
           outcomes == [outcome : Maybe({"failed", "skipped", "started", "odd"}),
                        at : Maybe({"later"}), reason : Maybe({"why"})]
<1>1. PICK r \in records : Gives(r, schedule)
  <2> HIDE DEF records
  <2>1. schedule \in Partial(records)
    BY DEF LastResults, records
  <2> QED BY <2>1, PartialIs
<1>2. r.last_outcome \in Maybe(LastOutcomes) /\ r.last_fired_at \in Maybe({"then"})
  OBVIOUS
<1> HIDE DEF records
<1>3. Has(schedule, "last_fired_at") => schedule.last_fired_at \in {"then"}
  BY <1>1, <1>2, FieldIs
<1>4. Has(schedule, "last_outcome") => schedule.last_outcome \in LastOutcomes
  BY <1>1, <1>2, FieldIs
<1>5. ASSUME NEW last \in LastOutcomes
      PROVE  /\ Has(last, "at") => last.at \in {"later"}
             /\ Has(last, "reason") => last.reason \in {"why"}
  <2>1. PICK o \in outcomes : Gives(o, last)
    <3> HIDE DEF outcomes
    <3>1. last \in Partial(outcomes)
      BY DEF LastOutcomes, outcomes
    <3> QED BY <3>1, PartialIs
  <2>2. o.at \in Maybe({"later"}) /\ o.reason \in Maybe({"why"})
    OBVIOUS
  <2> HIDE DEF outcomes
  <2>3. Has(last, "at") => last.at \in {"later"}
    BY <2>1, <2>2, FieldIs
  <2>4. Has(last, "reason") => last.reason \in {"why"}
    BY <2>1, <2>2, FieldIs
  <2> QED BY <2>3, <2>4
<1> QED BY <1>3, <1>4, <1>5 DEF FiresAreRecorded, Absent

LEMMA SpecsAre ==
    ASSUME NEW spec \in Specs
    PROVE  IsTable(spec, "cron_expressions") /\ IsTable(spec, "intervals")
<1> DEFINE crons == {<<>>, <<"c">>, <<"c", "d">>}
           every == {<<>>} \cup [every : {"1h", "2h"}]
           records == [cron_expressions : Maybe(crons), intervals : Maybe(BoundedSeq(every, 2))]
<1>1. PICK r \in records : Gives(r, spec)
  <2> HIDE DEF records
  <2>1. spec \in Partial(records)
    BY DEF Specs, records
  <2> QED BY <2>1, PartialIs
<1>2. r.cron_expressions \in Maybe(crons) /\ r.intervals \in Maybe(BoundedSeq(every, 2))
  OBVIOUS
<1> HIDE DEF records
<1>3. Has(spec, "cron_expressions") => spec.cron_expressions \in crons
  BY <1>1, <1>2, FieldIs
<1>4. Has(spec, "intervals") => spec.intervals \in BoundedSeq(every, 2)
  BY <1>1, <1>2, FieldIs
<1>5. \A list \in crons : \E n \in Nat : DOMAIN list = 1..n
  OBVIOUS
<1>6. \A list \in BoundedSeq(every, 2) : \E n \in Nat : DOMAIN list = 1..n
  BY BoundedIs
<1> HIDE DEF crons, every
<1> QED BY <1>3, <1>4, <1>5, <1>6 DEF IsTable

LEMMA FireListsAre ==
    ASSUME NEW schedule \in FireLists
    PROVE  IsTable(schedule, "recent_actions")
<1> DEFINE records == [recent_actions : Maybe(BoundedSeq(Fires, 2))]
<1>1. PICK r \in records : Gives(r, schedule)
  <2> HIDE DEF records
  <2>1. schedule \in Partial(records)
    BY DEF FireLists, records
  <2> QED BY <2>1, PartialIs
<1>2. r.recent_actions \in Maybe(BoundedSeq(Fires, 2))
  OBVIOUS
<1> HIDE DEF records
<1>3. Has(schedule, "recent_actions") => schedule.recent_actions \in BoundedSeq(Fires, 2)
  BY <1>1, <1>2, FieldIs
<1>4. \A list \in BoundedSeq(Fires, 2) : \E n \in Nat : DOMAIN list = 1..n
  BY BoundedIs
<1> QED BY <1>3, <1>4 DEF IsTable

LEMMA BackfillsAre ==
    ASSUME NEW response \in Backfills
    PROVE  IsTable(response, "results") /\ FiguresOfResults(response)
<1> DEFINE words == {"started", "skipped", "failed", "buffered"}
           CountOf(results, outcome) == Cardinality({i \in DOMAIN results : results[i] = outcome})
           Records(results) ==
               [results : {<<results>>}, fires_attempted : Maybe({Len(results)}),
                started_count : Maybe({CountOf(results, "started")}),
                skipped_count : Maybe({CountOf(results, "skipped")}),
                failed_count : Maybe({CountOf(results, "failed")})]
<1>1. PICK results \in BoundedSeq(words, 3) : response \in Partial(Records(results))
  BY DEF Backfills
<1>2. PICK r \in Records(results) : Gives(r, response)
  <2> HIDE DEF Records
  <2> QED BY <1>1, PartialIs
<1> DEFINE started == CountOf(results, "started")
           skipped == CountOf(results, "skipped")
           failed == CountOf(results, "failed")
<1>3. /\ r.results = <<results>> /\ "results" \in DOMAIN r
      /\ r.fires_attempted \in Maybe({Len(results)}) /\ r.started_count \in Maybe({started})
      /\ r.skipped_count \in Maybe({skipped}) /\ r.failed_count \in Maybe({failed})
  <2> HIDE DEF started, skipped, failed, CountOf
  <2> QED BY DEF started, skipped, failed
<1> HIDE DEF started, skipped, failed, CountOf, Records
<1>4. Has(response, "results") /\ response.results = results
  <2>1. <<results>> # <<>> /\ <<results>>[1] = results
    OBVIOUS
  <2> QED BY <1>2, <1>3, <2>1 DEF Gives, Has
<1>5. PICK n \in Nat : DOMAIN results = 1..n
  BY BoundedIs
<1>6. /\ Has(response, "fires_attempted") => response.fires_attempted \in {Len(results)}
      /\ Has(response, "started_count") => response.started_count \in {started}
      /\ Has(response, "skipped_count") => response.skipped_count \in {skipped}
      /\ Has(response, "failed_count") => response.failed_count \in {failed}
  <2>1. Has(response, "fires_attempted") => response.fires_attempted \in {Len(results)}
    BY <1>2, <1>3, FieldIs
  <2>2. Has(response, "started_count") => response.started_count \in {started}
    BY <1>2, <1>3, FieldIs
  <2>3. Has(response, "skipped_count") => response.skipped_count \in {skipped}
    BY <1>2, <1>3, FieldIs
  <2>4. Has(response, "failed_count") => response.failed_count \in {failed}
    BY <1>2, <1>3, FieldIs
  <2> QED BY <2>1, <2>2, <2>3, <2>4
<1>7. Rows(response, "results") = results
  BY <1>4 DEF Rows
<1>8. FiguresOfResults(response)
  BY <1>6, <1>7 DEF FiguresOfResults, started, skipped, failed, CountOf
<1> QED BY <1>4, <1>5, <1>8 DEF IsTable

LEMMA PreferencesAre ==
    ASSUME NEW preferences \in Preferences
    PROVE  IsTable(preferences, "columns")
<1> DEFINE columns == {"schedule_id", "status", "actions", "gone"}
           records == [columns : Maybe(BoundedSeq(columns, 3))]
<1>1. PICK r \in records : Gives(r, preferences)
  <2> HIDE DEF records
  <2>1. preferences \in Partial(records)
    BY DEF Preferences, records
  <2> QED BY <2>1, PartialIs
<1>2. r.columns \in Maybe(BoundedSeq(columns, 3))
  OBVIOUS
<1> HIDE DEF records
<1>3. Has(preferences, "columns") => preferences.columns \in BoundedSeq(columns, 3)
  BY <1>1, <1>2, FieldIs
<1>4. \A list \in BoundedSeq(columns, 3) : \E n \in Nat : DOMAIN list = 1..n
  BY BoundedIs
<1> QED BY <1>3, <1>4 DEF IsTable

\* What a figure is of, it holds.
LEMMA FiguresAre ==
    ASSUME NEW x \in Figures
    PROVE  /\ x.of = "names" => x.one \in Names /\ x.other \in Names
           /\ x.of = "duration" => x.one \in Texts
           /\ x.of = "result" => x.schedule \in LastResults
           /\ x.of = "cadence" => x.spec \in Specs
           /\ x.of = "fires" => x.detail \in FireLists
           /\ x.of = "backfill" => x.response \in Backfills
           /\ x.of = "list" => x.schedules \in Lists
           /\ x.of = "columns" => x.preferences \in Preferences
           /\ x.of = "focus" => x.places \in 0..5
  BY DEF Figures

TellsOf(x) ==
    /\ x.of = "names" => RequestNamesTheRow(x.one, x.other)
    /\ x.of = "duration" => \A other \in Texts : DurationsDiffer(x.one, other)
    /\ x.of = "result" => LastResultIsTold(x.schedule)
    /\ x.of = "cadence" => CadenceIsTold(x.spec)
    /\ x.of = "fires" => FiresAreTold(x.detail)
    /\ x.of = "backfill" => BackfillIsTold(x.response)
    /\ x.of = "list" => CardsCountRows(x.schedules, Now)
    /\ x.of = "columns" => OptionsKeepColumns(x.preferences)
    /\ x.of = "focus" => FocusStaysInDialog(x.places)

LEMMA FiguresTell == ASSUME NEW x \in Figures PROVE TellsOf(x)
<1>1. x.of = "names" => RequestNamesTheRow(x.one, x.other)
  BY FiguresAre, NamesAre, RowsAreNamed
<1>2. x.of = "duration" => \A other \in Texts : DurationsDiffer(x.one, other)
  BY FiguresAre, TextsAre, DurationsTold
<1>3. x.of = "result" => LastResultIsTold(x.schedule)
  BY FiguresAre, LastResultsAre, LastResultsTold
<1>4. x.of = "cadence" => CadenceIsTold(x.spec)
  BY FiguresAre, SpecsAre, CadencesTold
<1>5. x.of = "fires" => FiresAreTold(x.detail)
  BY FiguresAre, FireListsAre, FiresTold
<1>6. x.of = "backfill" => BackfillIsTold(x.response)
  BY FiguresAre, BackfillsAre, BackfillsTold
<1>7. x.of = "list" => CardsCountRows(x.schedules, Now)
  <2>1. \A list \in Lists : \E n \in Nat : DOMAIN list = 1..n
    BY BoundedIs DEF Lists
  <2>2. \A list \in Lists : CardsCountRows(list, Now)
    BY <2>1, CardsTold
  <2> QED BY <2>2, FiguresAre
<1>8. x.of = "columns" => OptionsKeepColumns(x.preferences)
  BY FiguresAre, PreferencesAre, OptionsKept
<1>9. x.of = "focus" => FocusStaysInDialog(x.places)
  <2>1. \A n \in 0..5 : FocusStaysInDialog(n)
    BY FocusStays
  <2> QED BY <2>1, FiguresAre
<1> QED BY <1>1, <1>2, <1>3, <1>4, <1>5, <1>6, <1>7, <1>8, <1>9 DEF TellsOf

(***************************************************************************)
(* Whatever the engine answers of schedules, what the view tells of one    *)
(* thing in two places agrees: a row and the request of its actions, a     *)
(* duration and its words, a last result in the row and in the details, a  *)
(* backfill and its notice, the cards and the rows, the columns and the    *)
(* boxes ticked for them.                                                  *)
(***************************************************************************)
THEOREM SchedulesTold == MCSafeSpec => []SchedulesTellTheirState
<1>1. SchedulesTellTheirState <=> TellsOf(figure)
  BY DEF SchedulesTellTheirState, TellsOf
<1>2. TellsOf(Blank)
  BY DEF TellsOf, Blank
<1>3. SchedulesInit => TellsOf(figure)
  BY <1>2 DEF SchedulesInit
<1>4. TellsOf(figure) /\ [SchedulesNext]_<<vars, dialogsVars, study, figure>> => TellsOf(figure')
  <2> SUFFICES ASSUME TellsOf(figure), [SchedulesNext]_<<vars, dialogsVars, study, figure>>
               PROVE  TellsOf(figure')
    OBVIOUS
  <2>1. figure' \in Figures \cup {Blank} \/ figure' = figure
    BY DEF SchedulesNext
  <2> QED BY <1>2, <2>1, FiguresTell
<1>5. TellsOf(figure)' <=> TellsOf(figure')
  BY DEF TellsOf
<1> QED BY <1>1, <1>3, <1>4, <1>5, PTL DEF MCSafeSpec
=============================================================================
