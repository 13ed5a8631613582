---------------------------- MODULE PagesProofs -----------------------------
(***************************************************************************)
(* The pages of a list.  For every largest page, margin, browser budget    *)
(* and call time: a request that replays pages makes no more calls than it *)
(* may, ends in time, and answers with the page it names.  For every       *)
(* bucket of both engines and every page size: the pages show each         *)
(* workflow once.  And the list screen says that a list is empty only when *)
(* it is.                                                                  *)
(***************************************************************************)
EXTENDS MCLists, WorkflowListProofs, FiniteSetTheorems, SequenceTheorems, TLAPS

(***************************************************************************)
(* One list request of service mode.                                       *)
(***************************************************************************)
\* The three ways a request stands between two steps.
Looping ==
    phase = "looping" =>
        /\ Accepted(query) /\ asked = query /\ answer = Refusal(0)
        /\ calls = current /\ current <= asked
        /\ current = 0 => elapsed = 0

Calling ==
    phase = "calling" =>
        /\ Accepted(query) /\ asked = query /\ answer = Refusal(0)
        /\ calls = current + 1 /\ current < asked
        /\ current > 0 => token # 0
        /\ elapsed <= BudgetMilliseconds(browser)

Answered ==
    /\ phase = "idle" => answer = Refusal(0)
    /\ phase = "answered" /\ query \notin 1..MaxPage
           => answer.status = 422 /\ calls = 0

\* The token leads to the page after the one read last.
Position ==
    /\ read = current
    /\ token # 0 => token = current + 1
    /\ current = 0 => token = 0

InTime == elapsed <= BudgetMilliseconds(browser) + MaxCall

ReplayInv ==
    /\ TypeOK /\ Looping /\ Calling /\ Answered /\ Position
    /\ calls <= MaxPage
    /\ InTime
    /\ PageIsTheOneRead /\ MoreIsTold

USE DEF Accepted, Refusal

\* A budget is a time: neither half of the browser's budget nor the margin
\* makes it negative.
LEMMA BudgetIsTime ==
    ASSUME NEW b \in Browsers
    PROVE  BudgetMilliseconds(b) \in Nat
<1>1. b \in Nat /\ ResponseMargin \in Nat
  BY BrowsersAssumption, ResponseMarginAssumption
<1>2. b \div 2 \in Nat
  BY <1>1
<1>. QED
  BY <1>1, <1>2 DEF BudgetMilliseconds

LEMMA ReplayStarts == Init => ReplayInv
<1>. SUFFICES ASSUME Init PROVE ReplayInv
  OBVIOUS
<1>1. BudgetMilliseconds(browser) \in Nat
  BY BudgetIsTime DEF Init
<1>. QED
  BY <1>1, MaxPageAssumption, MaxCallAssumption
  DEF Init, ReplayInv, TypeOK, Looping, Calling, Answered, Position, InTime,
      PageIsTheOneRead, MoreIsTold

LEMMA AskKeeps ==
    ASSUME ReplayInv, NEW p \in 0..MaxAsked, Ask(p)
    PROVE  ReplayInv'
<1>1. BudgetMilliseconds(browser)' \in Nat
  BY BudgetIsTime DEF ReplayInv, TypeOK, Ask
<1>2. p \in Nat /\ Bounded(p) \in 0..MaxPage /\ (Accepted(p) => Bounded(p) = p)
  BY MaxPageAssumption, MaxAskedAssumption DEF Bounded
<1>3. CASE Accepted(p) /\ phase' = "looping" /\ answer' = Refusal(0)
  BY <1>1, <1>2, <1>3, MaxPageAssumption, MaxCallAssumption
  DEF Ask, ReplayInv, TypeOK, Looping, Calling, Answered, Position, InTime,
      PageIsTheOneRead, MoreIsTold
<1>4. CASE ~Accepted(p) /\ phase' = "answered" /\ answer' = Refusal(422)
  BY <1>1, <1>2, <1>4, MaxPageAssumption, MaxCallAssumption
  DEF Ask, ReplayInv, TypeOK, Looping, Calling, Answered, Position, InTime,
      PageIsTheOneRead, MoreIsTold
<1>. QED
  BY <1>3, <1>4 DEF Ask

LEMMA OutOfTimeKeeps ==
    ASSUME ReplayInv, OutOfTime
    PROVE  ReplayInv'
  BY MaxPageAssumption
  DEF OutOfTime, ReplayInv, TypeOK, Looping, Calling, Answered, Position, InTime,
      PageIsTheOneRead, MoreIsTold

LEMMA FetchKeeps ==
    ASSUME ReplayInv, Fetch
    PROVE  ReplayInv'
<1>1. BudgetMilliseconds(browser) \in Nat
  BY BudgetIsTime DEF ReplayInv, TypeOK
<1>2. elapsed <= BudgetMilliseconds(browser)
  BY <1>1 DEF Fetch, Expired, ReplayInv, TypeOK, Looping
<1>. QED
  BY <1>2, MaxPageAssumption
  DEF Fetch, Continues, ReplayInv, TypeOK, Looping, Calling, Answered, Position,
      InTime, PageIsTheOneRead, MoreIsTold

LEMMA CallReturnsKeeps ==
    ASSUME ReplayInv, NEW d \in 0..MaxCall, NEW more \in BOOLEAN,
           CallReturns(d, more)
    PROVE  ReplayInv'
<1>1. BudgetMilliseconds(browser) \in Nat /\ d \in Nat
  BY BudgetIsTime, MaxCallAssumption DEF ReplayInv, TypeOK
<1>2. elapsed' \in Nat /\ InTime'
  BY <1>1, MaxCallAssumption
  DEF CallReturns, ReplayInv, TypeOK, Calling, InTime
<1>3. PageOf(token) = current + 1
  BY MaxPageAssumption
  DEF CallReturns, PageOf, ReplayInv, TypeOK, Calling, Position
<1>4. current + 1 <= MaxPage
  BY MaxPageAssumption DEF CallReturns, ReplayInv, TypeOK, Calling
<1>5. token' \in 0..(MaxPage + 1) /\ (token' # 0 => token' = current' + 1)
  BY <1>3, <1>4, MaxPageAssumption DEF CallReturns, ReplayInv, TypeOK
<1>. QED
  BY <1>2, <1>3, <1>4, <1>5, MaxPageAssumption
  DEF CallReturns, ReplayInv, TypeOK, Looping, Calling, Answered, Position,
      PageIsTheOneRead, MoreIsTold

LEMMA CallFailsKeeps ==
    ASSUME ReplayInv, NEW d \in 0..MaxCall, CallFails(d)
    PROVE  ReplayInv'
<1>1. BudgetMilliseconds(browser) \in Nat /\ d \in Nat
  BY BudgetIsTime, MaxCallAssumption DEF ReplayInv, TypeOK
<1>2. elapsed' \in Nat /\ InTime'
  BY <1>1, MaxCallAssumption DEF CallFails, ReplayInv, TypeOK, Calling, InTime
<1>. QED
  BY <1>2, MaxPageAssumption
  DEF CallFails, ReplayInv, TypeOK, Looping, Calling, Answered, Position,
      PageIsTheOneRead, MoreIsTold

LEMMA AnswerKeeps ==
    ASSUME ReplayInv, Answer
    PROVE  ReplayInv'
<1>1. /\ Accepted(query) /\ asked = query /\ current <= asked
      /\ answer = Refusal(0)
  BY DEF Answer, ReplayInv, Looping
<1>2. 0 < current /\ (current < asked => token = 0)
  BY <1>1, MaxPageAssumption DEF Answer, Continues, ReplayInv, TypeOK
<1>3. /\ answer'.page = current /\ answer'.current = current
      /\ answer'.last = IF HasMore THEN current + 1 ELSE current
  BY DEF Answer, ReplayInv, Position
<1>4. answer'.more <=> token # 0
  BY DEF Answer
<1>5. answer'.limited <=> PageLimitReached
  BY DEF Answer
<1>6. query' = query
  BY DEF Answer
<1>7. PageIsTheOneRead'
  BY <1>1, <1>2, <1>3, <1>5, <1>6, MaxPageAssumption
  DEF HasMore, PageLimitReached, PageIsTheOneRead, ReplayInv, TypeOK
<1>8. MoreIsTold'
  BY <1>1, <1>2, <1>3, <1>4, <1>5, MaxPageAssumption
  DEF HasMore, PageLimitReached, MoreIsTold, ReplayInv, TypeOK
<1>9. TypeOK'
  BY <1>1, MaxPageAssumption
  DEF Answer, HasMore, PageLimitReached, ReplayInv, TypeOK
<1>. QED
  BY <1>1, <1>7, <1>8, <1>9
  DEF Answer, ReplayInv, TypeOK, Looping, Calling, Answered, Position, InTime

\* The states a request goes through, whatever the installation's limits.
THEOREM ReplayInvariance == Spec => []ReplayInv
<1>1. Init => ReplayInv
  BY ReplayStarts
<1>2. ReplayInv /\ [Next]_vars => ReplayInv'
  <2>. SUFFICES ASSUME ReplayInv, [Next]_vars PROVE ReplayInv'
    OBVIOUS
  <2>1. ASSUME NEW p \in 0..MaxAsked, Ask(p) PROVE ReplayInv'
    BY <2>1, AskKeeps
  <2>2. CASE OutOfTime
    BY <2>2, OutOfTimeKeeps
  <2>3. CASE Fetch
    BY <2>3, FetchKeeps
  <2>4. ASSUME NEW d \in 0..MaxCall, NEW more \in BOOLEAN, CallReturns(d, more)
        PROVE  ReplayInv'
    BY <2>4, CallReturnsKeeps
  <2>5. ASSUME NEW d \in 0..MaxCall, CallFails(d) PROVE ReplayInv'
    BY <2>5, CallFailsKeeps
  <2>6. CASE Answer
    BY <2>6, AnswerKeeps
  <2>7. CASE UNCHANGED vars
    BY <2>7
    DEF vars, ReplayInv, TypeOK, Looping, Calling, Answered, Position, InTime,
        PageIsTheOneRead, MoreIsTold
  <2>. QED
    BY <2>1, <2>2, <2>3, <2>4, <2>5, <2>6, <2>7 DEF Next
<1>. QED
  BY <1>1, <1>2, PTL DEF Spec

\* The variables of the replay keep their types: no page past MAX_PAGE is
\* ever asked of the server.
THEOREM TypeCorrect == Spec => []TypeOK
<1>1. ReplayInv => TypeOK
  BY DEF ReplayInv
<1>. QED
  BY <1>1, ReplayInvariance, PTL

\* One list request makes at most MAX_PAGE calls, and none for a page it
\* refuses.
THEOREM BoundedInCalls == Spec => []CallsBounded
<1>1. ReplayInv => CallsBounded
  BY DEF ReplayInv, Answered, CallsBounded
<1>. QED
  BY <1>1, ReplayInvariance, PTL

\* Only the call in flight runs past the replay's budget, so the answer
\* comes before the browser gives up when no call outlasts the margin.
THEOREM BoundedInTime == Spec => []AnsweredInTime
<1>1. ReplayInv => AnsweredInTime
  <2>. SUFFICES ASSUME ReplayInv PROVE AnsweredInTime
    OBVIOUS
  <2>1. /\ BudgetMilliseconds(browser) \in Nat
        /\ browser \in Nat /\ elapsed \in Nat
    BY BudgetIsTime, BrowsersAssumption DEF ReplayInv, TypeOK
  <2>2. /\ BudgetMilliseconds(browser) <= browser - browser \div 2
            \/ BudgetMilliseconds(browser) = browser - ResponseMargin
        /\ browser \div 2 \in Nat
    BY <2>1, ResponseMarginAssumption DEF BudgetMilliseconds
  <2>3. ASSUME 2 * MaxCall <= browser
        PROVE  MaxCall <= browser - browser \div 2
    BY <2>1, <2>3, MaxCallAssumption
  <2>. QED
    BY <2>1, <2>2, <2>3, ResponseMarginAssumption, MaxCallAssumption
    DEF ReplayInv, InTime, AnsweredInTime
<1>. QED
  BY <1>1, ReplayInvariance, PTL

\* The rows answered are those of the page the answer names, no list with
\* more rows passes for complete, and Next is never refused.
THEOREM AnswersTellTheirPlace == Spec => []AnswerTellsItsPlace
<1>1. ReplayInv => AnswerTellsItsPlace
  BY DEF ReplayInv, AnswerTellsItsPlace
<1>. QED
  BY <1>1, ReplayInvariance, PTL

HIDE DEF Accepted, Refusal
-----------------------------------------------------------------------------
(***************************************************************************)
(* Lists in an order.  An order is a set of pairs <<earlier, later>>.      *)
(***************************************************************************)
IsOrder(order, S) ==
    /\ \A r \in S : <<r, r>> \notin order
    /\ \A r, s \in S : r # s => <<r, s>> \in order \/ <<s, r>> \in order
    /\ \A r, s, t \in S : <<r, s>> \in order /\ <<s, t>> \in order => <<r, t>> \in order

Earlier(order, S, r) == {s \in S : <<s, r>> \in order}
Rank(order, S, r) == Cardinality(Earlier(order, S, r))

\* The rows of S, each at the place its rank says.
Sorted(order, S) == [p \in 1..Cardinality(S) |-> CHOOSE r \in S : Rank(order, S, r) = p - 1]

LEMMA OrderOfPart ==
    ASSUME NEW order, NEW S, IsOrder(order, S), NEW T \in SUBSET S
    PROVE  IsOrder(order, T)
  BY DEF IsOrder

LEMMA RankTyped ==
    ASSUME NEW order, NEW S, IsFiniteSet(S), IsOrder(order, S), NEW r \in S
    PROVE  /\ Rank(order, S, r) \in Nat /\ Rank(order, S, r) < Cardinality(S)
           /\ IsFiniteSet(Earlier(order, S, r))
<1>. DEFINE earlier == Earlier(order, S, r)
<1>1. earlier \subseteq S /\ r \notin earlier
  BY DEF IsOrder, Earlier
<1>. HIDE DEF earlier
<1>2. IsFiniteSet(earlier) /\ Cardinality(earlier) \in Nat
  BY <1>1, FS_Subset, FS_CardinalityType
<1>3. Cardinality(earlier \cup {r}) = Cardinality(earlier) + 1
  BY <1>1, <1>2, FS_AddElement
<1>4. Cardinality(earlier \cup {r}) <= Cardinality(S)
  BY <1>1, FS_Subset
<1>5. Cardinality(S) \in Nat
  BY FS_CardinalityType
<1>6. Cardinality(earlier) < Cardinality(S)
  BY <1>2, <1>3, <1>4, <1>5
<1>. QED
  BY <1>2, <1>6 DEF Rank, earlier

\* What comes earlier has a lower rank.
LEMMA RankGrows ==
    ASSUME NEW order, NEW S, IsFiniteSet(S), IsOrder(order, S), NEW r \in S, NEW s \in S,
           <<r, s>> \in order
    PROVE  Rank(order, S, r) < Rank(order, S, s)
<1>. DEFINE before == Earlier(order, S, r)
            after == Earlier(order, S, s)
<1>1. before \cup {r} \subseteq after /\ r \notin before
  BY DEF IsOrder, Earlier
<1>2. IsFiniteSet(before) /\ IsFiniteSet(after)
  BY RankTyped
<1>. HIDE DEF before, after
<1>3. Cardinality(before \cup {r}) = Cardinality(before) + 1
  BY <1>1, <1>2, FS_AddElement
<1>4. Cardinality(before \cup {r}) <= Cardinality(after)
  BY <1>1, <1>2, FS_Subset
<1>5. Cardinality(before) \in Nat /\ Cardinality(after) \in Nat
  BY <1>2, FS_CardinalityType
<1>6. Cardinality(before) < Cardinality(after)
  BY <1>3, <1>4, <1>5
<1>. QED
  BY <1>6 DEF Rank, before, after

LEMMA RankOrders ==
    ASSUME NEW order, NEW S, IsFiniteSet(S), IsOrder(order, S), NEW r \in S, NEW s \in S
    PROVE  /\ Rank(order, S, r) = Rank(order, S, s) => r = s
           /\ Rank(order, S, r) < Rank(order, S, s) => <<r, s>> \in order
<1>1. r = s \/ <<r, s>> \in order \/ <<s, r>> \in order
  BY DEF IsOrder
<1>2. /\ <<r, s>> \in order => Rank(order, S, r) < Rank(order, S, s)
      /\ <<s, r>> \in order => Rank(order, S, s) < Rank(order, S, r)
  BY RankGrows
<1>. DEFINE a == Rank(order, S, r)
            b == Rank(order, S, s)
<1>3. a \in Nat /\ b \in Nat
  BY RankTyped
<1>4. r = s => a = b
  OBVIOUS
<1>. HIDE DEF a, b
<1>5. CASE r = s
  BY <1>3, <1>4, <1>5 DEF a, b
<1>6. CASE <<r, s>> \in order
  <2>1. a < b
    BY <1>2, <1>6 DEF a, b
  <2>2. a # b
    BY <1>3, <2>1
  <2>. QED
    BY <1>6, <2>2 DEF a, b
<1>7. CASE <<s, r>> \in order
  <2>1. b < a
    BY <1>2, <1>7 DEF a, b
  <2>2. a # b /\ ~(a < b)
    BY <1>3, <2>1
  <2>. QED
    BY <2>2 DEF a, b
<1>. QED
  BY <1>1, <1>5, <1>6, <1>7

\* Each rank from 0 is that of one row: the list has every row once, in order.
LEMMA SortedLists ==
    ASSUME NEW order, NEW S, IsFiniteSet(S), IsOrder(order, S)
    PROVE  /\ Cardinality(S) \in Nat
           /\ Sorted(order, S) \in [1..Cardinality(S) -> S]
           /\ \A p \in 1..Cardinality(S) : Rank(order, S, Sorted(order, S)[p]) = p - 1
           /\ \A r \in S : /\ Rank(order, S, r) + 1 \in 1..Cardinality(S)
                           /\ Sorted(order, S)[Rank(order, S, r) + 1] = r
<1>. DEFINE n == Cardinality(S)
            rank == [r \in S |-> Rank(order, S, r)]
<1>1. n \in Nat
  BY FS_CardinalityType
<1>2. \A r \in S : Rank(order, S, r) \in 0..(n - 1)
  BY <1>1, RankTyped
<1>3. rank \in Injection(S, 0..(n - 1))
  <2>1. \A r, s \in S : Rank(order, S, r) = Rank(order, S, s) => r = s
    BY RankOrders
  <2>. QED
    BY <1>2, <2>1 DEF Injection, IsInjective
<1>4. IsFiniteSet(0..(n - 1)) /\ Cardinality(0..(n - 1)) = n
  <2>1. 0 \in Int /\ n - 1 \in Int
    BY <1>1
  <2>. QED
    BY <1>1, <2>1, FS_Interval
<1>. HIDE DEF rank
<1>5. rank \in Surjection(S, 0..(n - 1))
  BY <1>3, <1>4, FS_Injection
<1>6. \A k \in 0..(n - 1) : \E r \in S : Rank(order, S, r) = k
  BY <1>5 DEF Surjection, rank
<1>7. ASSUME NEW p \in 1..n
      PROVE  Sorted(order, S)[p] \in S /\ Rank(order, S, Sorted(order, S)[p]) = p - 1
  <2>1. p - 1 \in 0..(n - 1)
    BY <1>1
  <2>2. \E r \in S : Rank(order, S, r) = p - 1
    BY <1>6, <2>1
  <2>. QED
    BY <2>2 DEF Sorted
<1>8. Sorted(order, S) \in [1..n -> S]
  BY <1>7 DEF Sorted
<1>9. ASSUME NEW r \in S
      PROVE  Rank(order, S, r) + 1 \in 1..n /\ Sorted(order, S)[Rank(order, S, r) + 1] = r
  <2>. DEFINE k == Rank(order, S, r)
              s == Sorted(order, S)[k + 1]
  <2>1. k \in 0..(n - 1)
    BY <1>2
  <2>. HIDE DEF k
  <2>2. k + 1 \in 1..n /\ (k + 1) - 1 = k
    BY <1>1, <2>1
  <2>3. s \in S /\ Rank(order, S, s) = k
    BY <1>7, <2>2
  <2>. HIDE DEF s
  <2>4. s = r
    BY <2>3, RankOrders DEF k
  <2>. QED
    BY <2>2, <2>4 DEF k, s
<1>. QED
  BY <1>1, <1>7, <1>8, <1>9

\* Where a part of the rows holds the first k of them, its list begins alike.
LEMMA FrontKept ==
    ASSUME NEW order, NEW S, IsFiniteSet(S), IsOrder(order, S), NEW T \in SUBSET S, NEW k \in Nat,
           \A r \in S : Rank(order, S, r) < k => r \in T
    PROVE  /\ Cardinality(T) <= Cardinality(S)
           /\ \A p \in 1..Cardinality(S) : p <= k =>
                 p \in 1..Cardinality(T) /\ Sorted(order, T)[p] = Sorted(order, S)[p]
<1>1. IsFiniteSet(T) /\ Cardinality(T) <= Cardinality(S) /\ IsOrder(order, T)
  BY FS_Subset, OrderOfPart
<1>2. ASSUME NEW p \in 1..Cardinality(S), p <= k
      PROVE  p \in 1..Cardinality(T) /\ Sorted(order, T)[p] = Sorted(order, S)[p]
  <2>. DEFINE r == Sorted(order, S)[p]
  <2>1. r \in S /\ Rank(order, S, r) = p - 1 /\ Cardinality(S) \in Nat
    BY SortedLists
  <2>. HIDE DEF r
  <2>2. r \in T
    BY <1>2, <2>1
  <2>3. ASSUME NEW s \in Earlier(order, S, r) PROVE s \in T
    <3>1. s \in S /\ <<s, r>> \in order
      BY DEF Earlier
    <3>2. Rank(order, S, s) < Rank(order, S, r) /\ Rank(order, S, s) \in Nat
      BY <2>1, <3>1, RankGrows, RankTyped
    <3>3. Rank(order, S, s) < k
      BY <1>2, <2>1, <3>2
    <3>. QED
      BY <3>1, <3>3
  <2>4. Earlier(order, T, r) = Earlier(order, S, r)
    BY <2>3 DEF Earlier
  <2>5. Rank(order, T, r) = p - 1
    BY <2>1, <2>4 DEF Rank
  <2>6. Rank(order, T, r) + 1 \in 1..Cardinality(T) /\ Sorted(order, T)[Rank(order, T, r) + 1] = r
    BY <1>1, <2>2, SortedLists
  <2>7. Rank(order, T, r) + 1 = p
    BY <2>5
  <2>. QED
    BY <2>6, <2>7 DEF r
<1>. QED
  BY <1>1, <1>2

\* What a page cut out of a list of n rows holds.
EndOf(n, offset, limit) == IF offset + limit < n THEN offset + limit ELSE n

IsPage(cut, list, offset, end, T) ==
    /\ cut \in Seq(T)
    /\ Len(cut) = IF offset < end THEN end - offset ELSE 0
    /\ \A i \in 1..Len(cut) : cut[i] = list[offset + i]

LEMMA CutIs ==
    ASSUME NEW T, NEW n \in Nat, NEW list \in [1..n -> T], NEW offset \in Nat, NEW limit \in Nat
    PROVE  IsPage(Cut(list, offset, limit), list, offset, EndOf(n, offset, limit), T)
<1>. DEFINE end == EndOf(n, offset, limit)
            cut == Cut(list, offset, limit)
<1>1. list \in Seq(T) /\ Len(list) = n
  OBVIOUS
<1>2. cut = SubSeq(list, offset + 1, end)
  BY <1>1 DEF Cut, EndOf
<1>3. end \in 0..n /\ offset + 1 \in 1..(offset + 1)
  BY DEF EndOf
<1>. HIDE DEF end
<1>4. \A i \in (offset + 1)..end : i \in 1..Len(list)
  BY <1>1, <1>3
<1>5. /\ SubSeq(list, offset + 1, end) \in Seq(T)
      /\ Len(SubSeq(list, offset + 1, end))
            = IF offset + 1 <= end THEN end - (offset + 1) + 1 ELSE 0
      /\ \A i \in 1..(end - (offset + 1) + 1) :
            SubSeq(list, offset + 1, end)[i] = list[offset + 1 + i - 1]
  BY <1>1, <1>3, <1>4, SubSeqProperties
<1>. HIDE DEF cut
<1>6. Len(cut) = IF offset < end THEN end - offset ELSE 0
  BY <1>2, <1>3, <1>5
<1>7. ASSUME NEW i \in 1..Len(cut) PROVE cut[i] = list[offset + i]
  <2>1. i \in 1..(end - (offset + 1) + 1) /\ offset + 1 + i - 1 = offset + i
    BY <1>3, <1>6
  <2>. QED
    BY <1>2, <1>5, <2>1
<1>. QED
  BY <1>2, <1>5, <1>6, <1>7 DEF end, cut, IsPage

\* Lists that begin alike have alike pages.
BeginsAs(part, m, list, n, k) ==
    /\ m <= n
    /\ \A p \in 1..n : p <= k => p \in 1..m /\ part[p] = list[p]

SamePage(part, list, offset, limit) == Cut(part, offset, limit) = Cut(list, offset, limit)

LEMMA CutAlike ==
    ASSUME NEW T, NEW n \in Nat, NEW list, list \in [1..n -> T],
           NEW m \in Nat, NEW part, part \in [1..m -> T],
           NEW offset \in Nat, NEW limit \in Nat, BeginsAs(part, m, list, n, offset + limit)
    PROVE  SamePage(part, list, offset, limit)
<1>. DEFINE whole == Cut(list, offset, limit)
            cut == Cut(part, offset, limit)
            e == EndOf(n, offset, limit)
            f == EndOf(m, offset, limit)
<1>0. /\ m <= n
      /\ \A p \in 1..n : p <= offset + limit => p \in 1..m /\ part[p] = list[p]
  BY DEF BeginsAs
<1>1. e = f
  <2>1. CASE n <= m
    <3>1. n = m
      BY <1>0, <2>1
    <3>. QED
      BY <3>1
  <2>2. CASE n > m
    <3>1. m + 1 \in 1..n /\ m + 1 \notin 1..m
      BY <2>2
    <3>2. ~(m + 1 <= offset + limit)
      BY <1>0, <3>1
    <3>. QED
      BY <2>2, <3>2 DEF EndOf
  <2>. QED
    BY <2>1, <2>2
<1>2. e \in Nat /\ e <= n /\ e <= offset + limit
  BY DEF EndOf
<1>31. IsPage(whole, list, offset, e, T)
  BY CutIs
<1>41. IsPage(cut, part, offset, f, T)
  BY CutIs
<1>. HIDE DEF whole, cut, e, f
<1>3. /\ whole \in Seq(T) /\ Len(whole) = IF offset < e THEN e - offset ELSE 0
      /\ \A i \in 1..Len(whole) : whole[i] = list[offset + i]
  BY <1>31 DEF IsPage
<1>4. /\ cut \in Seq(T) /\ Len(cut) = IF offset < f THEN f - offset ELSE 0
      /\ \A i \in 1..Len(cut) : cut[i] = part[offset + i]
  BY <1>41 DEF IsPage
<1>5. Len(cut) = Len(whole)
  BY <1>1, <1>3, <1>4
<1>6. ASSUME NEW i \in 1..Len(cut) PROVE cut[i] = whole[i]
  <2>1. i \in 1..Len(whole) /\ offset < e /\ i <= e - offset
    BY <1>2, <1>3, <1>5
  <2>2. offset + i \in 1..n /\ offset + i <= offset + limit
    BY <1>2, <2>1
  <2>3. part[offset + i] = list[offset + i]
    BY <1>0, <2>2
  <2>. QED
    BY <1>3, <1>4, <2>1, <2>3
<1>7. cut = whole
  BY <1>3, <1>4, <1>5, <1>6, SeqEqual
<1>. QED
  BY <1>7 DEF cut, whole, SamePage

\* The front of a list has the rows of the lowest ranks.
LEMMA FrontIs ==
    ASSUME NEW order, NEW T, IsFiniteSet(T), IsOrder(order, T), NEW k \in Nat
    PROVE  LET front == Cut(Sorted(order, T), 0, k)
           IN  /\ front \in Seq(T)
               /\ \A r \in T : Rank(order, T, r) < k => \E i \in DOMAIN front : front[i] = r
<1>. DEFINE n == Cardinality(T)
            list == Sorted(order, T)
            front == Cut(list, 0, k)
            e == IF k < n THEN k ELSE n
<1>1. n \in Nat /\ list \in [1..n -> T]
  BY SortedLists
<1>2. /\ front \in Seq(T) /\ Len(front) = e
      /\ \A i \in 1..Len(front) : front[i] = list[i]
  <2>. HIDE DEF n, list
  <2>1. 0 \in Nat /\ 0 + k = k
    OBVIOUS
  <2>2. IsPage(Cut(list, 0, k), list, 0, EndOf(n, 0, k), T)
    BY <1>1, <2>1, CutIs
  <2>3. EndOf(n, 0, k) = e /\ e \in Nat
    BY <1>1, <2>1 DEF EndOf
  <2>. HIDE DEF e, front
  <2>4. /\ front \in Seq(T) /\ Len(front) = IF 0 < e THEN e - 0 ELSE 0
        /\ \A i \in 1..Len(front) : front[i] = list[0 + i]
    BY <2>2, <2>3 DEF IsPage, front
  <2>5. Len(front) = e
    BY <2>3, <2>4
  <2>6. \A i \in 1..Len(front) : 0 + i = i
    BY <2>3, <2>5
  <2>. QED
    BY <2>4, <2>5, <2>6
<1>3. ASSUME NEW r \in T, Rank(order, T, r) < k PROVE \E i \in DOMAIN front : front[i] = r
  <2>. DEFINE i == Rank(order, T, r) + 1
  <2>1. i \in 1..n /\ list[i] = r /\ Rank(order, T, r) \in Nat
    BY SortedLists, RankTyped
  <2>2. i \in 1..e
    BY <1>1, <1>3, <2>1
  <2>. HIDE DEF i, list, e
  <2>3. i \in DOMAIN front /\ front[i] = r
    <3>. HIDE DEF front
    <3>. QED
      BY <1>2, <2>1, <2>2
  <2>. QED
    BY <2>3
<1>. QED
  BY <1>2, <1>3

LEMMA PartRank ==
    ASSUME NEW order, NEW S, IsFiniteSet(S), IsOrder(order, S), NEW T \in SUBSET S, NEW r \in T
    PROVE  Rank(order, T, r) <= Rank(order, S, r)
<1>1. Earlier(order, T, r) \subseteq Earlier(order, S, r)
  BY DEF Earlier
<1>2. IsFiniteSet(Earlier(order, S, r))
  BY RankTyped
<1>. QED
  BY <1>1, <1>2, FS_Subset DEF Rank

\* A part of a list that holds its front has its pages.
LEMMA FrontPage ==
    ASSUME NEW order, NEW S, IsFiniteSet(S), IsOrder(order, S), NEW items \in SUBSET S,
           NEW offset \in Nat, NEW limit \in Nat,
           \A r \in S : Rank(order, S, r) < offset + limit => r \in items
    PROVE  SamePage(Sorted(order, items), Sorted(order, S), offset, limit)
<1>. DEFINE n == Cardinality(S)
            m == Cardinality(items)
            list == Sorted(order, S)
            part == Sorted(order, items)
            k == offset + limit
<1>1. IsFiniteSet(items) /\ IsOrder(order, items)
  BY FS_Subset, OrderOfPart
<1>2. n \in Nat /\ list \in [1..n -> S]
  BY SortedLists
<1>3. m \in Nat /\ part \in [1..m -> items]
  BY <1>1, SortedLists
<1>4. part \in [1..m -> S]
  BY <1>3
<1>5. k \in Nat
  OBVIOUS
<1>6. m <= n /\ \A p \in 1..n : p <= k => p \in 1..m /\ part[p] = list[p]
  <2>. HIDE DEF k
  <2>1. \A r \in S : Rank(order, S, r) < k => r \in items
    BY DEF k
  <2>. QED
    BY <1>5, <2>1, FrontKept
<1>. HIDE DEF n, m, list, part
<1>7. BeginsAs(part, m, list, n, k)
  BY <1>6 DEF BeginsAs
<1>8. SamePage(part, list, offset, limit)
  BY <1>2, <1>3, <1>4, <1>7, CutAlike
<1>. QED
  BY <1>8 DEF part, list

\* A page cut out of the merged fronts of two lists is the one cut out of the
\* whole, if the fronts reach to the end of the page.
ItemsOf(list) == {list[i] : i \in DOMAIN list}

MergesInto(order, T, U, S, offset, limit) ==
    LET first == Cut(Sorted(order, T), 0, offset + limit)
        second == Cut(Sorted(order, U), 0, offset + limit)
    IN  Cut(Sorted(order, ItemsOf(first) \cup ItemsOf(second)), offset, limit)
            = Cut(Sorted(order, S), offset, limit)

LEMMA MergedPage ==
    ASSUME NEW order, NEW S, IsFiniteSet(S), IsOrder(order, S),
           NEW T \in SUBSET S, NEW U \in SUBSET S, S = T \cup U,
           NEW offset \in Nat, NEW limit \in Nat
    PROVE  MergesInto(order, T, U, S, offset, limit)
<1>. DEFINE k == offset + limit
            first == Cut(Sorted(order, T), 0, k)
            second == Cut(Sorted(order, U), 0, k)
            items == {first[i] : i \in DOMAIN first} \cup {second[i] : i \in DOMAIN second}
<1>1. k \in Nat
  OBVIOUS
<1>2. /\ IsFiniteSet(T) /\ IsOrder(order, T)
      /\ IsFiniteSet(U) /\ IsOrder(order, U)
  BY FS_Subset, OrderOfPart
<1>. HIDE DEF k
<1>3. /\ first \in Seq(T)
      /\ \A r \in T : Rank(order, T, r) < k => \E i \in DOMAIN first : first[i] = r
  BY <1>1, <1>2, FrontIs
<1>4. /\ second \in Seq(U)
      /\ \A r \in U : Rank(order, U, r) < k => \E i \in DOMAIN second : second[i] = r
  BY <1>1, <1>2, FrontIs
<1>. HIDE DEF first, second
<1>5. items \in SUBSET S
  <2>1. \A i \in DOMAIN first : first[i] \in T
    BY <1>3
  <2>2. \A i \in DOMAIN second : second[i] \in U
    BY <1>4
  <2>. QED
    BY <2>1, <2>2
<1>6. ASSUME NEW r \in S, Rank(order, S, r) < k PROVE r \in items
  <2>1. Rank(order, S, r) \in Nat
    BY RankTyped
  <2>2. CASE r \in T
    <3>1. Rank(order, T, r) <= Rank(order, S, r) /\ Rank(order, T, r) \in Nat
      BY <1>2, <2>2, PartRank, RankTyped
    <3>2. Rank(order, T, r) < k
      BY <1>1, <1>6, <2>1, <3>1
    <3>. QED
      BY <1>3, <2>2, <3>2
  <2>3. CASE r \in U
    <3>1. Rank(order, U, r) <= Rank(order, S, r) /\ Rank(order, U, r) \in Nat
      BY <1>2, <2>3, PartRank, RankTyped
    <3>2. Rank(order, U, r) < k
      BY <1>1, <1>6, <2>1, <3>1
    <3>. QED
      BY <1>4, <2>3, <3>2
  <2>. QED
    BY <2>2, <2>3
<1>. HIDE DEF items
<1>7. \A r \in S : Rank(order, S, r) < offset + limit => r \in items
  BY <1>6 DEF k
<1>8. SamePage(Sorted(order, items), Sorted(order, S), offset, limit)
  BY <1>5, <1>7, FrontPage
<1>. QED
  BY <1>8 DEF items, first, second, k, SamePage, ItemsOf, MergesInto

(***************************************************************************)
(* The pages cut out of one list.                                          *)
(***************************************************************************)
LEMMA Quotient ==
    ASSUME NEW a \in Nat, NEW P \in Nat \ {0}
    PROVE  /\ a \div P \in Nat
           /\ (a \div P) * P \in Nat
           /\ (a \div P) * P <= a
           /\ a < (a \div P) * P + P
  OBVIOUS

LEMMA TimesGrows ==
    ASSUME NEW P \in Nat, NEW g \in Nat, NEW h \in Nat, g <= h
    PROVE  g * P <= h * P /\ g * P \in Nat /\ h * P \in Nat
  OBVIOUS

LEMMA OneLess ==
    ASSUME NEW P \in Nat, NEW g \in Nat \ {0}
    PROVE  g - 1 \in Nat /\ (g - 1) * P \in Nat /\ (g - 1) * P + P = g * P /\ g * P \in Nat
  OBVIOUS

\* The place in the list of row i of page g.
PlaceOnPages(g, i, P) == (g - 1) * P + i

LEMMA PositionsRise ==
    ASSUME NEW P \in Nat \ {0}, NEW g \in Nat \ {0}, NEW h \in Nat \ {0},
           NEW i \in 1..P, NEW j \in 1..P, g < h \/ (g = h /\ i < j)
    PROVE  PlaceOnPages(g, i, P) < PlaceOnPages(h, j, P)
<1>1. CASE g = h
  <2>1. (g - 1) * P \in Nat
    BY OneLess
  <2>. QED
    BY <1>1, <2>1 DEF PlaceOnPages
<1>2. CASE g < h
  <2>1. (g - 1) * P \in Nat /\ (g - 1) * P + P = g * P
    BY OneLess
  <2>2. h - 1 \in Nat /\ g <= h - 1
    BY <1>2
  <2>3. g * P <= (h - 1) * P /\ g * P \in Nat /\ (h - 1) * P \in Nat
    BY <2>2, TimesGrows
  <2>. QED
    BY <2>1, <2>3 DEF PlaceOnPages
<1>. QED
  BY <1>1, <1>2

\* The page and the row on it at which place p of the list is shown.
LEMMA PlaceIsShown ==
    ASSUME NEW P \in Nat \ {0}, NEW N \in Nat, NEW p \in 1..N
    PROVE  LET g == ((p - 1) \div P) + 1
               i == p - (g - 1) * P
           IN  /\ g \in 1..((N + P - 1) \div P) /\ i \in 1..P
               /\ PlaceOnPages(g, i, P) = p
<1>. DEFINE d == (p - 1) \div P
            q == (N + P - 1) \div P
            i == p - d * P
<1>1. d \in Nat /\ d * P \in Nat /\ d * P <= p - 1 /\ p - 1 < d * P + P
  BY Quotient
<1>2. q \in Nat /\ q * P \in Nat /\ N + P - 1 < q * P + P
  <2>1. N + P - 1 \in Nat
    OBVIOUS
  <2>. QED
    BY <2>1, Quotient
<1>. HIDE DEF d, q
<1>3. d * P < q * P
  BY <1>1, <1>2
<1>4. d < q
  <2>1. ASSUME q <= d PROVE FALSE
    <3>1. q * P <= d * P
      BY <1>1, <1>2, <2>1, TimesGrows
    <3>. QED
      BY <1>1, <1>2, <1>3, <3>1
  <2>. QED
    BY <1>1, <1>2, <2>1
<1>5. d + 1 \in 1..q /\ (d + 1) - 1 = d
  BY <1>1, <1>2, <1>4
<1>6. i \in 1..P /\ d * P + i = p
  BY <1>1
<1>. QED
  BY <1>5, <1>6 DEF d, q, PlaceOnPages

\* Before the last page, a page is full.
LEMMA PageIsFull ==
    ASSUME NEW P \in Nat \ {0}, NEW N \in Nat, NEW g \in 1..((N + P - 1) \div P),
           g + 1 \in 1..((N + P - 1) \div P)
    PROVE  (g - 1) * P \in Nat /\ (g - 1) * P < EndOf(N, (g - 1) * P, P)
           /\ EndOf(N, (g - 1) * P, P) - (g - 1) * P = P
<1>. DEFINE q == (N + P - 1) \div P
            b == (g - 1) * P
<1>1. q \in Nat /\ q * P \in Nat /\ q * P <= N + P - 1
  <2>1. N + P - 1 \in Nat
    OBVIOUS
  <2>. QED
    BY <2>1, Quotient
<1>2. g \in Nat \ {0} /\ g + 1 \in Nat /\ g + 1 <= q
  <2>. HIDE DEF q
  <2>1. g \in 1..q /\ g + 1 \in 1..q
    BY DEF q
  <2>. QED
    BY <1>1, <2>1
<1>. HIDE DEF q
<1>3. b \in Nat /\ b + P = g * P /\ g * P \in Nat
  BY <1>2, OneLess
<1>4. (g + 1) * P <= q * P /\ (g + 1) * P \in Nat
  BY <1>1, <1>2, TimesGrows
<1>5. ((g + 1) - 1) * P + P = (g + 1) * P /\ (g + 1) - 1 = g
  BY <1>2, OneLess
<1>. HIDE DEF b
<1>6. b + P < N
  BY <1>1, <1>3, <1>4, <1>5
<1>7. EndOf(N, b, P) = b + P
  BY <1>6 DEF EndOf
<1>. QED
  BY <1>3, <1>7 DEF b

\* L lists every row of S once.
IsListing(L, S) ==
    /\ L \in [1..Cardinality(S) -> S]
    /\ \A r \in S : \E p \in 1..Cardinality(S) : L[p] = r
    /\ \A p, q \in 1..Cardinality(S) : L[p] = L[q] => p = q

LastOf(S, P) == (Cardinality(S) + P - 1) \div P

\* The pages turned to are those cut out of L.
IsShownFrom(turned, L, S, P) ==
    \A g \in 1..LastOf(S, P) :
        IsPage(turned[g], L, (g - 1) * P, EndOf(Cardinality(S), (g - 1) * P, P), S)

LEMMA ShownRow ==
    ASSUME NEW S, IsFiniteSet(S), NEW L, IsListing(L, S), NEW P \in Nat \ {0},
           NEW turned, IsShownFrom(turned, L, S, P),
           NEW g \in 1..LastOf(S, P), NEW i \in DOMAIN turned[g]
    PROVE  /\ g \in Nat \ {0} /\ i \in 1..P
           /\ PlaceOnPages(g, i, P) \in 1..Cardinality(S)
           /\ turned[g][i] = L[PlaceOnPages(g, i, P)]
<1>. DEFINE N == Cardinality(S)
            b == (g - 1) * P
            e == EndOf(N, b, P)
<1>1. N \in Nat
  BY FS_CardinalityType
<1>2. g \in Nat \ {0}
  <2>1. N + P - 1 \in Nat
    BY <1>1
  <2>2. LastOf(S, P) \in Nat
    BY <2>1, Quotient DEF LastOf
  <2>. QED
    BY <2>2
<1>3. b \in Nat
  BY <1>2, OneLess
<1>4. IsPage(turned[g], L, b, e, S)
  BY DEF IsShownFrom
<1>. HIDE DEF b
<1>5. e \in Nat /\ e <= N /\ e <= b + P
  BY <1>1, <1>3 DEF EndOf
<1>. HIDE DEF e, N
<1>6. /\ turned[g] \in Seq(S) /\ Len(turned[g]) = IF b < e THEN e - b ELSE 0
      /\ \A k \in 1..Len(turned[g]) : turned[g][k] = L[b + k]
  BY <1>4 DEF IsPage
<1>7. i \in 1..Len(turned[g])
  BY <1>6
<1>8. b < e /\ i \in 1..(e - b)
  BY <1>3, <1>5, <1>6, <1>7
<1>9. i \in 1..P /\ b + i \in 1..N
  BY <1>1, <1>3, <1>5, <1>8
<1>10. turned[g][i] = L[b + i]
  BY <1>6, <1>7
<1>. QED
  BY <1>2, <1>9, <1>10 DEF b, N, PlaceOnPages

LEMMA RowIsShown ==
    ASSUME NEW S, IsFiniteSet(S), NEW L, IsListing(L, S), NEW P \in Nat \ {0},
           NEW turned, IsShownFrom(turned, L, S, P), NEW p \in 1..Cardinality(S)
    PROVE  \E g \in 1..LastOf(S, P) : \E i \in DOMAIN turned[g] : PlaceOnPages(g, i, P) = p
<1>. DEFINE N == Cardinality(S)
            g == ((p - 1) \div P) + 1
            b == (g - 1) * P
            i == p - b
            e == EndOf(N, b, P)
<1>1. N \in Nat
  BY FS_CardinalityType
<1>2. g \in 1..LastOf(S, P) /\ i \in 1..P /\ PlaceOnPages(g, i, P) = p
  BY <1>1, PlaceIsShown DEF LastOf
<1>3. g \in Nat \ {0}
  BY Quotient
<1>. HIDE DEF g
<1>4. b \in Nat
  BY <1>3, OneLess
<1>5. IsPage(turned[g], L, b, e, S)
  BY <1>2 DEF IsShownFrom
<1>. HIDE DEF b
<1>6. b + i = p /\ i \in 1..P
  BY <1>2, <1>4 DEF b
<1>7. e \in Nat /\ b < e /\ i <= e - b
  BY <1>1, <1>4, <1>6 DEF EndOf
<1>. HIDE DEF e, i
<1>8. turned[g] \in Seq(S) /\ Len(turned[g]) = IF b < e THEN e - b ELSE 0
  BY <1>5 DEF IsPage
<1>9. i \in 1..Len(turned[g])
  BY <1>4, <1>6, <1>7, <1>8
<1>10. i \in DOMAIN turned[g]
  BY <1>8, <1>9
<1>. QED
  BY <1>2, <1>10

\* A page and a row on it.
PlacesOf(turned, pages) == UNION {{<<g, i>> : i \in DOMAIN turned[g]} : g \in pages}

LEMMA PlaceOf ==
    ASSUME NEW turned, NEW pages, NEW x \in PlacesOf(turned, pages)
    PROVE  x[1] \in pages /\ x[2] \in DOMAIN turned[x[1]] /\ x = <<x[1], x[2]>>
  BY DEF PlacesOf

LEMMA EachShownOnce ==
    ASSUME NEW S, IsFiniteSet(S), NEW L, IsListing(L, S), NEW P \in Nat \ {0},
           NEW turned, IsShownFrom(turned, L, S, P), NEW r \in S
    PROVE  Cardinality({x \in PlacesOf(turned, 1..LastOf(S, P)) : turned[x[1]][x[2]] = r}) = 1
<1>. DEFINE places == PlacesOf(turned, 1..LastOf(S, P))
            those == {x \in places : turned[x[1]][x[2]] = r}
<1>1. PICK p \in 1..Cardinality(S) : L[p] = r
  BY DEF IsListing
<1>2. PICK g \in 1..LastOf(S, P) : \E i \in DOMAIN turned[g] : PlaceOnPages(g, i, P) = p
  BY RowIsShown
<1>3. PICK i \in DOMAIN turned[g] : PlaceOnPages(g, i, P) = p
  BY <1>2
<1>4. g \in Nat \ {0} /\ i \in 1..P /\ turned[g][i] = r
  BY <1>1, <1>3, ShownRow
<1>5. <<g, i>> \in places
  BY DEF PlacesOf
<1>6. ASSUME NEW x \in places, turned[x[1]][x[2]] = r PROVE x = <<g, i>>
  <2>1. x[1] \in 1..LastOf(S, P) /\ x[2] \in DOMAIN turned[x[1]] /\ x = <<x[1], x[2]>>
    BY PlaceOf
  <2>. DEFINE h == x[1]
              j == x[2]
  <2>2. /\ h \in Nat \ {0} /\ j \in 1..P
        /\ PlaceOnPages(h, j, P) \in 1..Cardinality(S) /\ turned[h][j] = L[PlaceOnPages(h, j, P)]
    BY <2>1, ShownRow
  <2>. HIDE DEF h, j
  <2>3. L[PlaceOnPages(h, j, P)] = L[p]
    BY <1>1, <1>6, <2>2 DEF h, j
  <2>4. PlaceOnPages(h, j, P) = PlaceOnPages(g, i, P) /\ p \in Nat
    BY <1>3, <2>2, <2>3 DEF IsListing
  <2>5. ~(g < h \/ (g = h /\ i < j)) /\ ~(h < g \/ (h = g /\ j < i))
    <3>1. ASSUME g < h \/ (g = h /\ i < j) PROVE FALSE
      <4>1. PlaceOnPages(g, i, P) < PlaceOnPages(h, j, P)
        BY <1>4, <2>2, <3>1, PositionsRise
      <4>. QED
        BY <1>3, <2>4, <4>1
    <3>2. ASSUME h < g \/ (h = g /\ j < i) PROVE FALSE
      <4>1. PlaceOnPages(h, j, P) < PlaceOnPages(g, i, P)
        BY <1>4, <2>2, <3>2, PositionsRise
      <4>. QED
        BY <1>3, <2>4, <4>1
    <3>. QED
      BY <3>1, <3>2
  <2>6. g = h /\ i = j
    BY <1>4, <2>2, <2>5
  <2>. QED
    BY <2>1, <2>6 DEF h, j
<1>. HIDE DEF places
<1>7. those = {<<g, i>>}
  <2>1. <<g, i>>[1] = g /\ <<g, i>>[2] = i
    OBVIOUS
  <2>2. <<g, i>> \in those
    BY <1>4, <1>5, <2>1
  <2>3. \A x \in those : x = <<g, i>>
    BY <1>6
  <2>. QED
    BY <2>2, <2>3
<1>8. Cardinality(those) = 1
  BY <1>7, FS_Singleton
<1>. QED
  BY <1>8 DEF places

LEMMA PagesAreFull ==
    ASSUME NEW S, IsFiniteSet(S), NEW L, IsListing(L, S), NEW P \in Nat \ {0},
           NEW turned, IsShownFrom(turned, L, S, P),
           NEW g \in 1..LastOf(S, P), g + 1 \in 1..LastOf(S, P)
    PROVE  Len(turned[g]) = P
<1>. DEFINE N == Cardinality(S)
            b == (g - 1) * P
            e == EndOf(N, b, P)
<1>1. N \in Nat
  BY FS_CardinalityType
<1>2. b \in Nat /\ b < e /\ e - b = P
  <2>1. g \in 1..((N + P - 1) \div P) /\ g + 1 \in 1..((N + P - 1) \div P)
    BY DEF LastOf
  <2>. HIDE DEF N
  <2>. QED
    BY <1>1, <2>1, PageIsFull
<1>3. IsPage(turned[g], L, b, e, S)
  BY DEF IsShownFrom
<1>. HIDE DEF b, e
<1>. QED
  BY <1>2, <1>3 DEF IsPage

\* No later row of L is older (newer, if asc is false) than an earlier one.
Rising(L, S, asc) ==
    \A p, q \in 1..Cardinality(S) :
        p < q => IF asc THEN L[p].at <= L[q].at ELSE L[p].at >= L[q].at

LEMMA ShownRising ==
    ASSUME NEW S, IsFiniteSet(S), NEW L, IsListing(L, S), NEW P \in Nat \ {0},
           NEW turned, IsShownFrom(turned, L, S, P), NEW asc, Rising(L, S, asc),
           NEW x \in PlacesOf(turned, 1..LastOf(S, P)), NEW y \in PlacesOf(turned, 1..LastOf(S, P)),
           y[1] > x[1] \/ (y[1] = x[1] /\ y[2] > x[2])
    PROVE  IF asc THEN turned[x[1]][x[2]].at <= turned[y[1]][y[2]].at
                  ELSE turned[x[1]][x[2]].at >= turned[y[1]][y[2]].at
<1>. DEFINE g == x[1]
            i == x[2]
            h == y[1]
            j == y[2]
<1>1. /\ g \in 1..LastOf(S, P) /\ i \in DOMAIN turned[g]
      /\ h \in 1..LastOf(S, P) /\ j \in DOMAIN turned[h]
  BY PlaceOf
<1>2. /\ g \in Nat \ {0} /\ i \in 1..P
      /\ PlaceOnPages(g, i, P) \in 1..Cardinality(S) /\ turned[g][i] = L[PlaceOnPages(g, i, P)]
  BY <1>1, ShownRow
<1>3. /\ h \in Nat \ {0} /\ j \in 1..P
      /\ PlaceOnPages(h, j, P) \in 1..Cardinality(S) /\ turned[h][j] = L[PlaceOnPages(h, j, P)]
  BY <1>1, ShownRow
<1>. HIDE DEF g, i, h, j
<1>4. g < h \/ (g = h /\ i < j)
  BY <1>2, <1>3 DEF g, i, h, j
<1>5. PlaceOnPages(g, i, P) < PlaceOnPages(h, j, P)
  BY <1>2, <1>3, <1>4, PositionsRise
<1>6. IF asc THEN turned[g][i].at <= turned[h][j].at ELSE turned[g][i].at >= turned[h][j].at
  BY <1>2, <1>3, <1>5 DEF Rising
<1>. QED
  BY <1>6 DEF g, i, h, j

LEMMA SortedIsListing ==
    ASSUME NEW order, NEW S, IsFiniteSet(S), IsOrder(order, S)
    PROVE  IsListing(Sorted(order, S), S)
<1>1. /\ Cardinality(S) \in Nat
      /\ Sorted(order, S) \in [1..Cardinality(S) -> S]
      /\ \A p \in 1..Cardinality(S) : Rank(order, S, Sorted(order, S)[p]) = p - 1
      /\ \A r \in S : /\ Rank(order, S, r) + 1 \in 1..Cardinality(S)
                      /\ Sorted(order, S)[Rank(order, S, r) + 1] = r
  BY SortedLists
<1>2. \A p, q \in 1..Cardinality(S) : Sorted(order, S)[p] = Sorted(order, S)[q] => p = q
  <2>1. SUFFICES ASSUME NEW p \in 1..Cardinality(S), NEW q \in 1..Cardinality(S),
                        Sorted(order, S)[p] = Sorted(order, S)[q]
                 PROVE  p = q
    OBVIOUS
  <2>2. p - 1 = q - 1
    BY <1>1, <2>1
  <2>. QED
    BY <1>1, <2>2
<1>. QED
  BY <1>1, <1>2 DEF IsListing

\* What comes later in the list comes later in the order.
LEMMA SortedRises ==
    ASSUME NEW order, NEW S, IsFiniteSet(S), IsOrder(order, S),
           NEW p \in 1..Cardinality(S), NEW q \in 1..Cardinality(S), p < q
    PROVE  <<Sorted(order, S)[p], Sorted(order, S)[q]>> \in order
<1>1. /\ Cardinality(S) \in Nat
      /\ Sorted(order, S)[p] \in S /\ Sorted(order, S)[q] \in S
      /\ Rank(order, S, Sorted(order, S)[p]) = p - 1
      /\ Rank(order, S, Sorted(order, S)[q]) = q - 1
  BY SortedLists
<1>2. p - 1 < q - 1
  BY <1>1
<1>. QED
  BY <1>1, <1>2, RankOrders

(***************************************************************************)
(* The lists of the two engines and of the merge.                          *)
(***************************************************************************)
Rows == [kind : {"v1", "summary", "run"}, id : Nat, at : Int]

\* An engine gives each of its workflows an id of its own.
IdsUnique(S) == \A r, s \in S : (r.kind = "v1" <=> s.kind = "v1") /\ r.id = s.id => r = s

ByAge(S, asc) == Ordered(S, Older, asc)
InMerge(S, asc) == Ordered(S, BelowInMerge, asc)

Either(a, b, asc) == (asc /\ a) \/ (~asc /\ b)
AgeBefore(r, s, asc) == Either(Older(r, s), Older(s, r), asc)
MergeBefore(r, s, asc) == Either(BelowInMerge(r, s), BelowInMerge(s, r), asc)

LEMMA ByAgeIs ==
    ASSUME NEW order, NEW S, IsFiniteSet(S), IsOrder(order, S), NEW asc \in BOOLEAN,
           \A r, s \in S : <<r, s>> \in order <=> AgeBefore(r, s, asc)
    PROVE  ByAge(S, asc) = Sorted(order, S)
<1>. DEFINE before(r) == {s \in S : IF asc THEN Older(s, r) ELSE Older(r, s)}
            chosen(p) == CHOOSE r \in S : Cardinality(before(r)) = p - 1
<1>1. ASSUME NEW r \in S PROVE before(r) = Earlier(order, S, r)
  BY DEF AgeBefore, Either, Earlier
<1>2. ASSUME NEW p \in 1..Cardinality(S) PROVE chosen(p) = Sorted(order, S)[p]
  <2>. DEFINE there == Sorted(order, S)[p]
  <2>1. there \in S /\ Rank(order, S, there) = p - 1
    BY SortedLists
  <2>. HIDE DEF there, before
  <2>2. Cardinality(before(there)) = p - 1
    BY <1>1, <2>1 DEF Rank
  <2>3. chosen(p) \in S /\ Cardinality(before(chosen(p))) = p - 1
    BY <2>1, <2>2
  <2>. HIDE DEF chosen
  <2>4. Rank(order, S, chosen(p)) = p - 1
    BY <1>1, <2>3 DEF Rank
  <2>5. chosen(p) = there
    BY <2>1, <2>3, <2>4, RankOrders
  <2>. QED
    BY <2>5 DEF there
<1>3. ByAge(S, asc) = [p \in 1..Cardinality(S) |-> chosen(p)]
  BY DEF ByAge, Ordered
<1>4. Sorted(order, S) \in [1..Cardinality(S) -> S]
  BY SortedLists
<1>. HIDE DEF chosen
<1>. QED
  BY <1>2, <1>3, <1>4

LEMMA InMergeIs ==
    ASSUME NEW order, NEW S, IsFiniteSet(S), IsOrder(order, S), NEW asc \in BOOLEAN,
           \A r, s \in S : <<r, s>> \in order <=> MergeBefore(r, s, asc)
    PROVE  InMerge(S, asc) = Sorted(order, S)
<1>. DEFINE before(r) == {s \in S : IF asc THEN BelowInMerge(s, r) ELSE BelowInMerge(r, s)}
            chosen(p) == CHOOSE r \in S : Cardinality(before(r)) = p - 1
<1>1. ASSUME NEW r \in S PROVE before(r) = Earlier(order, S, r)
  BY DEF MergeBefore, Either, Earlier
<1>2. ASSUME NEW p \in 1..Cardinality(S) PROVE chosen(p) = Sorted(order, S)[p]
  <2>. DEFINE there == Sorted(order, S)[p]
  <2>1. there \in S /\ Rank(order, S, there) = p - 1
    BY SortedLists
  <2>. HIDE DEF there, before
  <2>2. Cardinality(before(there)) = p - 1
    BY <1>1, <2>1 DEF Rank
  <2>3. chosen(p) \in S /\ Cardinality(before(chosen(p))) = p - 1
    BY <2>1, <2>2
  <2>. HIDE DEF chosen
  <2>4. Rank(order, S, chosen(p)) = p - 1
    BY <1>1, <2>3 DEF Rank
  <2>5. chosen(p) = there
    BY <2>1, <2>3, <2>4, RankOrders
  <2>. QED
    BY <2>5 DEF there
<1>3. InMerge(S, asc) = [p \in 1..Cardinality(S) |-> chosen(p)]
  BY DEF InMerge, Ordered
<1>4. Sorted(order, S) \in [1..Cardinality(S) -> S]
  BY SortedLists
<1>. HIDE DEF chosen
<1>. QED
  BY <1>2, <1>3, <1>4

Engine(r) == IF r.kind = "v1" THEN 1 ELSE 2
Spelled(r) == IF r.kind = "v1" THEN InTens(r.id) ELSE r.id

\* compareItems looks at the time, the engine, the text of the id and the id.
LEMMA BelowInMergeIs ==
    ASSUME NEW r \in Rows, NEW s \in Rows
    PROVE  BelowInMerge(r, s) <=>
              \/ r.at < s.at
              \/ r.at = s.at /\ Engine(r) < Engine(s)
              \/ r.at = s.at /\ Engine(r) = Engine(s) /\ Spelled(r) < Spelled(s)
              \/ r.at = s.at /\ Engine(r) = Engine(s) /\ Spelled(r) = Spelled(s) /\ r.id < s.id
<1>. DEFINE i == Identity(r)
            j == Identity(s)
            below(k) == i[k] < j[k] /\ \A l \in 1..(k - 1) : i[l] = j[l]
<1>1. i[1] = Engine(r) /\ i[2] = Spelled(r) /\ i[3] = r.id
  BY DEF Identity, Engine, Spelled
<1>2. j[1] = Engine(s) /\ j[2] = Spelled(s) /\ j[3] = s.id
  BY DEF Identity, Engine, Spelled
<1>3. BelowInMerge(r, s) <=> r.at < s.at \/ (r.at = s.at /\ \E k \in 1..3 : below(k))
  BY DEF BelowInMerge
<1>. HIDE DEF i, j
<1>4. below(1) <=> i[1] < j[1]
  OBVIOUS
<1>5. below(2) <=> i[1] = j[1] /\ i[2] < j[2]
  OBVIOUS
<1>6. below(3) <=> i[1] = j[1] /\ i[2] = j[2] /\ i[3] < j[3]
  OBVIOUS
<1>. HIDE DEF below
<1>7. (\E k \in 1..3 : below(k)) <=> below(1) \/ below(2) \/ below(3)
  OBVIOUS
<1>. QED
  BY <1>1, <1>2, <1>3, <1>4, <1>5, <1>6, <1>7

MergeOrder(S, asc) == {x \in S \X S : MergeBefore(x[1], x[2], asc)}
AgeOrder(S, asc) == {x \in S \X S : AgeBefore(x[1], x[2], asc)}

LEMMA MergeOrders ==
    ASSUME NEW S \in SUBSET Rows, IdsUnique(S), NEW asc \in BOOLEAN
    PROVE  IsOrder(MergeOrder(S, asc), S)
<1>1. \A r \in S : r.at \in Int /\ r.id \in Nat /\ Engine(r) \in Int /\ Spelled(r) \in Int
  BY DEF Rows, Engine, Spelled, InTens
<1>2. \A r, s \in S : r # s => r.id # s.id \/ Engine(r) # Engine(s)
  BY DEF IdsUnique, Engine
<1>3. \A r, s \in S :
         BelowInMerge(r, s) <=>
              \/ r.at < s.at
              \/ r.at = s.at /\ Engine(r) < Engine(s)
              \/ r.at = s.at /\ Engine(r) = Engine(s) /\ Spelled(r) < Spelled(s)
              \/ r.at = s.at /\ Engine(r) = Engine(s) /\ Spelled(r) = Spelled(s) /\ r.id < s.id
  BY BelowInMergeIs
<1>4. \A r \in S : ~BelowInMerge(r, r)
  BY <1>1, <1>3
<1>5. \A r, s \in S : r # s => BelowInMerge(r, s) \/ BelowInMerge(s, r)
  BY <1>1, <1>2, <1>3
<1>6. ASSUME NEW r \in S, NEW s \in S, NEW t \in S, BelowInMerge(r, s), BelowInMerge(s, t)
      PROVE  BelowInMerge(r, t)
  BY <1>1, <1>3, <1>6
<1>7. \A r, s \in S : <<r, s>> \in MergeOrder(S, asc) <=> MergeBefore(r, s, asc)
  BY DEF MergeOrder
<1>8. \A r \in S : ~MergeBefore(r, r, asc)
  BY <1>4 DEF MergeBefore, Either
<1>9. \A r, s \in S : r # s => MergeBefore(r, s, asc) \/ MergeBefore(s, r, asc)
  BY <1>5 DEF MergeBefore, Either
<1>10. \A r, s, t \in S : MergeBefore(r, s, asc) /\ MergeBefore(s, t, asc) => MergeBefore(r, t, asc)
  BY <1>6 DEF MergeBefore, Either
<1>. QED
  BY <1>7, <1>8, <1>9, <1>10 DEF IsOrder

LEMMA AgeOrders ==
    ASSUME NEW S \in SUBSET Rows, \A r, s \in S : r.id = s.id => r = s, NEW asc \in BOOLEAN
    PROVE  IsOrder(AgeOrder(S, asc), S)
<1>1. \A r \in S : r.at \in Int /\ r.id \in Nat
  BY DEF Rows
<1>2. \A r \in S : ~Older(r, r)
  BY <1>1 DEF Older
<1>3. \A r, s \in S : r # s => Older(r, s) \/ Older(s, r)
  BY <1>1 DEF Older
<1>4. ASSUME NEW r \in S, NEW s \in S, NEW t \in S, Older(r, s), Older(s, t)
      PROVE  Older(r, t)
  BY <1>1, <1>4 DEF Older
<1>5. \A r, s \in S : <<r, s>> \in AgeOrder(S, asc) <=> AgeBefore(r, s, asc)
  BY DEF AgeOrder
<1>6. \A r \in S : ~AgeBefore(r, r, asc)
  BY <1>2 DEF AgeBefore, Either
<1>7. \A r, s \in S : r # s => AgeBefore(r, s, asc) \/ AgeBefore(s, r, asc)
  BY <1>3 DEF AgeBefore, Either
<1>8. \A r, s, t \in S : AgeBefore(r, s, asc) /\ AgeBefore(s, t, asc) => AgeBefore(r, t, asc)
  BY <1>4 DEF AgeBefore, Either
<1>. QED
  BY <1>5, <1>6, <1>7, <1>8 DEF IsOrder

\* The rows of one engine, listed by age.
LEMMA ByAgeLists ==
    ASSUME NEW S \in SUBSET Rows, IsFiniteSet(S), \A r, s \in S : r.id = s.id => r = s,
           NEW asc \in BOOLEAN
    PROVE  ByAge(S, asc) = Sorted(AgeOrder(S, asc), S) /\ IsListing(ByAge(S, asc), S)
<1>. DEFINE order == AgeOrder(S, asc)
<1>1. IsOrder(order, S)
  BY AgeOrders
<1>2. \A r, s \in S : <<r, s>> \in order <=> AgeBefore(r, s, asc)
  BY DEF AgeOrder
<1>. HIDE DEF order
<1>3. ByAge(S, asc) = Sorted(order, S)
  BY <1>1, <1>2, ByAgeIs
<1>4. IsListing(Sorted(order, S), S)
  BY <1>1, SortedIsListing
<1>. QED
  BY <1>3, <1>4 DEF order

\* ... which is the order of the merge, if the rows are listed alike.
LEMMA ByAgeMerges ==
    ASSUME NEW S \in SUBSET Rows, IsFiniteSet(S), IdsUnique(S), NEW asc \in BOOLEAN,
           NEW T \in SUBSET S, \A r, s \in T : Engine(r) = Engine(s),
           \A r, s \in T : r.at = s.at => (Spelled(r) < Spelled(s) <=> r.id < s.id)
    PROVE  ByAge(T, asc) = Sorted(MergeOrder(S, asc), T)
<1>. DEFINE order == MergeOrder(S, asc)
<1>1. IsFiniteSet(T) /\ IsOrder(order, T)
  <2>1. IsOrder(order, S)
    BY MergeOrders
  <2>. HIDE DEF order
  <2>. QED
    BY <2>1, FS_Subset, OrderOfPart
<1>2. \A r \in T : r.at \in Int /\ r.id \in Nat /\ Engine(r) \in Int /\ Spelled(r) \in Int
  BY DEF Rows, Engine, Spelled, InTens
<1>3. \A r, s \in T : BelowInMerge(r, s) <=> Older(r, s)
  <2>1. SUFFICES ASSUME NEW r \in T, NEW s \in T PROVE BelowInMerge(r, s) <=> Older(r, s)
    OBVIOUS
  <2>2. BelowInMerge(r, s) <=>
              \/ r.at < s.at
              \/ r.at = s.at /\ Engine(r) < Engine(s)
              \/ r.at = s.at /\ Engine(r) = Engine(s) /\ Spelled(r) < Spelled(s)
              \/ r.at = s.at /\ Engine(r) = Engine(s) /\ Spelled(r) = Spelled(s) /\ r.id < s.id
    BY BelowInMergeIs
  <2>3. Engine(r) = Engine(s) /\ Engine(r) \in Int
    BY <1>2
  <2>4. r.at = s.at => (Spelled(r) < Spelled(s) <=> r.id < s.id)
                    /\ (Spelled(s) < Spelled(r) <=> s.id < r.id)
    OBVIOUS
  <2>. QED
    BY <1>2, <2>2, <2>3, <2>4 DEF Older
<1>4. \A r, s \in T : <<r, s>> \in order <=> AgeBefore(r, s, asc)
  <2>1. \A r, s \in T : <<r, s>> \in order <=> MergeBefore(r, s, asc)
    BY DEF MergeOrder
  <2>. HIDE DEF order
  <2>. QED
    BY <1>3, <2>1 DEF AgeBefore, MergeBefore, Either
<1>. HIDE DEF order
<1>5. ByAge(T, asc) = Sorted(order, T)
  BY <1>1, <1>4, ByAgeIs
<1>. QED
  BY <1>5 DEF order

\* The first and the second engine's rows come together as the merge of all.
LEMMA InMergeOfPart ==
    ASSUME NEW S \in SUBSET Rows, IsFiniteSet(S), IdsUnique(S), NEW asc \in BOOLEAN,
           NEW T \in SUBSET S
    PROVE  InMerge(T, asc) = Sorted(MergeOrder(S, asc), T)
<1>. DEFINE order == MergeOrder(S, asc)
<1>1. IsFiniteSet(T) /\ IsOrder(order, T)
  <2>1. IsOrder(order, S)
    BY MergeOrders
  <2>. HIDE DEF order
  <2>. QED
    BY <2>1, FS_Subset, OrderOfPart
<1>2. \A r, s \in T : <<r, s>> \in order <=> MergeBefore(r, s, asc)
  BY DEF MergeOrder
<1>. HIDE DEF order
<1>3. InMerge(T, asc) = Sorted(order, T)
  BY <1>1, <1>2, InMergeIs
<1>. QED
  BY <1>3 DEF order

\* One list after the other lists the rows of both.
LEMMA JoinedListing ==
    ASSUME NEW S, IsFiniteSet(S), NEW R \in SUBSET S, NEW M \in SUBSET S,
           R \cup M = S, R \cap M = {},
           NEW a, IsListing(a, R), NEW b, IsListing(b, M)
    PROVE  IsListing(a \o b, S)
<1>. DEFINE n == Cardinality(R)
            m == Cardinality(M)
            c == a \o b
<1>1. IsFiniteSet(R) /\ IsFiniteSet(M) /\ n \in Nat /\ m \in Nat
  BY FS_Subset, FS_CardinalityType
<1>2. Cardinality(S) = n + m
  <2>1. Cardinality(R \cap M) = 0
    BY FS_EmptySet
  <2>2. Cardinality(R \cup M) = n + m - Cardinality(R \cap M)
    BY <1>1, FS_Union
  <2>. HIDE DEF n, m
  <2>. QED
    BY <1>1, <2>1, <2>2
<1>3. /\ a \in [1..n -> R] /\ b \in [1..m -> M]
      /\ \A r \in R : \E p \in 1..n : a[p] = r
      /\ \A r \in M : \E p \in 1..m : b[p] = r
      /\ \A p, q \in 1..n : a[p] = a[q] => p = q
      /\ \A p, q \in 1..m : b[p] = b[q] => p = q
  BY DEF IsListing
<1>. HIDE DEF n, m
<1>4. a \in Seq(S) /\ b \in Seq(S) /\ Len(a) = n /\ Len(b) = m
  BY <1>1, <1>3
<1>5. /\ c \in Seq(S) /\ Len(c) = n + m
      /\ \A k \in 1..(n + m) : c[k] = IF k <= n THEN a[k] ELSE b[k - n]
  BY <1>1, <1>4
<1>. HIDE DEF c
<1>6. c \in [1..(n + m) -> S]
  BY <1>5
<1>7. ASSUME NEW r \in S PROVE \E k \in 1..(n + m) : c[k] = r
  <2>1. CASE r \in R
    <3>1. PICK p \in 1..n : a[p] = r
      BY <1>3, <2>1
    <3>2. p \in 1..(n + m) /\ p <= n
      BY <1>1
    <3>. QED
      BY <1>5, <3>1, <3>2
  <2>2. CASE r \in M
    <3>1. PICK p \in 1..m : b[p] = r
      BY <1>3, <2>2
    <3>2. n + p \in 1..(n + m) /\ ~(n + p <= n) /\ (n + p) - n = p
      BY <1>1
    <3>3. c[n + p] = b[p]
      BY <1>5, <3>2
    <3>. QED
      BY <3>1, <3>2, <3>3
  <2>. QED
    BY <2>1, <2>2
<1>8. ASSUME NEW p \in 1..(n + m), NEW q \in 1..(n + m), c[p] = c[q] PROVE p = q
  <2>1. CASE p <= n /\ q <= n
    <3>1. p \in 1..n /\ q \in 1..n
      BY <1>1, <2>1
    <3>. QED
      BY <1>3, <1>5, <1>8, <2>1, <3>1
  <2>2. CASE p > n /\ q > n
    <3>1. p - n \in 1..m /\ q - n \in 1..m /\ ~(p <= n) /\ ~(q <= n)
      BY <1>1, <2>2
    <3>2. b[p - n] = b[q - n]
      BY <1>5, <1>8, <3>1
    <3>3. p - n = q - n
      BY <1>3, <3>1, <3>2
    <3>. QED
      BY <1>1, <3>3
  <2>3. ASSUME NEW k \in 1..(n + m), NEW l \in 1..(n + m), k <= n, ~(l <= n), c[k] = c[l]
        PROVE  FALSE
    <3>1. k \in 1..n /\ l - n \in 1..m
      BY <1>1, <2>3
    <3>2. a[k] \in R /\ b[l - n] \in M
      BY <1>3, <3>1
    <3>. QED
      BY <1>5, <2>3, <3>2
  <2>. QED
    BY <1>1, <1>8, <2>1, <2>2, <2>3
<1>. QED
  BY <1>2, <1>6, <1>7, <1>8 DEF IsListing, c

\* A page over the end of the first list goes on in the second.
GoesOn(a, b, n, offset, limit) ==
    Cut(a, offset, limit) \o Cut(b, IF offset < n THEN 0 ELSE offset - n,
                                 limit - Len(Cut(a, offset, limit)))
        = Cut(a \o b, offset, limit)

LEMMA JoinedPage ==
    ASSUME NEW S, NEW n \in Nat, NEW m \in Nat, NEW a, a \in [1..n -> S], NEW b, b \in [1..m -> S],
           NEW offset \in Nat, NEW limit \in Nat
    PROVE  GoesOn(a, b, n, offset, limit)
<1>. DEFINE first == Cut(a, offset, limit)
            skipped == IF offset < n THEN 0 ELSE offset - n
            left == limit - Len(first)
            second == Cut(b, skipped, left)
            both == a \o b
            whole == Cut(both, offset, limit)
            e == EndOf(n, offset, limit)
            f == EndOf(m, skipped, left)
            w == EndOf(n + m, offset, limit)
<1>1. IsPage(first, a, offset, e, S)
  BY CutIs
<1>2. e \in Nat /\ (offset < n => e = IF offset + limit < n THEN offset + limit ELSE n)
      /\ (offset >= n => e <= offset)
  BY DEF EndOf
<1>. HIDE DEF first, e
<1>3. /\ first \in Seq(S) /\ Len(first) = IF offset < e THEN e - offset ELSE 0
      /\ \A i \in 1..Len(first) : first[i] = a[offset + i]
  BY <1>1 DEF IsPage
<1>4. skipped \in Nat /\ left \in Nat /\ Len(first) \in Nat
  BY <1>2, <1>3
<1>. HIDE DEF skipped, left
<1>5. IsPage(second, b, skipped, f, S)
  BY <1>4, CutIs
<1>. HIDE DEF second
<1>6. /\ second \in Seq(S) /\ Len(second) = IF skipped < f THEN f - skipped ELSE 0
      /\ \A i \in 1..Len(second) : second[i] = b[skipped + i]
  BY <1>5 DEF IsPage
<1>7. /\ both \in [1..(n + m) -> S]
      /\ \A k \in 1..(n + m) : both[k] = IF k <= n THEN a[k] ELSE b[k - n]
  <2>1. a \in Seq(S) /\ b \in Seq(S) /\ Len(a) = n /\ Len(b) = m
    OBVIOUS
  <2>. HIDE DEF both
  <2>2. both \in Seq(S) /\ Len(both) = n + m
    BY <2>1 DEF both
  <2>3. \A k \in 1..(n + m) : both[k] = IF k <= n THEN a[k] ELSE b[k - n]
    BY <2>1 DEF both
  <2>. QED
    BY <2>2, <2>3
<1>. HIDE DEF both
<1>8. IsPage(whole, both, offset, w, S)
  <2>1. n + m \in Nat
    OBVIOUS
  <2>. QED
    BY <1>7, <2>1, CutIs
<1>. HIDE DEF whole
<1>9. /\ whole \in Seq(S) /\ Len(whole) = IF offset < w THEN w - offset ELSE 0
      /\ \A i \in 1..Len(whole) : whole[i] = both[offset + i]
  BY <1>8 DEF IsPage
<1>10. f \in Nat /\ f = IF skipped + left < m THEN skipped + left ELSE m
  BY <1>4 DEF EndOf
<1>11. w \in Nat /\ w = IF offset + limit < n + m THEN offset + limit ELSE n + m
  BY DEF EndOf
<1>. HIDE DEF f, w
<1>12. /\ Len(first) + Len(second) = Len(whole)
       /\ Len(second) \in Nat /\ Len(whole) \in Nat
       /\ offset + Len(whole) <= n + m \/ Len(whole) = 0
  <2>1. CASE offset >= n
    <3>1. Len(first) = 0 /\ skipped = offset - n /\ left = limit
      BY <1>2, <1>3, <2>1 DEF skipped, left
    <3>2. CASE offset + limit < n + m
      <4>1. f = (offset - n) + limit /\ w = offset + limit
        BY <1>10, <1>11, <2>1, <3>1, <3>2
      <4>2. Len(second) = limit /\ Len(whole) = limit
        BY <1>6, <1>9, <2>1, <3>1, <4>1
      <4>. QED
        BY <3>1, <3>2, <4>2
    <3>3. CASE ~(offset + limit < n + m)
      <4>1. f = m /\ w = n + m
        BY <1>10, <1>11, <2>1, <3>1, <3>3
      <4>2. /\ Len(second) = IF offset - n < m THEN m - (offset - n) ELSE 0
            /\ Len(whole) = IF offset < n + m THEN (n + m) - offset ELSE 0
        BY <1>6, <1>9, <3>1, <4>1
      <4>. QED
        BY <2>1, <3>1, <4>2
    <3>. QED
      BY <3>2, <3>3
  <2>2. CASE offset < n /\ offset + limit <= n
    <3>1. Len(first) = limit /\ skipped = 0
      BY <1>2, <1>3, <2>2 DEF skipped
    <3>2. left = 0
      BY <3>1 DEF left
    <3>3. f = 0 /\ w = offset + limit
      BY <1>10, <1>11, <2>2, <3>1, <3>2
    <3>4. Len(second) = 0 /\ Len(whole) = limit
      BY <1>6, <1>9, <3>1, <3>3
    <3>. QED
      BY <2>2, <3>1, <3>4
  <2>3. CASE offset < n /\ offset + limit > n
    <3>1. e = n /\ Len(first) = n - offset /\ skipped = 0
      BY <1>2, <1>3, <2>3 DEF skipped
    <3>2. left = limit - (n - offset)
      BY <3>1 DEF left
    <3>3. /\ f = IF limit - (n - offset) < m THEN limit - (n - offset) ELSE m
          /\ w = IF offset + limit < n + m THEN offset + limit ELSE n + m
      BY <1>10, <1>11, <3>1, <3>2
    <3>4. Len(second) = f /\ Len(whole) = w - offset
      BY <1>6, <1>9, <1>10, <2>3, <3>1, <3>3
    <3>. QED
      BY <2>3, <3>1, <3>3, <3>4
  <2>. QED
    BY <2>1, <2>2, <2>3
<1>13. ASSUME NEW i \in 1..Len(whole) PROVE (first \o second)[i] = whole[i]
  <2>1. offset + i \in 1..(n + m)
    BY <1>12
  <2>2. CASE i <= Len(first)
    <3>1. i \in 1..Len(first) /\ offset + i <= n
      BY <1>2, <1>3, <1>4, <2>2
    <3>2. (first \o second)[i] = first[i]
      BY <1>3, <1>6, <3>1
    <3>. QED
      BY <1>3, <1>7, <1>9, <2>1, <3>1, <3>2
  <2>3. CASE i > Len(first)
    <3>1. /\ i - Len(first) \in 1..Len(second) /\ ~(i <= Len(first))
          /\ i \in 1..(Len(first) + Len(second))
      BY <1>4, <1>12, <2>3
    <3>2. (first \o second)[i] = second[i - Len(first)]
      BY <1>3, <1>6, <3>1
    <3>3. ~(offset + i <= n) /\ skipped + (i - Len(first)) = (offset + i) - n
      <4>1. CASE offset < n
        <5>1. skipped = 0
          BY <4>1 DEF skipped
        <5>2. Len(first) # limit => Len(first) = n - offset
          BY <1>2, <1>3, <4>1
        <5>3. Len(first) # limit
          <6>1. Len(second) > 0
            BY <1>12, <3>1
          <6>2. skipped < f
            BY <1>6, <6>1
          <6>3. left > 0
            BY <1>4, <1>10, <5>1, <6>2
          <6>. QED
            BY <1>4, <6>3 DEF left
        <5>. QED
          BY <1>4, <2>3, <5>1, <5>2, <5>3
      <4>2. CASE offset >= n
        <5>1. Len(first) = 0 /\ skipped = offset - n
          BY <1>2, <1>3, <4>2 DEF skipped
        <5>. QED
          BY <2>3, <4>2, <5>1
      <4>. QED
        BY <4>1, <4>2
    <3>4. (first \o second)[i] = b[(offset + i) - n]
      BY <1>6, <3>1, <3>2, <3>3
    <3>5. whole[i] = both[offset + i]
      BY <1>9
    <3>6. both[offset + i] = b[(offset + i) - n]
      BY <1>7, <2>1, <3>3
    <3>. QED
      BY <3>4, <3>5, <3>6
  <2>4. i \in Int /\ Len(first) \in Int
    BY <1>4, <1>12
  <2>5. i <= Len(first) \/ i > Len(first)
    BY <2>4
  <2>. QED
    BY <2>2, <2>3, <2>5, Zenon
<1>14. first \o second \in Seq(S) /\ Len(first \o second) = Len(whole)
  BY <1>3, <1>6, <1>12
<1>15. first \o second = whole
  BY <1>9, <1>13, <1>14, SeqEqual
<1>. QED
  BY <1>15 DEF whole, both, second, left, skipped, first, GoesOn

(***************************************************************************)
(* The pages of a bucket.                                                  *)
(***************************************************************************)
IsBucket(b) ==
    /\ b.rows \in SUBSET Rows /\ IsFiniteSet(b.rows) /\ IdsUnique(b.rows)
    /\ b.projected \in BOOLEAN /\ b.ascending \in BOOLEAN

LegacyList(b) == ByAge(OfKind(b, {"v1"}), b.ascending)
RunList(b) == ByAge(OfKind(b, IF b.projected THEN {"run"} ELSE {"run", "summary"}), FALSE)
SummaryList(b) == IF b.projected THEN ByAge(OfKind(b, {"summary"}), b.ascending) ELSE <<>>
V2List(b) == RunList(b) \o SummaryList(b)
V2Rows(b) == OfKind(b, {"run", "summary"})

LEMMA V2PageIs ==
    ASSUME NEW b, NEW offset, NEW limit
    PROVE  V2Page(b, offset, limit) =
               Cut(RunList(b), offset, limit)
                   \o Cut(SummaryList(b), IF offset < Len(RunList(b)) THEN 0
                                          ELSE offset - Len(RunList(b)),
                          limit - Len(Cut(RunList(b), offset, limit)))
  BY DEF V2Page, RunList, SummaryList, ByAge

LEMMA BucketFlowsIs ==
    ASSUME NEW b, NEW P, NEW g
    PROVE  BucketFlows(b, P, g) =
               IF LegacyList(b) = <<>>
               THEN V2Page(b, (g - 1) * P, P)
               ELSE Cut(InMerge(ItemsOf(V2Page(b, 0, g * P))
                                    \cup ItemsOf(Cut(LegacyList(b), 0, g * P)), b.ascending),
                        (g - 1) * P, P)
  BY DEF BucketFlows, FetchLimit, LegacyList, ByAge, InMerge, ItemsOf

LEMMA KindsOfRows ==
    ASSUME NEW b, IsBucket(b), NEW kinds
    PROVE  /\ OfKind(b, kinds) \in SUBSET b.rows /\ OfKind(b, kinds) \in SUBSET Rows
           /\ IsFiniteSet(OfKind(b, kinds))
           /\ kinds \in SUBSET {"run", "summary"} =>
                 \A r, s \in OfKind(b, kinds) : r.id = s.id => r = s
           /\ kinds = {"v1"} => \A r, s \in OfKind(b, kinds) : r.id = s.id => r = s
<1>1. OfKind(b, kinds) \in SUBSET b.rows
  BY DEF OfKind
<1>2. IsFiniteSet(OfKind(b, kinds)) /\ OfKind(b, kinds) \in SUBSET Rows
  BY <1>1, FS_Subset DEF IsBucket
<1>3. \A r \in OfKind(b, kinds) : r \in b.rows /\ r.kind \in kinds
  BY DEF OfKind
<1>4. \A r, s \in b.rows : (r.kind = "v1" <=> s.kind = "v1") /\ r.id = s.id => r = s
  BY DEF IsBucket, IdsUnique
<1>. QED
  BY <1>1, <1>2, <1>3, <1>4

\* What engine v2 answers is cut out of one list of its rows.
LEMMA V2Lists ==
    ASSUME NEW b, IsBucket(b)
    PROVE  /\ IsListing(V2List(b), V2Rows(b))
           /\ \A offset, limit \in Nat : V2Page(b, offset, limit) = Cut(V2List(b), offset, limit)
<1>. DEFINE R == OfKind(b, IF b.projected THEN {"run"} ELSE {"run", "summary"})
            M == IF b.projected THEN OfKind(b, {"summary"}) ELSE {}
            S == V2Rows(b)
            n == Cardinality(R)
            m == Cardinality(M)
            x == RunList(b)
            y == SummaryList(b)
<1>1. /\ R \in SUBSET Rows /\ IsFiniteSet(R) /\ \A r, s \in R : r.id = s.id => r = s
      /\ M \in SUBSET Rows /\ IsFiniteSet(M) /\ \A r, s \in M : r.id = s.id => r = s
  <2>1. IsFiniteSet({})
    BY FS_EmptySet
  <2>. QED
    BY <2>1, KindsOfRows
<1>2. R \cup M = S /\ R \cap M = {} /\ R \in SUBSET S /\ M \in SUBSET S
  BY DEF V2Rows, OfKind
<1>3. IsFiniteSet(S) /\ S \in SUBSET Rows
  BY KindsOfRows DEF V2Rows
<1>4. IsListing(x, R)
  <2>1. x = ByAge(R, FALSE) /\ FALSE \in BOOLEAN
    BY DEF RunList
  <2>. HIDE DEF R, x
  <2>. QED
    BY <1>1, <2>1, ByAgeLists
<1>5. IsListing(y, M)
  <2>1. CASE b.projected
    <3>1. y = ByAge(M, b.ascending) /\ b.ascending \in BOOLEAN
      BY <2>1 DEF SummaryList, IsBucket
    <3>. HIDE DEF M, y
    <3>. QED
      BY <1>1, <3>1, ByAgeLists
  <2>2. CASE ~b.projected
    <3>1. y = <<>> /\ M = {}
      BY <2>2 DEF SummaryList
    <3>2. Cardinality({}) = 0
      BY FS_EmptySet
    <3>. HIDE DEF M, y
    <3>. QED
      BY <3>1, <3>2 DEF IsListing
  <2>. QED
    BY <2>1, <2>2
<1>6. n \in Nat /\ m \in Nat
  BY <1>1, FS_CardinalityType
<1>. HIDE DEF R, M, S, x, y
<1>7. IsListing(x \o y, S)
  BY <1>2, <1>3, <1>4, <1>5, JoinedListing
<1>8. x \in [1..n -> S] /\ y \in [1..m -> S] /\ Len(x) = n
  <2>1. x \in [1..n -> R] /\ y \in [1..m -> M]
    BY <1>4, <1>5 DEF IsListing
  <2>. HIDE DEF n, m
  <2>. QED
    BY <1>2, <1>6, <2>1
<1>9. ASSUME NEW offset \in Nat, NEW limit \in Nat
      PROVE  V2Page(b, offset, limit) = Cut(x \o y, offset, limit)
  <2>. HIDE DEF n, m
  <2>1. V2Page(b, offset, limit) =
            Cut(x, offset, limit) \o Cut(y, IF offset < n THEN 0 ELSE offset - n,
                                         limit - Len(Cut(x, offset, limit)))
    BY <1>8, V2PageIs DEF x, y
  <2>2. GoesOn(x, y, n, offset, limit)
    BY <1>6, <1>8, JoinedPage
  <2>. QED
    BY <2>1, <2>2 DEF GoesOn
<1>. QED
  BY <1>7, <1>9 DEF x, y, S, V2List

\* If the rows are listed alike, that list is the one of the merge.
LEMMA V2ListMerges ==
    ASSUME NEW b, IsBucket(b), ListedAlike(b)
    PROVE  V2List(b) = Sorted(MergeOrder(b.rows, b.ascending), V2Rows(b))
<1>1. V2List(b) = ByAge(V2Rows(b), b.ascending)
  <2>1. CASE b.projected
    <3>1. OfKind(b, {"run"}) = {} /\ OfKind(b, {"summary"}) = V2Rows(b)
      BY <2>1 DEF ListedAlike, OfKind, V2Rows
    <3>2. IsListing(ByAge(OfKind(b, {"run"}), FALSE), OfKind(b, {"run"}))
      BY KindsOfRows, ByAgeLists
    <3>3. RunList(b) = <<>>
      <4>1. RunList(b) = ByAge(OfKind(b, {"run"}), FALSE)
        BY <2>1 DEF RunList
      <4>2. RunList(b) \in [1..0 -> {}]
        BY <3>1, <3>2, <4>1, FS_EmptySet DEF IsListing
      <4>. QED
        BY <4>2
    <3>4. IsListing(ByAge(V2Rows(b), b.ascending), V2Rows(b))
      BY KindsOfRows, ByAgeLists DEF V2Rows, IsBucket
    <3>5. SummaryList(b) = ByAge(V2Rows(b), b.ascending)
      BY <2>1, <3>1 DEF SummaryList
    <3>6. SummaryList(b) \in Seq(V2Rows(b))
      <4>1. Cardinality(V2Rows(b)) \in Nat
        BY KindsOfRows, FS_CardinalityType DEF V2Rows
      <4>. QED
        BY <3>4, <3>5, <4>1 DEF IsListing
    <3>. QED
      BY <3>3, <3>5, <3>6 DEF V2List
  <2>2. CASE ~b.projected
    <3>1. b.ascending = FALSE
      BY <2>2 DEF ListedAlike, IsBucket
    <3>2. RunList(b) = ByAge(V2Rows(b), b.ascending) /\ SummaryList(b) = <<>>
      BY <2>2, <3>1 DEF RunList, SummaryList, V2Rows
    <3>3. IsListing(ByAge(V2Rows(b), b.ascending), V2Rows(b))
      BY KindsOfRows, ByAgeLists DEF V2Rows, IsBucket
    <3>4. RunList(b) \in Seq(V2Rows(b))
      <4>1. Cardinality(V2Rows(b)) \in Nat
        BY KindsOfRows, FS_CardinalityType DEF V2Rows
      <4>. QED
        BY <3>2, <3>3, <4>1 DEF IsListing
    <3>. QED
      BY <3>2, <3>4 DEF V2List
  <2>. QED
    BY <2>1, <2>2
<1>2. \A r, s \in V2Rows(b) : Engine(r) = Engine(s)
  BY DEF V2Rows, OfKind, Engine
<1>3. \A r, s \in V2Rows(b) : r.at = s.at => (Spelled(r) < Spelled(s) <=> r.id < s.id)
  BY DEF V2Rows, OfKind, Spelled
<1>4. V2Rows(b) \in SUBSET b.rows
  BY KindsOfRows DEF V2Rows
<1>5. b.rows \in SUBSET Rows /\ IsFiniteSet(b.rows) /\ IdsUnique(b.rows) /\ b.ascending \in BOOLEAN
  BY DEF IsBucket
<1>6. ByAge(V2Rows(b), b.ascending) = Sorted(MergeOrder(b.rows, b.ascending), V2Rows(b))
  BY <1>2, <1>3, <1>4, <1>5, ByAgeMerges
<1>. QED
  BY <1>1, <1>6

\* The page of a bucket with workflows of both engines is cut out of the list
\* of the merge.
LEMMA MergedBucketPage ==
    ASSUME NEW b, IsBucket(b), OfKind(b, {"v1"}) # {}, ListedAlike(b),
           NEW P \in Nat \ {0}, NEW g \in Nat \ {0}
    PROVE  BucketFlows(b, P, g) =
               Cut(Sorted(MergeOrder(b.rows, b.ascending), b.rows), (g - 1) * P, P)
<1>. DEFINE order == MergeOrder(b.rows, b.ascending)
            S == b.rows
            T == V2Rows(b)
            U == OfKind(b, {"v1"})
            offset == (g - 1) * P
            first == Cut(Sorted(order, T), 0, offset + P)
            second == Cut(Sorted(order, U), 0, offset + P)
            items == ItemsOf(first) \cup ItemsOf(second)
<1>1. S \in SUBSET Rows /\ IsFiniteSet(S) /\ IdsUnique(S) /\ b.ascending \in BOOLEAN
  BY DEF IsBucket
<1>2. IsOrder(order, S)
  BY <1>1, MergeOrders
<1>3. T \in SUBSET S /\ U \in SUBSET S /\ S = T \cup U
  <2>1. S \subseteq T \cup U
    BY <1>1 DEF Rows, V2Rows, OfKind
  <2>. QED
    BY <2>1, KindsOfRows DEF V2Rows
<1>4. offset \in Nat /\ offset + P = g * P /\ P \in Nat /\ g * P \in Nat
  BY OneLess
<1>5. V2Page(b, 0, offset + P) = first
  <2>1. V2Page(b, 0, offset + P) = Cut(V2List(b), 0, offset + P)
    <3>1. 0 \in Nat /\ offset + P \in Nat
      BY <1>4
    <3>. HIDE DEF offset
    <3>. QED
      BY <3>1, V2Lists
  <2>. QED
    BY <2>1, V2ListMerges
<1>6. LegacyList(b) = Sorted(order, U)
  <2>1. \A r, s \in U : Engine(r) = Engine(s)
    BY DEF OfKind, Engine
  <2>2. \A r, s \in U : r.at = s.at => (Spelled(r) < Spelled(s) <=> r.id < s.id)
    BY DEF ListedAlike, OfKind, Spelled
  <2>. HIDE DEF U, S
  <2>3. ByAge(U, b.ascending) = Sorted(MergeOrder(S, b.ascending), U)
    BY <1>1, <1>3, <2>1, <2>2, ByAgeMerges
  <2>. QED
    BY <2>3 DEF LegacyList, U, S
<1>7. LegacyList(b) # <<>>
  <2>1. IsFiniteSet(U) /\ Cardinality(U) \in Nat
    BY KindsOfRows, FS_CardinalityType
  <2>2. IsOrder(order, U)
    BY <1>2, <1>3, OrderOfPart
  <2>. HIDE DEF order, U
  <2>3. IsListing(Sorted(order, U), U)
    BY <2>1, <2>2, SortedIsListing
  <2>4. LegacyList(b) \in [1..Cardinality(U) -> U]
    BY <1>6, <2>3 DEF IsListing
  <2>5. Cardinality(U) # 0
    BY <2>1, FS_EmptySet DEF U
  <2>. QED
    BY <2>1, <2>4, <2>5
<1>8. items \in SUBSET S /\ Cut(Sorted(order, items), offset, P) = Cut(Sorted(order, S), offset, P)
  <2>. HIDE DEF order, S, T, U, offset
  <2>1. MergesInto(order, T, U, S, offset, P)
    BY <1>1, <1>2, <1>3, <1>4, MergedPage
  <2>2. first \in Seq(T) /\ second \in Seq(U)
    <3>1. /\ IsFiniteSet(T) /\ IsOrder(order, T)
          /\ IsFiniteSet(U) /\ IsOrder(order, U)
      BY <1>1, <1>2, <1>3, FS_Subset, OrderOfPart
    <3>2. offset + P \in Nat
      BY <1>4
    <3>. QED
      BY <3>1, <3>2, FrontIs
  <2>3. ItemsOf(first) \in SUBSET T /\ ItemsOf(second) \in SUBSET U
    <3>. HIDE DEF first, second
    <3>. QED
      BY <2>2 DEF ItemsOf
  <2>. QED
    BY <1>3, <2>1, <2>3 DEF MergesInto
<1>9. InMerge(items, b.ascending) = Sorted(order, items)
  <2>. HIDE DEF items
  <2>. QED
    BY <1>1, <1>8, InMergeOfPart
<1>10. BucketFlows(b, P, g) = Cut(InMerge(items, b.ascending), offset, P)
  <2>1. BucketFlows(b, P, g) =
            Cut(InMerge(ItemsOf(V2Page(b, 0, g * P))
                            \cup ItemsOf(Cut(LegacyList(b), 0, g * P)), b.ascending),
                (g - 1) * P, P)
    BY <1>7, BucketFlowsIs
  <2>. HIDE DEF offset, order, U, T
  <2>2. V2Page(b, 0, g * P) = first /\ Cut(LegacyList(b), 0, g * P) = second
    BY <1>4, <1>5, <1>6
  <2>. QED
    BY <2>1, <2>2 DEF offset
<1>. QED
  BY <1>8, <1>9, <1>10

\* Turning the pages of any bucket, at any page size, shows each workflow once,
\* on full pages but the last, and by time where two engines are merged.  Where
\* engine v1 has workflows, each engine must list its rows as the merge does
\* (HybridWorkflowRepository::bucketFlows, V2WorkflowRepository).
THEOREM PagesHold ==
    ASSUME NEW b, IsBucket(b), NEW perPage \in Nat \ {0}
    PROVE  PagesPartition(b, perPage)
<1>. DEFINE S == b.rows
            P == perPage
            pages == 1..LastOf(S, P)
            turned == [g \in pages |-> BucketFlows(b, P, g)]
            places == PlacesOf(turned, pages)
            merged == OfKind(b, {"v1"}) # {}
            L == IF merged THEN Sorted(MergeOrder(b.rows, b.ascending), b.rows) ELSE V2List(b)
            Holds == /\ \A r \in S : Cardinality({x \in places : turned[x[1]][x[2]] = r}) = 1
                     /\ \A g \in pages : g + 1 \in pages => Len(turned[g]) = P
                     /\ merged =>
                           \A x, y \in places :
                              y[1] > x[1] \/ (y[1] = x[1] /\ y[2] > x[2]) =>
                                 IF b.ascending
                                 THEN turned[x[1]][x[2]].at <= turned[y[1]][y[2]].at
                                 ELSE turned[x[1]][x[2]].at >= turned[y[1]][y[2]].at
<1>1. S \in SUBSET Rows /\ IsFiniteSet(S) /\ IdsUnique(S) /\ b.ascending \in BOOLEAN
  BY DEF IsBucket
<1>2. pages \in SUBSET (Nat \ {0})
  <2>1. Cardinality(S) + P - 1 \in Nat
    BY <1>1, FS_CardinalityType
  <2>2. LastOf(S, P) \in Nat
    BY <2>1, Quotient DEF LastOf
  <2>. QED
    BY <2>2
<1>3. ASSUME merged => ListedAlike(b) PROVE Holds
  <2>1. IsListing(L, S)
    <3>1. CASE merged
      <4>1. IsOrder(MergeOrder(S, b.ascending), S)
        BY <1>1, MergeOrders
      <4>. QED
        BY <1>1, <3>1, <4>1, SortedIsListing
    <3>2. CASE ~merged
      <4>1. V2Rows(b) = S
        BY <1>1, <3>2 DEF V2Rows, OfKind, Rows
      <4>. QED
        BY <3>2, <4>1, V2Lists
    <3>. QED
      BY <3>1, <3>2
  <2>2. ASSUME NEW g \in pages PROVE turned[g] = Cut(L, (g - 1) * P, P)
    <3>1. g \in Nat \ {0}
      BY <1>2
    <3>2. CASE merged
      <4>1. BucketFlows(b, P, g) =
                Cut(Sorted(MergeOrder(b.rows, b.ascending), b.rows), (g - 1) * P, P)
        BY <1>3, <3>1, <3>2, MergedBucketPage
      <4>. QED
        BY <3>2, <4>1
    <3>3. CASE ~merged
      <4>1. LegacyList(b) = <<>>
        <5>1. IsListing(ByAge(OfKind(b, {"v1"}), b.ascending), OfKind(b, {"v1"}))
          BY <1>1, KindsOfRows, ByAgeLists
        <5>2. LegacyList(b) \in [1..0 -> {}]
          BY <3>3, <5>1, FS_EmptySet DEF IsListing, LegacyList
        <5>. QED
          BY <5>2
      <4>2. BucketFlows(b, P, g) = V2Page(b, (g - 1) * P, P)
        BY <4>1, BucketFlowsIs
      <4>3. (g - 1) * P \in Nat /\ P \in Nat
        BY <3>1, OneLess
      <4>4. V2Page(b, (g - 1) * P, P) = Cut(V2List(b), (g - 1) * P, P)
        BY <4>3, V2Lists
      <4>. QED
        BY <3>3, <4>2, <4>4
    <3>. QED
      BY <3>2, <3>3
  <2>3. IsShownFrom(turned, L, S, P)
    <3>1. SUFFICES ASSUME NEW g \in pages
                   PROVE  IsPage(turned[g], L, (g - 1) * P,
                                 EndOf(Cardinality(S), (g - 1) * P, P), S)
      BY DEF IsShownFrom
    <3>2. L \in [1..Cardinality(S) -> S] /\ Cardinality(S) \in Nat
      BY <1>1, <2>1, FS_CardinalityType DEF IsListing
    <3>3. (g - 1) * P \in Nat /\ P \in Nat
      BY <1>2, OneLess
    <3>. DEFINE n == Cardinality(S)
                from == (g - 1) * P
    <3>4. turned[g] = Cut(L, from, P)
      BY <2>2
    <3>. HIDE DEF L, n, from, turned, S
    <3>5. IsPage(Cut(L, from, P), L, from, EndOf(n, from, P), S)
      BY <3>2, <3>3, CutIs DEF n, from
    <3>. QED
      BY <3>4, <3>5 DEF n, from
  <2>4. merged => Rising(L, S, b.ascending)
    <3>1. SUFFICES ASSUME merged, NEW p \in 1..Cardinality(S), NEW q \in 1..Cardinality(S), p < q
                   PROVE  IF b.ascending THEN L[p].at <= L[q].at ELSE L[p].at >= L[q].at
      BY DEF Rising
    <3>. DEFINE order == MergeOrder(S, b.ascending)
                listed == Sorted(order, S)
    <3>2. IsOrder(order, S)
      BY <1>1, MergeOrders
    <3>3. <<listed[p], listed[q]>> \in order
      <4>. HIDE DEF order
      <4>. QED
        BY <1>1, <3>1, <3>2, SortedRises
    <3>4. /\ MergeBefore(listed[p], listed[q], b.ascending)
          /\ listed[p] \in Rows /\ listed[q] \in Rows
      <4>. HIDE DEF listed
      <4>. QED
        BY <1>1, <3>3 DEF MergeOrder
    <3>5. L = listed
      BY <3>1
    <3>. HIDE DEF listed, L
    <3>6. listed[p].at \in Int /\ listed[q].at \in Int
      BY <3>4 DEF Rows
    <3>7. /\ BelowInMerge(listed[p], listed[q]) => listed[p].at <= listed[q].at
          /\ BelowInMerge(listed[q], listed[p]) => listed[q].at <= listed[p].at
      BY <3>6 DEF BelowInMerge
    <3>. QED
      BY <1>1, <3>4, <3>5, <3>6, <3>7 DEF MergeBefore, Either
  <2>. HIDE DEF L, turned
  <2>5. \A r \in S : Cardinality({x \in places : turned[x[1]][x[2]] = r}) = 1
    BY <1>1, <2>1, <2>3, EachShownOnce
  <2>6. \A g \in pages : g + 1 \in pages => Len(turned[g]) = P
    BY <1>1, <2>1, <2>3, PagesAreFull
  <2>7. ASSUME merged, NEW x \in places, NEW y \in places,
               y[1] > x[1] \/ (y[1] = x[1] /\ y[2] > x[2])
        PROVE  IF b.ascending THEN turned[x[1]][x[2]].at <= turned[y[1]][y[2]].at
                              ELSE turned[x[1]][x[2]].at >= turned[y[1]][y[2]].at
    BY <1>1, <2>1, <2>3, <2>4, <2>7, ShownRising
  <2>. QED
    BY <2>5, <2>6, <2>7
<1>4. PagesPartition(b, P) <=> (~merged \/ ListedAlike(b) => Holds)
  BY DEF PagesPartition, PlacesOf, LastOf
<1>. QED
  BY <1>3, <1>4
-----------------------------------------------------------------------------
(***************************************************************************)
(* A list that says it is empty.                                           *)
(***************************************************************************)
\* Every read asks for a page that may exist, and the rows on display are
\* missing only where there are none.
Counted ==
    /\ runs \in [Buckets -> SUBSET Runs] /\ \A b \in Buckets : IsFiniteSet(runs[b])
    /\ page \in Nat \ {0}
    /\ \A q \in reads : q.page \in Nat \ {0} /\ q.route \in Routes
    /\ EmptyMeansNone

\* Each page up to the last has its run.
LEMMA RunThere ==
    ASSUME Counted, NEW b \in Buckets, NEW p \in 1..Cardinality(runs[b])
    PROVE  RunAt(b, p) # 0
<1>. DEFINE S == runs[b]
            order == {x \in S \X S : x[1] > x[2]}
            newer(r) == {s \in S : s > r}
            at == {r \in S : Cardinality(newer(r)) = p - 1}
<1>1. IsFiniteSet(S) /\ S \subseteq Nat /\ 0 \notin S
  BY WorkflowListAssumption DEF Counted
<1>2. IsOrder(order, S)
  BY <1>1 DEF IsOrder
<1>3. ASSUME NEW r \in S PROVE newer(r) = Earlier(order, S, r)
  BY DEF Earlier
<1>. DEFINE r == Sorted(order, S)[p]
<1>4. r \in S /\ Rank(order, S, r) = p - 1
  <2>. HIDE DEF order
  <2>1. p \in 1..Cardinality(S)
    OBVIOUS
  <2>. HIDE DEF S
  <2>. QED
    BY <1>1, <1>2, <2>1, SortedLists
<1>. HIDE DEF r, order
<1>5. r \in at
  BY <1>3, <1>4 DEF Rank
<1>6. RunAt(b, p) = CHOOSE s \in at : TRUE
  BY <1>5 DEF RunAt
<1>7. at \subseteq S
  OBVIOUS
<1>. HIDE DEF at, S
<1>8. RunAt(b, p) \in at
  BY <1>5, <1>6
<1>. QED
  BY <1>1, <1>7, <1>8

\* Service mode answers an empty page only of an empty bucket.
LEMMA AnswerCounted ==
    ASSUME Counted, NEW q \in reads
    PROVE  /\ ListAnswer(q).page \in Nat \ {0}
           /\ service /\ ListAnswer(q).first = 0 => ListAnswer(q).matching = 0
<1>. DEFINE b == q.route.bucket
            n == Cardinality(runs[b])
            p == AnsweredPage(b, q.page)
<1>1. b \in Buckets /\ q.page \in Nat \ {0}
  BY DEF Counted, Routes
<1>2. IsFiniteSet(runs[b]) /\ n \in Nat /\ (n = 0 <=> runs[b] = {})
  BY <1>1, FS_CardinalityType, FS_EmptySet DEF Counted
<1>3. LastPage(b) \in Nat \ {0}
  BY <1>2 DEF LastPage
<1>4. p \in Nat \ {0}
  BY <1>1, <1>3 DEF AnsweredPage
<1>5. ListAnswer(q).page = p /\ ListAnswer(q).matching = n /\ ListAnswer(q).first = RunAt(b, p)
  BY DEF ListAnswer
<1>6. ASSUME service, RunAt(b, p) = 0 PROVE n = 0
  <2>1. SUFFICES ASSUME n # 0 PROVE FALSE
    OBVIOUS
  <2>2. LastPage(b) = n
    BY <1>2, <2>1 DEF LastPage
  <2>3. p \in 1..n
    BY <1>1, <1>2, <1>6, <2>1, <2>2 DEF AnsweredPage
  <2>. QED
    BY <1>1, <1>6, <2>3, RunThere
<1>. QED
  BY <1>4, <1>5, <1>6

LEMMA CountedLoads ==
    ASSUME IInv, Counted, NEW p \in Nat \ {0}, NEW refreshing, LoadFlows(route, p, refreshing),
           UNCHANGED <<service, runs>>
    PROVE  Counted'
<1>1. /\ page' = p /\ listRequestPending'
      /\ reads' = reads \cup {[id |-> listRequest + 1, route |-> route, page |-> p,
                               refreshing |-> refreshing]}
  BY DEF LoadFlows
<1>2. route \in Routes
  BY DEF IInv, ListTypeOK
<1>3. \A q \in reads' : q.page \in Nat \ {0} /\ q.route \in Routes
  BY <1>1, <1>2 DEF Counted
<1>. QED
  BY <1>1, <1>3 DEF Counted, EmptyMeansNone

LEMMA CountedStays ==
    ASSUME Counted,
           UNCHANGED <<flows, ready, listLoadError, listRequestPending, reads, service, runs>>,
           page' = page \/ page' = 1
    PROVE  Counted'
  BY DEF Counted, EmptyMeansNone

LEMMA CountedSettles ==
    ASSUME IInv, Counted, NEW q \in reads, SettleList(q)
    PROVE  Counted'
<1>1. reads' \subseteq reads /\ UNCHANGED <<service, runs>>
  BY DEF SettleList, ListArrives, ListFails, SupersededListSettles, ReadSettles, server
<1>2. page' \in Nat \ {0} /\ EmptyMeansNone'
  <2>1. CASE ListArrives(q)
    <3>1. CASE Withheld(q) /\ UNCHANGED <<flows, page>>
      BY <2>1, <3>1 DEF Withheld, Counted, EmptyMeansNone
    <3>2. CASE ShowAnswer(q)
      <4>1. flows' = ListAnswer(q) /\ page' = ListAnswer(q).page /\ service' = service
        BY <1>1, <3>2 DEF ShowAnswer
      <4>. QED
        BY <4>1, AnswerCounted DEF EmptyMeansNone
    <3>. QED
      BY <2>1, <3>1, <3>2 DEF ListArrives
  <2>2. CASE ListFails(q)
    BY <2>2 DEF ListFails, Counted, EmptyMeansNone
  <2>3. CASE SupersededListSettles(q)
    <3>1. /\ UNCHANGED <<page, flows, ready, listLoadError, service>>
          /\ listRequestPending' = (listRequestPending /\ ~IsNewest(q)) /\ ~IsNewest(q)
      BY <2>3 DEF SupersededListSettles, ReadSettles, server
    <3>. QED
      BY <3>1 DEF Counted, EmptyMeansNone
  <2>. QED
    BY <2>1, <2>2, <2>3 DEF SettleList
<1>. QED
  BY <1>1, <1>2 DEF Counted

LEMMA CountedNext == ASSUME IInv, Counted, [ListNext]_listVars PROVE Counted'
<1>. USE DEF server, NoListStep
<1>0. 1 \in Nat \ {0}
  OBVIOUS
<1>1. CASE Mount
  BY <1>1, CountedStays DEF Mount, HandleRouteChange
<1>2. CASE Operator
  <2>1. ASSUME NEW r \in Routes, Navigate(r) PROVE Counted'
    BY <2>1, CountedStays DEF Navigate, HandleRouteChange
  <2>2. ASSUME NEW v, ChooseView(v) PROVE Counted'
    BY <2>2, CountedStays DEF ChooseView, SelectSavedView, HandleRouteChange
  <2>3. ASSUME NEW kind, NEW v, PostView(kind, v) PROVE Counted'
    BY <2>3, CountedStays DEF PostView
  <2>4. CASE Previous \/ NextPage
    <3>1. PICK p \in Nat \ {0} : TurnPage(p)
      <4>1. page \in Nat \ {0}
        BY DEF Counted
      <4>2. CASE Previous
        <5>1. page - 1 \in Nat \ {0} /\ TurnPage(page - 1)
          BY <4>1, <4>2 DEF Previous
        <5>. QED
          BY <5>1
      <4>3. CASE NextPage
        <5>1. page + 1 \in Nat \ {0} /\ TurnPage(page + 1)
          BY <4>1, <4>3 DEF NextPage
        <5>. QED
          BY <5>1
      <4>. QED
        BY <2>4, <4>2, <4>3
    <3>. QED
      BY <3>1, CountedLoads DEF TurnPage
  <2>5. CASE Retry
    <3>1. page \in Nat \ {0}
      BY DEF Counted
    <3>. QED
      BY <2>5, <3>1, CountedLoads DEF Retry
  <2>6. CASE LoadNewEntries
    BY <1>0, <2>6, CountedLoads DEF LoadNewEntries
  <2>7. CASE AutoLoadNewEntries
    BY <2>7, CountedStays DEF AutoLoadNewEntries, listing
  <2>. QED
    BY <1>2, <2>1, <2>2, <2>3, <2>4, <2>5, <2>6, <2>7
    DEF Operator, SaveCurrentView, DeleteView, UpdateView
<1>3. CASE Tick
  BY <1>0, <1>3, CountedLoads DEF Tick
<1>4. ASSUME NEW q \in reads, SettleList(q) PROVE Counted'
  BY <1>4, CountedSettles
<1>5. ASSUME NEW c \in chains, ViewsAnswered(c) PROVE Counted'
  <2>1. UNCHANGED <<service, runs>>
    BY <1>5 DEF ViewsAnswered
  <2>2. \/ NoListStep /\ (page' = page \/ page' = 1)
        \/ LoadFlows(route, page, FALSE)
    BY <1>5 DEF ViewsAnswered, SelectSavedView, HandleRouteChange
  <2>3. page \in Nat \ {0}
    BY DEF Counted
  <2>. QED
    BY <2>1, <2>2, <2>3, CountedStays, CountedLoads
<1>6. ASSUME NEW c \in chains, PreferencesAnswered(c) PROVE Counted'
  <2>1. UNCHANGED <<service, runs>>
    BY <1>6 DEF PreferencesAnswered
  <2>2. \/ NoListStep /\ page' = 1
        \/ LoadFlows(route, 1, FALSE)
    BY <1>6 DEF PreferencesAnswered, NormalizeOrLoad, HandleRouteChange
  <2>. QED
    BY <1>0, <2>1, <2>2, CountedStays, CountedLoads
<1>7. ASSUME NEW c \in chains, ViewPosted(c) \/ PostFails(c) PROVE Counted'
  BY <1>7, CountedStays DEF ViewPosted, PostFails
<1>8. ASSUME NEW p \in puts, PreferenceStored(p) PROVE Counted'
  BY <1>8, CountedStays DEF PreferenceStored, listing
<1>9. ASSUME NEW b \in Buckets, NEW r \in Runs, RunEnters(b, r) \/ RunLeaves(b, r) PROVE Counted'
  <2>1. /\ UNCHANGED <<listing, service>>
        /\ \/ runs' = [runs EXCEPT ![b] = @ \cup {r}]
           \/ runs' = [runs EXCEPT ![b] = @ \ {r}]
    BY <1>9 DEF RunEnters, RunLeaves
  <2>2. IsFiniteSet(runs[b] \cup {r}) /\ IsFiniteSet(runs[b] \ {r})
    BY FS_AddElement, FS_RemoveElement DEF Counted
  <2>3. runs' \in [Buckets -> SUBSET Runs] /\ \A c \in Buckets : IsFiniteSet(runs'[c])
    BY <2>1, <2>2 DEF Counted
  <2>. QED
    BY <2>1, <2>3 DEF Counted, EmptyMeansNone, listing
<1>10. CASE UNCHANGED listVars
  BY <1>10, CountedStays DEF listVars, listing
<1>. QED
  BY <1>1, <1>2, <1>3, <1>4, <1>5, <1>6, <1>7, <1>8, <1>9, <1>10 DEF ListNext

\* The list waits exactly while its newest read is in flight, and it says that
\* a bucket is empty only when the bucket was, however answers and failures of
\* reads of other pages and addresses overlap (loadFlows).
THEOREM ListState == ListSafeSpec => []ListTellsItsState
<1>1. ListInit => Counted
  <2>1. SUFFICES ASSUME ListInit PROVE Counted
    OBVIOUS
  <2>2. flows.first = 0 /\ flows.matching = 0
    BY <2>1 DEF ListInit, NoFlows
  <2>3. \A b \in Buckets : runs[b] = {}
    BY <2>1 DEF ListInit
  <2>4. runs \in [Buckets -> SUBSET Runs] /\ page = 1 /\ reads = {}
    BY <2>1 DEF ListInit
  <2>. QED
    BY <2>2, <2>3, <2>4, FS_EmptySet DEF Counted, EmptyMeansNone
<1>2. IInv /\ IInv' /\ Counted /\ [ListNext]_listVars => Counted'
  BY CountedNext
<1>3. IInv /\ Counted => ListTellsItsState
  BY DEF IInv, Counted, ListTellsItsState
<1>. QED
  BY <1>1, <1>2, <1>3, Invariance, PTL DEF ListSafeSpec
-----------------------------------------------------------------------------
(***************************************************************************)
(* The lists of the run.                                                   *)
(***************************************************************************)
LEMMA BothFinite ==
    ASSUME NEW S, NEW T, IsFiniteSet(S), IsFiniteSet(T)
    PROVE  IsFiniteSet(S \cup T)
  BY FS_Union

LEMMA HeldRows ==
    ASSUME NEW kind \in {"v1", "summary", "run"}, NEW ids \in SUBSET Nat, IsFiniteSet(ids),
           NEW S \in Held(kind, ids)
    PROVE  /\ S \in SUBSET Rows /\ IsFiniteSet(S)
           /\ \A r \in S : r.kind = kind /\ r.id \in ids
           /\ \A r, s \in S : r.id = s.id => r = s
<1>1. PICK chosen \in SUBSET ids :
         \E at \in [chosen -> Times] : S = {[kind |-> kind, id |-> i, at |-> at[i]] : i \in chosen}
  BY DEF Held
<1>7. PICK at \in [chosen -> Times] : S = {[kind |-> kind, id |-> i, at |-> at[i]] : i \in chosen}
  BY <1>1
<1>. DEFINE row(i) == [kind |-> kind, id |-> i, at |-> at[i]]
<1>2. S = {row(i) : i \in chosen}
  BY <1>7
<1>3. \A i \in chosen : at[i] \in Int /\ i \in Nat /\ i \in ids
  BY DEF Times
<1>4. \A i \in chosen : row(i) \in Rows /\ row(i).kind = kind /\ row(i).id = i
  BY <1>3 DEF Rows
<1>. HIDE DEF row
<1>5. IsFiniteSet(S)
  <2>1. IsFiniteSet(chosen)
    BY FS_Subset
  <2>. DEFINE rowOf == [i \in chosen |-> row(i)]
  <2>2. rowOf \in Surjection(chosen, S)
    BY <1>2 DEF Surjection
  <2>. HIDE DEF rowOf
  <2>. QED
    BY <2>1, <2>2, FS_Surjection
<1>. QED
  BY <1>2, <1>3, <1>4, <1>5

LEMMA HeldBuckets == \A b \in BucketsHeld \cup {NoBucket} : IsBucket(b)
<1>1. IsBucket(NoBucket)
  BY FS_EmptySet DEF IsBucket, NoBucket, IdsUnique
<1>2. ASSUME NEW b \in BucketsHeld PROVE IsBucket(b)
  <2>1. PICK v1 \in Held("v1", {9, 10, 11}), summaries \in Held("summary", {1, 2}),
             unprojected \in Held("run", {3}) :
             b.rows = v1 \cup summaries \cup unprojected
    BY DEF BucketsHeld
  <2>2. IsFiniteSet({9, 10, 11}) /\ IsFiniteSet({1, 2}) /\ IsFiniteSet({3})
    <3>1. \A i : IsFiniteSet({i})
      BY FS_Singleton
    <3>2. IsFiniteSet({9} \cup {10}) /\ IsFiniteSet({1} \cup {2})
      BY <3>1, BothFinite
    <3>3. IsFiniteSet(({9} \cup {10}) \cup {11})
      BY <3>1, <3>2, BothFinite
    <3>4. ({9} \cup {10}) \cup {11} = {9, 10, 11} /\ {1} \cup {2} = {1, 2}
      OBVIOUS
    <3>. QED
      BY <3>1, <3>2, <3>3, <3>4
  <2>3. /\ v1 \in SUBSET Rows /\ IsFiniteSet(v1)
        /\ \A r \in v1 : r.kind = "v1" /\ r.id \in {9, 10, 11}
        /\ \A r, s \in v1 : r.id = s.id => r = s
    <3>1. {9, 10, 11} \in SUBSET Nat /\ "v1" \in {"v1", "summary", "run"}
      OBVIOUS
    <3>. QED
      BY <2>2, <3>1, HeldRows
  <2>4. /\ summaries \in SUBSET Rows /\ IsFiniteSet(summaries)
        /\ \A r \in summaries : r.kind = "summary" /\ r.id \in {1, 2}
        /\ \A r, s \in summaries : r.id = s.id => r = s
    <3>1. {1, 2} \in SUBSET Nat /\ "summary" \in {"v1", "summary", "run"}
      OBVIOUS
    <3>. QED
      BY <2>2, <3>1, HeldRows
  <2>5. /\ unprojected \in SUBSET Rows /\ IsFiniteSet(unprojected)
        /\ \A r \in unprojected : r.kind = "run" /\ r.id \in {3}
        /\ \A r, s \in unprojected : r.id = s.id => r = s
    <3>1. {3} \in SUBSET Nat /\ "run" \in {"v1", "summary", "run"}
      OBVIOUS
    <3>. QED
      BY <2>2, <3>1, HeldRows
  <2>6. b.rows \in SUBSET Rows
    BY <2>1, <2>3, <2>4, <2>5
  <2>7. IsFiniteSet(b.rows)
    <3>1. IsFiniteSet(v1 \cup summaries)
      BY <2>3, <2>4, BothFinite
    <3>2. IsFiniteSet((v1 \cup summaries) \cup unprojected)
      BY <2>5, <3>1, BothFinite
    <3>. QED
      BY <2>1, <3>2
  <2>8. IdsUnique(b.rows)
    <3>1. SUFFICES ASSUME NEW r \in b.rows, NEW s \in b.rows,
                          r.kind = "v1" <=> s.kind = "v1", r.id = s.id
                   PROVE  r = s
      BY DEF IdsUnique
    <3>2. CASE r \in v1
      <4>1. s \notin summaries /\ s \notin unprojected
        BY <2>3, <2>4, <2>5, <3>1, <3>2
      <4>. QED
        BY <2>1, <2>3, <3>1, <3>2, <4>1
    <3>3. CASE r \in summaries
      <4>1. s \notin v1 /\ s \notin unprojected
        BY <2>3, <2>4, <2>5, <3>1, <3>3
      <4>. QED
        BY <2>1, <2>4, <3>1, <3>3, <4>1
    <3>4. CASE r \in unprojected
      <4>1. s \notin v1 /\ s \notin summaries
        BY <2>3, <2>4, <2>5, <3>1, <3>4
      <4>. QED
        BY <2>1, <2>5, <3>1, <3>4, <4>1
    <3>. QED
      BY <2>1, <3>2, <3>3, <3>4
  <2>9. b.projected \in BOOLEAN /\ b.ascending \in BOOLEAN
    BY DEF BucketsHeld
  <2>. QED
    BY <2>6, <2>7, <2>8, <2>9 DEF IsBucket
<1>. QED
  BY <1>1, <1>2

\* What a list says of itself is so: that it waits, that it is empty, and on
\* which page of a bucket of two engines each workflow stands.
THEOREM ListsTell == MCSafeSpec => []ListsTellTheirState
<1>. DEFINE Drawn == bucket \in BucketsHeld \cup {NoBucket}
            all == <<listVars, vars, preferencesVars, study, bucket>>
<1>1. MCInit => ListInit /\ Drawn
  BY DEF MCInit
<1>2. [MCNext]_all => [ListNext]_listVars
  BY DEF MCNext
<1>3. Drawn /\ [MCNext]_all => Drawn'
  BY DEF MCNext
<1>4. Drawn /\ ListTellsItsState => ListsTellTheirState
  <2>1. 1..3 \subseteq Nat \ {0}
    OBVIOUS
  <2>2. Drawn => \A perPage \in 1..3 : PagesPartition(bucket, perPage)
    BY <2>1, HeldBuckets, PagesHold
  <2>. QED
    BY <2>2 DEF ListsTellTheirState
<1>5. MCSafeSpec => ListSafeSpec
  BY <1>1, <1>2, PTL DEF MCSafeSpec, ListSafeSpec
<1>. HIDE DEF Drawn
<1>6. MCSafeSpec => []Drawn
  BY <1>1, <1>3, PTL DEF MCSafeSpec
<1>. QED
  BY <1>4, <1>5, <1>6, ListState, PTL
=============================================================================
