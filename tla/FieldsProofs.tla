---------------------------- MODULE FieldsProofs -----------------------------
(***************************************************************************)
(* What the operators of Fields return, for every sequence and every       *)
(* answer: the facts that the theorems about the figures, rows and cards   *)
(* of the screens rest on.                                                 *)
(***************************************************************************)
EXTENDS Fields, WellFoundedInduction, FiniteSetTheorems, TLAPS

\* Every set of natural numbers that is not empty has a least member.
LEMMA LeastMember ==
    ASSUME NEW T \in SUBSET Nat, T # {}
    PROVE  \E n \in T : \A m \in T : n <= m
<1> DEFINE R == OpToRel(<, Nat)
<1>1. IsWellFoundedOn(R, Nat)
  BY NatLessThanWellFounded
<1> HIDE DEF R
<1>2. PICK n \in T : \A m \in T : ~ (<<m, n>> \in R)
  BY <1>1, WFMin
<1>3. \A m \in Nat : <<m, n>> \in R <=> m < n
  BY DEF R, OpToRel
<1>4. \A m \in T : m \in Nat /\ n \in Nat /\ ~ (m < n)
  BY <1>2, <1>3
<1> QED BY <1>4

\* The first of some places is the least of them.
LEMMA FirstIsLeast ==
    ASSUME NEW places \in SUBSET Nat, places # {}
    PROVE  First(places) \in places /\ \A j \in places : First(places) <= j
  BY LeastMember DEF First

\* The place of each of some places among them: they are counted one by one.
Rank(places, i) == Cardinality({j \in places : j <= i})

LEMMA RanksAre ==
    ASSUME NEW n \in Nat, NEW places \in SUBSET (1..n)
    PROVE  /\ IsFiniteSet(places) /\ Cardinality(places) \in Nat
           /\ \A i \in places : Rank(places, i) \in 1..Cardinality(places)
           /\ \A i, j \in places : i < j => Rank(places, i) < Rank(places, j)
<1>1. IsFiniteSet(1..n)
  BY FS_Interval
<1>2. IsFiniteSet(places) /\ Cardinality(places) \in Nat
  BY <1>1, FS_Subset, FS_CardinalityType
<1> DEFINE To(i) == {j \in places : j <= i}
<1>3. \A i \in places : /\ IsFiniteSet(To(i)) /\ Cardinality(To(i)) \in Nat
                        /\ Cardinality(To(i)) <= Cardinality(places)
  BY <1>2, FS_Subset, FS_CardinalityType
<1>4. \A i \in places : Cardinality(To(i)) # 0
  <2> SUFFICES ASSUME NEW i \in places PROVE Cardinality(To(i)) # 0
    OBVIOUS
  <2>1. i \in To(i)
    OBVIOUS
  <2> QED BY <2>1, <1>3, FS_EmptySet
<1>5. ASSUME NEW i \in places, NEW j \in places, i < j
      PROVE  Cardinality(To(i)) < Cardinality(To(j))
  <2>0. \A k \in places : k \in Int
    OBVIOUS
  <2>1. To(i) \subseteq To(j) /\ j \in To(j) /\ j \notin To(i)
    <3>1. i \in Int /\ j \in Int /\ i < j
      BY <1>5, <2>0
    <3>2. \A k \in places : k <= i => k <= j
      BY <2>0, <3>1
    <3>3. j <= j /\ ~ (j <= i)
      BY <3>1
    <3> QED BY <3>2, <3>3
  <2> HIDE DEF To
  <2>2. /\ Cardinality(To(i)) <= Cardinality(To(j))
        /\ Cardinality(To(i)) = Cardinality(To(j)) => To(i) = To(j)
    BY <2>1, <1>3, FS_Subset
  <2> QED BY <2>1, <2>2, <1>3
<1> QED BY <1>2, <1>3, <1>4, <1>5 DEF Rank

\* ... and each number up to their count is the rank of one.
LEMMA RanksReach ==
    ASSUME NEW n \in Nat, NEW places \in SUBSET (1..n), NEW m \in 1..Cardinality(places)
    PROVE  \E i \in places : Rank(places, i) = m
<1>1. /\ IsFiniteSet(places) /\ Cardinality(places) \in Nat
      /\ \A i \in places : Rank(places, i) \in 1..Cardinality(places)
      /\ \A i, j \in places : i < j => Rank(places, i) < Rank(places, j)
  BY RanksAre
<1> DEFINE Ranks == {Rank(places, i) : i \in places}
           f == [i \in places |-> Rank(places, i)]
<1>2. Ranks \subseteq 1..Cardinality(places)
  BY <1>1
<1>3. f \in Bijection(places, Ranks)
  <2>1. \A i, j \in places : Rank(places, i) = Rank(places, j) => i = j
    <3> SUFFICES ASSUME NEW i \in places, NEW j \in places, i # j
                 PROVE  Rank(places, i) # Rank(places, j)
      OBVIOUS
    <3>1. i \in Int /\ j \in Int
      OBVIOUS
    <3>2. Rank(places, i) \in Int /\ Rank(places, j) \in Int
      BY <1>1
    <3>3. i < j \/ j < i
      BY <3>1
    <3> QED BY <3>2, <3>3, <1>1
  <2>2. f \in [places -> Ranks] /\ \A i \in places : f[i] = Rank(places, i)
    OBVIOUS
  <2>3. \A r \in Ranks : \E i \in places : f[i] = r
    OBVIOUS
  <2> HIDE DEF f, Ranks
  <2> QED BY <2>1, <2>2, <2>3 DEF Bijection, Injection, Surjection, IsInjective
<1>4. IsFiniteSet(Ranks) /\ Cardinality(Ranks) = Cardinality(places)
  <2> HIDE DEF f, Ranks
  <2>1. ExistsBijection(places, Ranks)
    BY <1>3 DEF ExistsBijection
  <2> QED BY <1>1, <2>1, FS_Bijection
<1>5. IsFiniteSet(1..Cardinality(places)) /\ Cardinality(1..Cardinality(places)) = Cardinality(places)
  BY <1>1, FS_Interval
<1> HIDE DEF Ranks
<1>6. Ranks = 1..Cardinality(places)
  BY <1>2, <1>4, <1>5, FS_Subset
<1> QED BY <1>6 DEF Ranks

\* The members at some places: as many as there are places, each the one at
\* its place, in their order.
LEMMA AtIs ==
    ASSUME NEW n \in Nat, NEW places \in SUBSET (1..n), NEW s
    PROVE  /\ Cardinality(places) \in Nat
           /\ DOMAIN At(places, s) = 1..Cardinality(places)
           /\ Len(At(places, s)) = Cardinality(places)
           /\ \A m \in 1..Cardinality(places) :
                 \E i \in places : At(places, s)[m] = s[i] /\ Rank(places, i) = m
<1>1. /\ IsFiniteSet(places) /\ Cardinality(places) \in Nat
      /\ \A i \in places : Rank(places, i) \in 1..Cardinality(places)
      /\ \A i, j \in places : i < j => Rank(places, i) < Rank(places, j)
  BY RanksAre
<1> DEFINE Of(m) == CHOOSE i \in places : Rank(places, i) = m
<1>2. \A m \in 1..Cardinality(places) : Of(m) \in places /\ Rank(places, Of(m)) = m
  BY RanksReach
<1>3. At(places, s) = [m \in 1..Cardinality(places) |-> s[Of(m)]]
  BY DEF At, Rank
<1> HIDE DEF Of
<1>4. \A m \in 1..Cardinality(places) : At(places, s)[m] = s[Of(m)]
  BY <1>3
<1>5. /\ DOMAIN At(places, s) = 1..Cardinality(places)
      /\ Len(At(places, s)) = Cardinality(places)
  BY <1>1, <1>3
<1> QED BY <1>1, <1>2, <1>4, <1>5

\* Nothing is at no place.
LEMMA AtNoPlace ==
    ASSUME NEW n \in Nat, NEW places \in SUBSET (1..n), NEW s
    PROVE  (At(places, s) = <<>>) <=> (places = {})
<1>1. Len(At(places, s)) = Cardinality(places) /\ IsFiniteSet(places)
  BY AtIs, RanksAre
<1>2. CASE places = {}
  <2>1. Cardinality({}) = 0
    BY FS_EmptySet
  <2>2. At(places, s) = [m \in 1..0 |-> s[CHOOSE i \in places : Cardinality({j \in places : j <= i}) = m]]
    BY <1>2, <2>1 DEF At
  <2> QED BY <1>2, <2>2
<1>3. CASE places # {}
  <2>1. Cardinality(places) # 0
    BY <1>1, <1>3, FS_EmptySet
  <2> QED BY <1>1, <1>3, <2>1
<1> QED BY <1>2, <1>3

\* Each member is one at some place, and the one at each place is a member.
LEMMA AtHolds ==
    ASSUME NEW n \in Nat, NEW places \in SUBSET (1..n), NEW s, NEW m \in 1..Cardinality(places)
    PROVE  \E i \in places : At(places, s)[m] = s[i]
<1>1. \A k \in 1..Cardinality(places) :
         \E i \in places : At(places, s)[k] = s[i] /\ Rank(places, i) = k
  BY AtIs
<1> QED BY <1>1

LEMMA AtKeeps ==
    ASSUME NEW n \in Nat, NEW places \in SUBSET (1..n), NEW s, NEW i \in places
    PROVE  At(places, s)[Rank(places, i)] = s[i] /\ Rank(places, i) \in 1..Cardinality(places)
<1>1. /\ Cardinality(places) \in Nat
      /\ \A k \in places : Rank(places, k) \in 1..Cardinality(places)
      /\ \A k, l \in places : k < l => Rank(places, k) < Rank(places, l)
  BY RanksAre
<1> DEFINE m == Rank(places, i)
<1>2. m \in 1..Cardinality(places)
  BY <1>1
<1>3. \A k \in 1..Cardinality(places) :
         \E j \in places : At(places, s)[k] = s[j] /\ Rank(places, j) = k
  BY AtIs
<1> HIDE DEF m
<1>4. PICK j \in places : At(places, s)[m] = s[j] /\ Rank(places, j) = m
  BY <1>2, <1>3
<1>5. i \in Int /\ j \in Int /\ Rank(places, i) \in Int /\ Rank(places, i) = Rank(places, j)
  BY <1>1, <1>4 DEF m
<1>6. ~ (i < j) /\ ~ (j < i)
  BY <1>1, <1>5
<1>7. i = j
  BY <1>5, <1>6
<1> QED BY <1>2, <1>4, <1>7 DEF m

\* As many members are kept of a sequence as there are places they are kept for.
LEMMA KeptLength ==
    ASSUME NEW s, NEW n \in Nat, NEW places \in SUBSET (1..n)
    PROVE  /\ Len(At(places, s)) = Cardinality(places) /\ Cardinality(places) \in Nat
           /\ DOMAIN At(places, s) = 1..Cardinality(places)
           /\ (Cardinality(places) = 0) <=> (places = {})
<1>1. IsFiniteSet(places)
  BY RanksAre
<1> QED BY <1>1, AtIs, FS_EmptySet

\* What is kept is at one of the places ...
LEMMA KeptFrom ==
    ASSUME NEW s, NEW n \in Nat, NEW places \in SUBSET (1..n), NEW m \in DOMAIN At(places, s)
    PROVE  \E i \in places : At(places, s)[m] = s[i]
<1>1. DOMAIN At(places, s) = 1..Cardinality(places)
  BY KeptLength
<1>2. m \in 1..Cardinality(places)
  BY <1>1
<1> QED BY <1>2, AtHolds

\* ... and what is at one of them is kept.
LEMMA KeptAll ==
    ASSUME NEW s, NEW n \in Nat, NEW places \in SUBSET (1..n), NEW i \in places
    PROVE  \E m \in DOMAIN At(places, s) : At(places, s)[m] = s[i]
<1>1. DOMAIN At(places, s) = 1..Cardinality(places)
  BY KeptLength
<1>2. At(places, s)[Rank(places, i)] = s[i] /\ Rank(places, i) \in 1..Cardinality(places)
  BY AtKeeps
<1> QED BY <1>1, <1>2

\* Two sequences joined: the members of the one, then those of the other.
LEMMA JoinedIs ==
    ASSUME NEW k \in Nat, NEW l \in Nat, NEW s, DOMAIN s = 1..k, NEW t, DOMAIN t = 1..l
    PROVE  /\ DOMAIN (s \o t) = 1..(k + l) /\ Len(s \o t) = k + l /\ k + l \in Nat
           /\ \A i \in 1..(k + l) : i \in 1..k \/ \E j \in 1..l : i = k + j
<1>1. Len(s) = k /\ Len(t) = l
  OBVIOUS
<1>2. DOMAIN (s \o t) = 1..(k + l) /\ Len(s \o t) = k + l
  BY <1>1
<1>3. \A i \in 1..(k + l) : i \in 1..k \/ \E j \in 1..l : i = k + j
  <2> SUFFICES ASSUME NEW i \in 1..(k + l), i \notin 1..k PROVE \E j \in 1..l : i = k + j
    OBVIOUS
  <2>1. i - k \in 1..l /\ i = k + (i - k)
    OBVIOUS
  <2> QED BY <2>1
<1> QED BY <1>2, <1>3

LEMMA JoinedBefore ==
    ASSUME NEW k \in Nat, NEW l \in Nat, NEW s, DOMAIN s = 1..k, NEW t, DOMAIN t = 1..l,
           NEW i \in 1..k
    PROVE  i \in 1..(k + l) /\ (s \o t)[i] = s[i]
<1>1. Len(s) = k /\ Len(t) = l /\ i \in 1..(k + l) /\ i <= k
  OBVIOUS
<1> QED BY <1>1

LEMMA JoinedAfter ==
    ASSUME NEW k \in Nat, NEW l \in Nat, NEW s, DOMAIN s = 1..k, NEW t, DOMAIN t = 1..l,
           NEW i \in 1..l
    PROVE  k + i \in 1..(k + l) /\ (s \o t)[k + i] = t[i]
<1>1. Len(s) = k /\ Len(t) = l
  OBVIOUS
<1>2. k + i \in 1..(k + l) /\ ~ (k + i <= k) /\ (k + i) - k = i
  OBVIOUS
<1> QED BY <1>1, <1>2

-----------------------------------------------------------------------------
\* The first field that has a value, and Absent where none has.
LEMMA FirstOfIs ==
    ASSUME NEW of, NEW n \in Nat, NEW fields, DOMAIN fields = 1..n
    PROVE  \/ /\ FirstOf(of, fields) = Absent
              /\ \A i \in 1..n : ~ Has(of, fields[i])
           \/ \E i \in 1..n :
                 /\ Has(of, fields[i]) /\ FirstOf(of, fields) = of[fields[i]]
                 /\ \A j \in 1..n : j < i => ~ Has(of, fields[j])
<1> DEFINE given == {i \in DOMAIN fields : Has(of, fields[i])}
<1>1. FirstOf(of, fields) = IF given = {} THEN Absent ELSE of[fields[First(given)]]
  BY DEF FirstOf
<1>2. CASE given = {}
  BY <1>1, <1>2
<1>3. CASE given # {}
  <2>1. First(given) \in given /\ \A j \in given : First(given) <= j
    <3>1. given \in SUBSET Nat
      OBVIOUS
    <3> HIDE DEF given
    <3> QED BY <1>3, <3>1, FirstIsLeast
  <2>2. \A j \in 1..n : j < First(given) => j \notin given
    <3>1. First(given) \in 1..n
      BY <2>1
    <3>2. \A j \in 1..n : j < First(given) => ~ (First(given) <= j)
      BY <3>1
    <3> QED BY <2>1, <3>2
  <2> QED BY <1>1, <1>3, <2>1, <2>2
<1> QED BY <1>2, <1>3

LEMMA FirstOfOne ==
    ASSUME NEW of, NEW field
    PROVE  FirstOf(of, <<field>>) = IF Has(of, field) THEN of[field] ELSE Absent
<1> DEFINE fields == <<field>>
<1>1. DOMAIN fields = 1..1 /\ fields[1] = field /\ \A i \in 1..1 : i = 1
  OBVIOUS
<1> HIDE DEF fields
<1>2. \/ /\ FirstOf(of, fields) = Absent
         /\ \A i \in 1..1 : ~ Has(of, fields[i])
      \/ \E i \in 1..1 :
            /\ Has(of, fields[i]) /\ FirstOf(of, fields) = of[fields[i]]
            /\ \A j \in 1..1 : j < i => ~ Has(of, fields[j])
  BY <1>1, FirstOfIs
<1>3. FirstOf(of, fields) = IF Has(of, field) THEN of[field] ELSE Absent
  BY <1>1, <1>2
<1> QED BY <1>3 DEF fields

LEMMA FirstOfTwo ==
    ASSUME NEW of, NEW one, NEW other
    PROVE  FirstOf(of, <<one, other>>) =
              IF Has(of, one) THEN of[one] ELSE IF Has(of, other) THEN of[other] ELSE Absent
<1> DEFINE fields == <<one, other>>
<1>1. DOMAIN fields = 1..2 /\ fields[1] = one /\ fields[2] = other
  OBVIOUS
<1> HIDE DEF fields
<1>2. \/ /\ FirstOf(of, fields) = Absent
         /\ \A i \in 1..2 : ~ Has(of, fields[i])
      \/ \E i \in 1..2 :
            /\ Has(of, fields[i]) /\ FirstOf(of, fields) = of[fields[i]]
            /\ \A j \in 1..2 : j < i => ~ Has(of, fields[j])
  BY <1>1, FirstOfIs
<1>3. 1 \in 1..2 /\ 2 \in 1..2 /\ \A i \in 1..2 : i = 1 \/ (i = 2 /\ 1 < i)
  OBVIOUS
<1>4. FirstOf(of, fields) =
         IF Has(of, one) THEN of[one] ELSE IF Has(of, other) THEN of[other] ELSE Absent
  BY <1>1, <1>2, <1>3
<1> QED BY <1>4 DEF fields

\* Fields that are asked for after others do not change what those give.
LEMMA FirstOfMore ==
    ASSUME NEW of, NEW k \in Nat, NEW fields, DOMAIN fields = 1..k,
           NEW l \in Nat, NEW more, DOMAIN more = 1..l, FirstOf(of, fields) # Absent
    PROVE  FirstOf(of, fields \o more) = FirstOf(of, fields)
<1> DEFINE all == fields \o more
<1>1. DOMAIN all = 1..(k + l) /\ k + l \in Nat
  BY JoinedIs
<1>2. \A i \in 1..k : i \in 1..(k + l) /\ all[i] = fields[i]
  BY JoinedBefore
<1> HIDE DEF all
<1>3. PICK i \in 1..k : /\ Has(of, fields[i]) /\ FirstOf(of, fields) = of[fields[i]]
                        /\ \A j \in 1..k : j < i => ~ Has(of, fields[j])
  BY FirstOfIs
<1>4. PICK m \in 1..(k + l) : /\ Has(of, all[m]) /\ FirstOf(of, all) = of[all[m]]
                              /\ \A j \in 1..(k + l) : j < m => ~ Has(of, all[j])
  <2>1. \/ /\ FirstOf(of, all) = Absent
           /\ \A j \in 1..(k + l) : ~ Has(of, all[j])
        \/ \E j \in 1..(k + l) :
              /\ Has(of, all[j]) /\ FirstOf(of, all) = of[all[j]]
              /\ \A o \in 1..(k + l) : o < j => ~ Has(of, all[o])
    BY <1>1, FirstOfIs
  <2>2. Has(of, all[i]) /\ i \in 1..(k + l)
    BY <1>2, <1>3
  <2> QED BY <2>1, <2>2
<1>5. ~ (i < m)
  BY <1>2, <1>3, <1>4
<1>6. ~ (m < i)
  <2> SUFFICES ASSUME m < i PROVE FALSE
    OBVIOUS
  <2>1. m \in 1..k
    OBVIOUS
  <2> QED BY <1>2, <1>3, <1>4, <2>1
<1>7. m = i
  BY <1>5, <1>6
<1>8. all[m] = fields[i]
  BY <1>2, <1>7
<1> QED BY <1>3, <1>4, <1>8 DEF all

\* Of choices of which the last always holds, the first that holds.
LEMMA FirstThatIs ==
    ASSUME NEW n \in Nat \ {0}, NEW choices, DOMAIN choices = 1..n, choices[n][1]
    PROVE  \E i \in 1..n :
              /\ choices[i][1] /\ FirstThat(choices) = choices[i][2]
              /\ \A j \in 1..n : j < i => ~ choices[j][1]
<1> DEFINE holding == {i \in DOMAIN choices : choices[i][1]}
<1>1. FirstThat(choices) = choices[First(holding)][2]
  BY DEF FirstThat
<1>2. holding \in SUBSET Nat /\ n \in holding
  OBVIOUS
<1>3. First(holding) \in holding /\ \A j \in holding : First(holding) <= j
  <2> HIDE DEF holding
  <2>1. holding # {}
    BY <1>2
  <2> QED BY <1>2, <2>1, FirstIsLeast
<1>4. \A j \in 1..n : j < First(holding) => j \notin holding
  <2>1. First(holding) \in 1..n
    BY <1>3
  <2>2. \A j \in 1..n : j < First(holding) => ~ (First(holding) <= j)
    BY <2>1
  <2> QED BY <1>3, <2>2
<1> QED BY <1>1, <1>3, <1>4
-----------------------------------------------------------------------------
\* A table of an answer, where it has it, is a sequence.
IsTable(given, table) ==
    Has(given, table) => \E n \in Nat : DOMAIN given[table] = 1..n

LEMMA TableIs ==
    ASSUME NEW given, NEW table, IsTable(given, table)
    PROVE  /\ Len(Rows(given, table)) \in Nat
           /\ DOMAIN Rows(given, table) = 1..Len(Rows(given, table))
<1>1. CASE Has(given, table)
  <2>1. PICK n \in Nat : DOMAIN given[table] = 1..n
    BY <1>1 DEF IsTable
  <2> QED BY <1>1, <2>1 DEF Rows
<1>2. CASE ~ Has(given, table)
  BY <1>2 DEF Rows
<1> QED BY <1>1, <1>2
=============================================================================
