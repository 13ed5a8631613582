-------------------------- MODULE SavedViewsProofs --------------------------
(***************************************************************************)
(* For any operators, names, buckets and number of requests: saved views   *)
(* keep unique names and change only by their owners' requests, however    *)
(* the statements of the requests interleave.                              *)
(***************************************************************************)
EXTENDS SavedViews, ListFilters, TLAPS

StoreSteps == {"storeChecks", "storeInserts"}
OwnedSteps == {"updateChecks", "updateWrites", "updateRereads", "destroyDeletes"}

\* Requests name ids already given out.
Known == \A r \in requests : r.view <= issued

\* The view of a store is not in the table yet, and no other request's.
Fresh ==
    \A r \in requests : r.step \in StoreSteps =>
        /\ r.view \notin DOMAIN views
        /\ \A s \in requests : s.view = r.view => s = r

\* A request past its find is of the owner of its view, if that is still
\* there.
Owned ==
    \A r \in requests : r.step \in OwnedSteps /\ r.view \in DOMAIN views =>
        views[r.view].owner = r.owner

IInv == TypeOK /\ Known /\ Fresh /\ Owned /\ NamesUnique /\ CreatedStays

OwnerStep ==
    \A v \in DOMAIN views :
        \/ v \in DOMAIN views' /\ views'[v] = views[v]
        \/ /\ \E r \in requests \ requests' : r.owner = views[v].owner
           /\ v \in DOMAIN views' => views'[v].owner = views[v].owner

LEMMA InitEstablishes == Init => IInv
<1>. SUFFICES ASSUME Init PROVE IInv
  OBVIOUS
<1>1. DOMAIN views = {} /\ views \in [DOMAIN views -> Rows]
  BY DEF Init
<1>. QED
  BY <1>1, BoundsAssumption
  DEF Init, IInv, TypeOK, Known, Fresh, Owned, NamesUnique, CreatedStays

LEMMA SendKeeps ==
    ASSUME IInv, NEW o \in Owners, NEW v \in Nat, NEW p \in Payloads,
           NEW step \in Steps, Send(o, v, p, step),
           IF step \in StoreSteps THEN v = issued + 1 ELSE v \in DOMAIN views,
           step \notin OwnedSteps
    PROVE  IInv' /\ OwnerStep
<1>. DEFINE new == [id |-> issued + 1, owner |-> o, view |-> v, asked |-> p,
                    loaded |-> p, step |-> step]
<1>1. /\ issued \in Nat /\ issued' = issued + 1 /\ issued' \in 0..MaxRequests
      /\ v \in 1..issued'
  BY BoundsAssumption DEF Send, IInv, TypeOK
<1>2. new \in Requests
  BY <1>1, BoundsAssumption DEF Requests
<1>3. requests' = requests \cup {new}
  BY DEF Send
<1>4. \A r \in requests : r \in Requests /\ r.view <= issued
  BY DEF IInv, TypeOK, Known
<1>5. new.view = v /\ new.step = step
  OBVIOUS
<1>. HIDE DEF new
<1>6. UNCHANGED <<views, created, destroyed>>
  BY DEF Send
<1>7. TypeOK'
  BY <1>1, <1>2, <1>3, <1>6 DEF IInv, TypeOK
<1>8. Known'
  BY <1>1, <1>3, <1>4, <1>5, BoundsAssumption DEF Known, Requests
<1>9. Fresh'
  <2>1. ASSUME v = issued + 1
        PROVE  v \notin DOMAIN views /\ \A r \in requests : r.view # v
    BY <1>1, <1>4, <2>1, BoundsAssumption DEF IInv, TypeOK, Requests
  <2>. QED
    BY <1>3, <1>5, <1>6, <2>1 DEF IInv, Fresh
<1>10. Owned'
  BY <1>3, <1>5, <1>6 DEF IInv, Owned
<1>. QED
  BY <1>6, <1>7, <1>8, <1>9, <1>10
  DEF IInv, NamesUnique, CreatedStays, OwnerStep

LEMMA EndsKeeps ==
    ASSUME IInv, NEW r \in requests, Ends(r),
           UNCHANGED <<views, issued, created, destroyed>>
    PROVE  IInv' /\ OwnerStep
  BY DEF Ends, IInv, TypeOK, Known, Fresh, Owned, NamesUnique, CreatedStays,
         OwnerStep

LEMMA GoesOnKeeps ==
    ASSUME IInv, NEW r \in requests, NEW next \in Requests, GoesOn(r, next),
           next.view = r.view, next.owner = r.owner,
           next.step \in StoreSteps => r.step \in StoreSteps,
           next.step \in OwnedSteps =>
               r.step \in OwnedSteps \/ Mutable(r.owner, r.view),
           UNCHANGED <<views, issued, created, destroyed>>
    PROVE  IInv' /\ OwnerStep
<1>1. TypeOK' /\ Known'
  BY DEF GoesOn, IInv, TypeOK, Known
<1>2. Fresh'
  BY DEF GoesOn, IInv, Fresh
<1>3. Owned'
  BY DEF GoesOn, IInv, Owned, Mutable
<1>. QED
  BY <1>1, <1>2, <1>3 DEF IInv, NamesUnique, CreatedStays, OwnerStep

LEMMA StoreChecksKeeps ==
    ASSUME IInv, NEW r \in requests, StoreChecks(r)
    PROVE  IInv' /\ OwnerStep
<1>. DEFINE next == [r EXCEPT !.step = "storeInserts"]
<1>1. /\ next \in Requests /\ next.view = r.view /\ next.owner = r.owner
      /\ next.step = "storeInserts"
  BY DEF IInv, TypeOK, Requests, Steps
<1>2. Ends(r) \/ GoesOn(r, next)
  BY DEF StoreChecks
<1>3. UNCHANGED <<views, issued, created, destroyed>> /\ r.step = "storeChecks"
  BY DEF StoreChecks
<1>. HIDE DEF next
<1>4. CASE Ends(r)
  BY <1>3, <1>4, EndsKeeps
<1>5. CASE GoesOn(r, next)
  BY <1>1, <1>3, <1>5, GoesOnKeeps DEF StoreSteps, OwnedSteps
<1>. QED
  BY <1>2, <1>4, <1>5

LEMMA StoreInsertsKeeps ==
    ASSUME IInv, NEW r \in requests, StoreInserts(r)
    PROVE  IInv' /\ OwnerStep
<1>1. CASE UNCHANGED <<views, created>>
  BY <1>1, EndsKeeps DEF StoreInserts
<1>2. CASE ~IndexRefuses(r.view, r.asked) /\ ~UNCHANGED <<views, created>>
  <2>1. /\ views' = [v \in DOMAIN views \cup {r.view} |->
                        IF v = r.view THEN [owner |-> r.owner, data |-> r.asked]
                                      ELSE views[v]]
        /\ created' = created \cup {r.view}
        /\ requests' = requests \ {r}
        /\ UNCHANGED <<issued, destroyed>>
    BY <1>2 DEF StoreInserts, Ends
  <2>2. /\ r \in Requests /\ r.view \in 1..issued /\ r.view \notin DOMAIN views
        /\ \A s \in requests' : s.view # r.view
    BY <2>1 DEF StoreInserts, IInv, TypeOK, Known, Fresh, StoreSteps, Requests
  <2>3. /\ DOMAIN views' = DOMAIN views \cup {r.view}
        /\ views'[r.view] = [owner |-> r.owner, data |-> r.asked]
        /\ \A v \in DOMAIN views : v # r.view /\ views'[v] = views[v]
    BY <2>1, <2>2
  <2>4. [owner |-> r.owner, data |-> r.asked] \in Rows
    BY <2>2 DEF Rows, Requests
  <2>5. views' \in [DOMAIN views' -> Rows]
    BY <2>1, <2>3, <2>4 DEF IInv, TypeOK
  <2>6. TypeOK'
    BY <2>1, <2>2, <2>3, <2>5 DEF IInv, TypeOK
  <2>7. Known' /\ Fresh' /\ Owned'
    BY <2>1, <2>2, <2>3 DEF IInv, Known, Fresh, Owned
  <2>8. NamesUnique'
    <3>1. \A w \in DOMAIN views : ~SameName(views[w].data, r.asked)
      BY <1>2, <2>2 DEF IndexRefuses
    <3>2. \A v \in DOMAIN views' :
              \/ v = r.view /\ views'[v].data = r.asked
              \/ v \in DOMAIN views /\ views'[v].data = views[v].data
      BY <2>3
    <3>. QED
      BY <3>1, <3>2 DEF IInv, NamesUnique, SameName
  <2>9. CreatedStays' /\ OwnerStep
    BY <2>1, <2>3 DEF IInv, CreatedStays, OwnerStep
  <2>. QED
    BY <2>6, <2>7, <2>8, <2>9 DEF IInv
<1>. QED
  BY <1>1, <1>2 DEF StoreInserts

LEMMA UpdateFindsKeeps ==
    ASSUME IInv, NEW r \in requests, UpdateFinds(r)
    PROVE  IInv' /\ OwnerStep
<1>. DEFINE next == [r EXCEPT !.step = "updateChecks",
                              !.loaded = views[r.view].data]
<1>1. UNCHANGED <<views, issued, created, destroyed>>
  BY DEF UpdateFinds
<1>2. CASE Ends(r)
  BY <1>1, <1>2, EndsKeeps
<1>3. CASE Mutable(r.owner, r.view) /\ GoesOn(r, next)
  <2>1. views[r.view].data \in Payloads
    BY <1>3 DEF Mutable, IInv, TypeOK, Rows
  <2>2. /\ next \in Requests /\ next.view = r.view /\ next.owner = r.owner
        /\ next.step = "updateChecks"
    BY <2>1 DEF IInv, TypeOK, Requests, Steps
  <2>. HIDE DEF next
  <2>. QED
    BY <1>1, <1>3, <2>2, GoesOnKeeps DEF StoreSteps
<1>. QED
  BY <1>2, <1>3 DEF UpdateFinds

LEMMA UpdateChecksKeeps ==
    ASSUME IInv, NEW r \in requests, UpdateChecks(r)
    PROVE  IInv' /\ OwnerStep
<1>. DEFINE next == [r EXCEPT !.step = "updateWrites"]
<1>1. /\ next \in Requests /\ next.view = r.view /\ next.owner = r.owner
      /\ next.step = "updateWrites"
  BY DEF IInv, TypeOK, Requests, Steps
<1>2. Ends(r) \/ GoesOn(r, next)
  BY DEF UpdateChecks
<1>3. UNCHANGED <<views, issued, created, destroyed>> /\ r.step = "updateChecks"
  BY DEF UpdateChecks
<1>. HIDE DEF next
<1>4. CASE Ends(r)
  BY <1>3, <1>4, EndsKeeps
<1>5. CASE GoesOn(r, next)
  BY <1>1, <1>3, <1>5, GoesOnKeeps DEF StoreSteps, OwnedSteps
<1>. QED
  BY <1>2, <1>4, <1>5

LEMMA UpdateWritesKeeps ==
    ASSUME IInv, NEW r \in requests, UpdateWrites(r)
    PROVE  IInv' /\ OwnerStep
<1>. DEFINE next == [r EXCEPT !.step = "updateRereads"]
<1>. DEFINE data == Written(r, views[r.view].data)
<1>1. /\ next \in Requests /\ next.view = r.view /\ next.owner = r.owner
      /\ next.step = "updateRereads"
  BY DEF IInv, TypeOK, Requests, Steps
<1>2. r.step = "updateWrites" /\ UNCHANGED <<issued, created, destroyed>>
  BY DEF UpdateWrites
<1>3. \/ UNCHANGED views /\ (Ends(r) \/ GoesOn(r, next))
      \/ /\ r.view \in DOMAIN views /\ ~IndexRefuses(r.view, data)
         /\ views' = [views EXCEPT ![r.view].data = data]
         /\ GoesOn(r, next)
  BY DEF UpdateWrites
<1>4. r.view \in DOMAIN views => data \in Payloads
  <2>. SUFFICES ASSUME r.view \in DOMAIN views PROVE data \in Payloads
    OBVIOUS
  <2>1. views[r.view].data \in Payloads /\ r.asked \in Payloads
    BY DEF IInv, TypeOK, Rows, Requests
  <2>. QED
    BY <2>1 DEF Written, Columns, Payloads
<1>. HIDE DEF next, data
<1>5. CASE UNCHANGED views /\ Ends(r)
  BY <1>2, <1>5, EndsKeeps
<1>6. CASE UNCHANGED views /\ GoesOn(r, next)
  BY <1>1, <1>2, <1>6, GoesOnKeeps DEF StoreSteps, OwnedSteps
<1>7. CASE /\ r.view \in DOMAIN views /\ ~IndexRefuses(r.view, data)
           /\ views' = [views EXCEPT ![r.view].data = data]
           /\ GoesOn(r, next)
  <2>1. DOMAIN views' = DOMAIN views /\ views \in [DOMAIN views -> Rows]
    BY <1>7 DEF IInv, TypeOK
  <2>2. /\ views'[r.view].data = data
        /\ views'[r.view].owner = views[r.view].owner
        /\ views'[r.view] \in Rows
    BY <1>4, <1>7, <2>1 DEF Rows
  <2>3. \A v \in DOMAIN views : v # r.view => views'[v] = views[v]
    BY <1>7
  <2>4. views' \in [DOMAIN views' -> Rows]
    BY <1>7, <2>1, <2>2, <2>3
  <2>5. \A v \in DOMAIN views : views'[v].owner = views[v].owner
    BY <2>2, <2>3
  <2>6. requests' = (requests \ {r}) \cup {next} /\ next # r
    BY <1>1, <1>2, <1>7 DEF GoesOn
  <2>7. TypeOK' /\ Known'
    BY <1>1, <1>2, <2>1, <2>4, <2>6 DEF IInv, TypeOK, Known
  <2>8. Fresh'
    BY <1>1, <1>2, <2>1, <2>6 DEF IInv, Fresh, StoreSteps
  <2>9. Owned'
    BY <1>1, <1>2, <2>1, <2>5, <2>6 DEF IInv, Owned, OwnedSteps
  <2>10. NamesUnique'
    <3>1. \A w \in DOMAIN views : w # r.view => ~SameName(views[w].data, data)
      BY <1>7 DEF IndexRefuses
    <3>2. \A v \in DOMAIN views' :
              \/ v = r.view /\ views'[v].data = data
              \/ v # r.view /\ v \in DOMAIN views /\ views'[v].data = views[v].data
      BY <2>1, <2>2, <2>3
    <3>. QED
      BY <3>1, <3>2 DEF IInv, NamesUnique, SameName
  <2>11. CreatedStays'
    BY <1>2, <2>1 DEF IInv, CreatedStays
  <2>12. OwnerStep
    BY <1>2, <1>7, <2>1, <2>3, <2>5, <2>6
    DEF IInv, Owned, OwnedSteps, OwnerStep
  <2>. QED
    BY <2>7, <2>8, <2>9, <2>10, <2>11, <2>12 DEF IInv
<1>. QED
  BY <1>3, <1>5, <1>6, <1>7

LEMMA DestroyFindsKeeps ==
    ASSUME IInv, NEW r \in requests, DestroyFinds(r)
    PROVE  IInv' /\ OwnerStep
<1>. DEFINE next == [r EXCEPT !.step = "destroyDeletes"]
<1>1. /\ next \in Requests /\ next.view = r.view /\ next.owner = r.owner
      /\ next.step = "destroyDeletes"
  BY DEF IInv, TypeOK, Requests, Steps
<1>2. Ends(r) \/ (Mutable(r.owner, r.view) /\ GoesOn(r, next))
  BY DEF DestroyFinds
<1>3. UNCHANGED <<views, issued, created, destroyed>>
  BY DEF DestroyFinds
<1>. HIDE DEF next
<1>4. CASE Ends(r)
  BY <1>3, <1>4, EndsKeeps
<1>5. CASE Mutable(r.owner, r.view) /\ GoesOn(r, next)
  BY <1>1, <1>3, <1>5, GoesOnKeeps DEF StoreSteps
<1>. QED
  BY <1>2, <1>4, <1>5

LEMMA DestroyDeletesKeeps ==
    ASSUME IInv, NEW r \in requests, DestroyDeletes(r)
    PROVE  IInv' /\ OwnerStep
<1>1. /\ DOMAIN views' = DOMAIN views \ {r.view}
      /\ \A v \in DOMAIN views' : views'[v] = views[v]
      /\ views' = [v \in DOMAIN views' |-> views[v]]
  BY DEF DestroyDeletes, Deleted, Restrict
<1>2. /\ r.step = "destroyDeletes" /\ requests' = requests \ {r}
      /\ destroyed' = destroyed \cup {r.view} /\ UNCHANGED <<issued, created>>
  BY DEF DestroyDeletes, Ends
<1>3. views' \in [DOMAIN views' -> Rows]
  BY <1>1 DEF IInv, TypeOK
<1>4. r.view \in 1..MaxRequests
  BY DEF IInv, TypeOK, Requests
<1>5. TypeOK' /\ Known'
  BY <1>1, <1>2, <1>3, <1>4 DEF IInv, TypeOK, Known
<1>6. Fresh' /\ Owned' /\ NamesUnique' /\ CreatedStays'
  BY <1>1, <1>2 DEF IInv, Fresh, Owned, NamesUnique, CreatedStays
<1>7. OwnerStep
  BY <1>1, <1>2 DEF IInv, Owned, OwnedSteps, OwnerStep
<1>. QED
  BY <1>5, <1>6, <1>7 DEF IInv

LEMMA NextKeeps ==
    ASSUME IInv, [Next]_vars
    PROVE  IInv' /\ (OwnerStep \/ UNCHANGED vars)
<1>1. ASSUME NEW o \in Owners, NEW p \in Payloads, SendStore(o, p)
      PROVE  IInv' /\ OwnerStep
  <2>1. issued + 1 \in Nat
    BY BoundsAssumption DEF IInv, TypeOK
  <2>. QED
    BY <1>1, <2>1, SendKeeps DEF SendStore, Steps, StoreSteps, OwnedSteps
<1>2. ASSUME NEW o \in Owners, NEW v \in DOMAIN views, NEW p \in Payloads,
             SendUpdate(o, v, p)
      PROVE  IInv' /\ OwnerStep
  <2>1. v \in Nat
    BY BoundsAssumption DEF IInv, TypeOK
  <2>. QED
    BY <1>2, <2>1, SendKeeps DEF SendUpdate, Steps, StoreSteps, OwnedSteps
<1>3. ASSUME NEW o \in Owners, NEW v \in DOMAIN views, SendDestroy(o, v)
      PROVE  IInv' /\ OwnerStep
  <2>1. v \in Nat /\ views[v].data \in Payloads
    BY BoundsAssumption DEF IInv, TypeOK, Rows
  <2>. QED
    BY <1>3, <2>1, SendKeeps DEF SendDestroy, Steps, StoreSteps, OwnedSteps
<1>4. ASSUME NEW r \in requests,
             \/ StoreChecks(r) \/ StoreInserts(r)
             \/ UpdateFinds(r) \/ UpdateChecks(r)
             \/ UpdateWrites(r) \/ UpdateRereads(r)
             \/ DestroyFinds(r) \/ DestroyDeletes(r)
      PROVE  IInv' /\ OwnerStep
  <2>1. CASE UpdateRereads(r)
    BY <2>1, EndsKeeps DEF UpdateRereads
  <2>. QED
    BY <1>4, <2>1, StoreChecksKeeps, StoreInsertsKeeps, UpdateFindsKeeps,
       UpdateChecksKeeps, UpdateWritesKeeps, DestroyFindsKeeps,
       DestroyDeletesKeeps
<1>5. CASE UNCHANGED vars
  BY <1>5
  DEF vars, IInv, TypeOK, Known, Fresh, Owned, NamesUnique, CreatedStays
<1>. QED
  BY <1>1, <1>2, <1>3, <1>4, <1>5 DEF Next

\* What the other theorems follow from: requests past their find are of the
\* owner, and the views that stores will insert are nobody else's.
THEOREM Invariance == Spec => []IInv
<1>1. Init => IInv
  BY InitEstablishes
<1>2. IInv /\ [Next]_vars => IInv'
  BY NextKeeps
<1>. QED
  BY <1>1, <1>2, PTL DEF Spec

\* The table and the requests keep their types.
THEOREM TypeCorrect == Spec => []TypeOK
<1>1. IInv => TypeOK
  BY DEF IInv
<1>. QED
  BY <1>1, Invariance, PTL

\* Names stay unique per bucket, although each request checks them in one
\* statement and writes in another, and writes only what differs from the
\* row it loaded.
THEOREM UniqueNames == Spec => []NamesUnique
<1>1. IInv => NamesUnique
  BY DEF IInv
<1>. QED
  BY <1>1, Invariance, PTL

\* No view is lost but by a destroy.
THEOREM CreatedViewsStay == Spec => []CreatedStays
<1>1. IInv => CreatedStays
  BY DEF IInv
<1>. QED
  BY <1>1, Invariance, PTL

\* Only the owner's requests change or remove a view.
THEOREM OnlyOwnersMutate == Spec => OwnerMutates
<1>1. IInv /\ [Next]_vars => [OwnerStep]_vars
  BY NextKeeps
<1>2. [OwnerStep]_vars => [\A v \in DOMAIN views :
          \/ v \in DOMAIN views' /\ views'[v] = views[v]
          \/ /\ \E r \in requests \ requests' : r.owner = views[v].owner
             /\ v \in DOMAIN views' => views'[v].owner = views[v].owner]_vars
  BY DEF OwnerStep
<1>. QED
  BY <1>1, <1>2, Invariance, PTL DEF Spec, OwnerMutates
-----------------------------------------------------------------------------
(***************************************************************************)
(* The filters that an address and a saved view put together.              *)
(***************************************************************************)
FiltersTypeOK ==
    /\ query \in Addresses
    /\ IsStore(recorded) /\ IsStore(offered)
    /\ awaited.waiting => awaited.address \in Addresses
    /\ applied.known => applied.filters \in Filters
    /\ editor.open => /\ editor.start \in Filters /\ editor.draft \in Filters
                      /\ editor.draft.window # Unset
    /\ \/ posting = NoPost
       \/ /\ posting.kind \in {"save", "update", "delete"}
          /\ posting.view \in SavedIds /\ posting.filters \in Filters

\* A view being saved has the filters of the answer it was saved from, and the
\* filters of its address add nothing to what that address applies.
PostedAsApplied ==
    posting.kind = "save" =>
        /\ posting.answered.known /\ posting.answered.savedView # "not applied" =>
              posting.filters = posting.answered.filters
        /\ Merge(posting.applies, posting.from.own) = posting.applies

FiltersInv == FiltersTypeOK /\ PostedAsApplied

\* What later filters replace stays replaced, and what they add stays added.
LEMMA MergeAgain ==
    ASSUME NEW base \in Filters, NEW over \in Filters
    PROVE  /\ Merge(base, over) \in Filters /\ MergeFilterPayloads(base, over) \in Filters
           /\ Merge(Merge(base, over), over) = Merge(base, over)
           /\ Merge(over, over) = over
<1>1. Merge(base, over) \in Filters
  BY DEF Merge, Filters
<1>2. MergeFilterPayloads(base, over) \in Filters
  BY <1>1 DEF MergeFilterPayloads, Filters
<1>3. Merge(Merge(base, over), over) = Merge(base, over)
  BY DEF Merge, Filters
<1>4. Merge(over, over) = over
  BY DEF Merge, Filters
<1> QED
  BY <1>1, <1>2, <1>3, <1>4

\* Listing takes no window and "any" for the same.
LEMMA ListsIs ==
    ASSUME NEW f \in Filters
    PROVE  Lists(f) = [type |-> f.type,
                       window |-> IF f.window = AnyTime THEN Unset ELSE f.window,
                       labels |-> f.labels, attributes |-> f.attributes]
  BY DEF Lists, Filters

\* What the editor says over a view, and what it says when nothing is changed.
LEMMA EditedOverView ==
    ASSUME NEW base \in Filters, NEW own \in Filters, NEW said \in Filters,
           said.window # Unset
    PROVE  /\ Lists(Merge(base, said)).window = Lists(said).window
           /\ said.type # Unset => Merge(base, said).type = said.type
           /\ said.labels \cup said.attributes
                 \subseteq Merge(base, said).labels \cup Merge(base, said).attributes
           /\ said = Editable(Merge(base, own)) =>
                 Lists(Merge(base, said)) = Lists(Merge(base, own))
<1>1. Merge(base, said) \in Filters /\ Merge(base, own) \in Filters
  BY MergeAgain
<1>2. /\ Merge(base, said).window = said.window
      /\ said.type # Unset => Merge(base, said).type = said.type
      /\ Merge(base, said).labels = base.labels \cup said.labels
      /\ Merge(base, said).attributes = base.attributes \cup said.attributes
  BY DEF Merge
<1>3. ASSUME said = Editable(Merge(base, own))
      PROVE  Lists(Merge(base, said)) = Lists(Merge(base, own))
  <2>1. /\ said.type = Merge(base, own).type /\ said.labels = Merge(base, own).labels
        /\ said.attributes = Merge(base, own).attributes
        /\ said.window = IF Merge(base, own).window = Unset THEN AnyTime
                         ELSE Merge(base, own).window
    BY <1>1, <1>3 DEF Editable, Filters
  <2>2. /\ Merge(base, said).type = Merge(base, own).type
        /\ Merge(base, said).labels = Merge(base, own).labels
        /\ Merge(base, said).attributes = Merge(base, own).attributes
    BY <2>1 DEF Merge, Filters
  <2> QED
    BY <1>1, <1>2, <2>1, <2>2, ListsIs
<1>4. Lists(Merge(base, said)).window = Lists(said).window
  BY <1>1, <1>2, ListsIs
<1> QED
  BY <1>2, <1>3, <1>4

\* The largest unit that divides a window shows it without loss.
LEMMA UnitIsExact ==
    ASSUME NEW w \in Windows
    PROVE  TimeWindowPayload(w \div EditorUnit(w), EditorUnit(w)) = w
<1>1. w \in Nat
  BY ListFiltersAssumption
<1>2. EditorUnit(w) \in {604800, 86400, 3600, 60, 1} /\ w % EditorUnit(w) = 0
  BY <1>1 DEF EditorUnit
<1> HIDE DEF EditorUnit
<1>3. CASE EditorUnit(w) = 604800
  BY <1>1, <1>2, <1>3 DEF TimeWindowPayload
<1>4. CASE EditorUnit(w) = 86400
  BY <1>1, <1>2, <1>4 DEF TimeWindowPayload
<1>5. CASE EditorUnit(w) = 3600
  BY <1>1, <1>2, <1>5 DEF TimeWindowPayload
<1>6. CASE EditorUnit(w) = 60
  BY <1>1, <1>2, <1>6 DEF TimeWindowPayload
<1>7. CASE EditorUnit(w) = 1
  BY <1>1, <1>2, <1>7 DEF TimeWindowPayload
<1> QED
  BY <1>2, <1>3, <1>4, <1>5, <1>6, <1>7

\* The editor writes back what its inputs say.
LEMMA SubmittedAsShown ==
    ASSUME NEW f \in Filters
    PROVE  Submitted(f) = f
<1>1. CASE f.window \in Windows
  <2>1. TimeWindowPayload(f.window \div EditorUnit(f.window), EditorUnit(f.window)) = f.window
    BY <1>1, UnitIsExact
  <2> QED
    BY <1>1, <2>1 DEF Submitted, Filters
<1>2. CASE f.window \notin Windows
  BY <1>2 DEF Submitted, Filters
<1> QED
  BY <1>1, <1>2

\* What the API applies for an address of the app.
LEMMA AppliesTyped ==
    ASSUME FiltersTypeOK, NEW q \in Addresses, q.view \in DOMAIN recorded \cup {NoId}
    PROVE  Applies(q) \in Filters /\ Merge(Applies(q), q.own) = Applies(q)
<1>1. q.own \in Filters
  BY DEF Addresses
<1>2. CASE q.view # NoId /\ recorded[q.view].supported
  <2>1. recorded[q.view].filters \in Filters
    BY <1>2 DEF FiltersTypeOK, IsStore
  <2>2. Applies(q) = Merge(recorded[q.view].filters, q.own)
    BY <1>2 DEF Applies
  <2> QED
    BY <1>1, <2>1, <2>2, MergeAgain
<1>3. CASE ~(q.view # NoId /\ recorded[q.view].supported)
  BY <1>1, <1>3, MergeAgain DEF Applies
<1> QED
  BY <1>2, <1>3

\* What the screen takes to be in force, under a view or not.
LEMMA EffectiveTyped ==
    ASSUME FiltersTypeOK
    PROVE  /\ EffectiveFilterPayload \in Filters
           /\ ~SavedViewVersionSupported =>
                 MergeFilterPayloads(offered[SelectedCustomView].filters, query.own) \in Filters
           /\ applied.known /\ applied.savedView # "not applied" =>
                 EffectiveFilterPayload = applied.filters
<1>1. query.own \in Filters
  BY DEF FiltersTypeOK, Addresses
<1>2. ~SavedViewVersionSupported => offered[SelectedCustomView].filters \in Filters
  BY DEF SavedViewVersionSupported, SelectedCustomView, FiltersTypeOK, IsStore
<1> DEFINE inForce == IF applied.known THEN applied.filters ELSE query.own
<1>3. inForce \in Filters
  BY <1>1 DEF FiltersTypeOK
<1>4. EffectiveFilterPayload =
        IF ~SavedViewVersionSupported /\ (applied.known => applied.savedView = "not applied")
          THEN MergeFilterPayloads(offered[SelectedCustomView].filters, inForce)
          ELSE inForce
  BY DEF EffectiveFilterPayload
<1>5. applied.known /\ applied.savedView # "not applied" => EffectiveFilterPayload = applied.filters
  BY <1>4
<1> HIDE DEF inForce
<1>6. ~SavedViewVersionSupported =>
        /\ MergeFilterPayloads(offered[SelectedCustomView].filters, inForce) \in Filters
        /\ MergeFilterPayloads(offered[SelectedCustomView].filters, query.own) \in Filters
  BY <1>1, <1>2, <1>3, MergeAgain
<1> QED
  BY <1>3, <1>4, <1>5, <1>6

\* A view in the table, under any filters, keeps the table typed.
LEMMA RecordedTyped ==
    ASSUME IsStore(recorded), NEW v \in SavedIds, NEW f \in Filters
    PROVE  IsStore(Recorded(v, f))
  BY DEF IsStore, Recorded

LEMMA ViewsReadKeepsFilters ==
    ASSUME FiltersInv, ViewsArrive \/ ViewsFail
    PROVE  FiltersInv'
<1>1. IsStore(offered') /\ UNCHANGED <<recorded, applied, editor, posting>>
  <2>1. IsStore(<< >>)
    BY DEF IsStore
  <2>2. /\ offered' = recorded \/ offered' = << >>
        /\ UNCHANGED <<recorded, applied, editor, posting>>
    BY DEF ViewsArrive, ViewsFail, ViewsRead
  <2> QED
    BY <2>1, <2>2 DEF FiltersInv, FiltersTypeOK
<1>2. \/ query' = query /\ awaited' = [waiting |-> TRUE, address |-> query, refreshing |-> FALSE]
      \/ query' = [query EXCEPT !.view = NoId] /\ awaited' = awaited
  BY DEF ViewsArrive, ViewsFail, ViewsRead, Loads
<1>3. query' \in Addresses
  BY <1>2 DEF FiltersInv, FiltersTypeOK, Addresses
<1>4. awaited'.waiting => awaited'.address \in Addresses
  BY <1>2 DEF FiltersInv, FiltersTypeOK
<1> QED
  BY <1>1, <1>3, <1>4 DEF FiltersInv, FiltersTypeOK, PostedAsApplied

LEMMA ListReadKeepsFilters ==
    ASSUME FiltersInv, FiltersArrive \/ FiltersFail \/ \E refreshing \in BOOLEAN : ReadAgain(refreshing)
    PROVE  FiltersInv'
<1>1. UNCHANGED <<query, recorded, offered, editor, posting>>
  BY DEF FiltersArrive, FiltersFail, ReadAgain, offering
<1>2. applied'.known => applied'.filters \in Filters
  <2>1. CASE FiltersArrive
    <3>1. awaited.address \in Addresses /\ awaited.address.view \in DOMAIN recorded \cup {NoId}
      BY <2>1 DEF FiltersArrive, FiltersInv, FiltersTypeOK
    <3>2. Applies(awaited.address) \in Filters
      BY <3>1, AppliesTyped DEF FiltersInv
    <3>3. applied'.filters = Applies(awaited.address)
      BY <2>1 DEF FiltersArrive
    <3> QED
      BY <3>2, <3>3
  <2>2. CASE FiltersFail
    BY <2>2 DEF FiltersFail, NoAnswerYet, FiltersInv, FiltersTypeOK
  <2>3. CASE \E refreshing \in BOOLEAN : ReadAgain(refreshing)
    BY <2>3 DEF ReadAgain, FiltersInv, FiltersTypeOK
  <2> QED
    BY <2>1, <2>2, <2>3
<1>3. awaited'.waiting => awaited'.address \in Addresses
  <2>1. \/ awaited' = NoListRead
        \/ \E refreshing : awaited' = [waiting |-> TRUE, address |-> query, refreshing |-> refreshing]
    BY DEF FiltersArrive, FiltersFail, ReadAgain, Loads
  <2> QED
    BY <2>1 DEF NoListRead, FiltersInv, FiltersTypeOK
<1> QED
  BY <1>1, <1>2, <1>3 DEF FiltersInv, FiltersTypeOK, PostedAsApplied

\* The router moves, and the reads are to come.
LEMMA GoesToKeepsFilters ==
    ASSUME FiltersInv, NEW q \in Addresses, query' = q,
           UNCHANGED <<recorded, offered, applied, awaited, posting>>,
           editor' = editor \/ editor' = NoEditor
    PROVE  FiltersInv'
<1>1. PostedAsApplied'
  BY DEF FiltersInv, PostedAsApplied
<1>2. /\ query' \in Addresses /\ IsStore(recorded)' /\ IsStore(offered)'
      /\ awaited'.waiting => awaited'.address \in Addresses
      /\ applied'.known => applied'.filters \in Filters
  BY DEF FiltersInv, FiltersTypeOK
<1>3. editor'.open => /\ editor'.start \in Filters /\ editor'.draft \in Filters
                      /\ editor'.draft.window # Unset
  BY DEF NoEditor, FiltersInv, FiltersTypeOK
<1>4. \/ posting' = NoPost
      \/ /\ posting'.kind \in {"save", "update", "delete"}
         /\ posting'.view \in SavedIds /\ posting'.filters \in Filters
  BY DEF FiltersInv, FiltersTypeOK
<1> QED
  BY <1>1, <1>2, <1>3, <1>4 DEF FiltersInv, FiltersTypeOK

LEMMA OperatorGoesKeepsFilters ==
    ASSUME FiltersInv,
           \/ \E q \in Links : Follow(q)
           \/ \E v \in SavedIds \cup {NoId} : SelectView(v)
           \/ ClearFilters
    PROVE  FiltersInv'
<1>1. CASE \E q \in Links : Follow(q)
  BY <1>1, GoesToKeepsFilters, ListFiltersAssumption DEF Follow, GoesTo, offering
<1>2. ASSUME NEW v \in SavedIds \cup {NoId}, SelectView(v)
      PROVE  FiltersInv'
  <2>1. [query EXCEPT !.view = v] \in Addresses
    BY DEF FiltersInv, FiltersTypeOK, Addresses
  <2> QED
    BY <1>2, <2>1, GoesToKeepsFilters DEF SelectView, GoesTo, offering
<1>3. CASE ClearFilters
  <2>1. [own |-> NoFilters, view |-> NoId] \in Addresses
    BY DEF NoFilters, Addresses, Filters
  <2> QED
    BY <1>3, <2>1, GoesToKeepsFilters DEF ClearFilters, GoesTo, offering
<1> QED
  BY <1>1, <1>2, <1>3

LEMMA EditorKeepsFilters ==
    ASSUME FiltersInv,
           EditFilters \/ CancelEditor \/ ApplyFilters \/ \E f \in Filters : Edit(f)
    PROVE  FiltersInv'
<1>1. CASE EditFilters
  <2>1. PICK current : /\ editor' = [open |-> TRUE, start |-> current, draft |-> Editable(current)]
                       /\ current = IF SavedViewVersionSupported
                                      THEN EffectiveFilterPayload
                                      ELSE MergeFilterPayloads(offered[SelectedCustomView].filters,
                                                               query.own)
    BY <1>1 DEF EditFilters
  <2>2. current \in Filters
    BY <2>1, EffectiveTyped DEF FiltersInv
  <2>3. Editable(current) \in Filters /\ Editable(current).window # Unset
    BY <2>2, ListFiltersAssumption DEF Editable, Filters
  <2>4. UNCHANGED <<query, recorded, offered, applied, awaited, posting>>
    BY <1>1 DEF EditFilters, offering
  <2> QED
    BY <2>1, <2>2, <2>3, <2>4 DEF FiltersInv, FiltersTypeOK, PostedAsApplied
<1>2. CASE CancelEditor
  BY <1>2 DEF CancelEditor, NoEditor, offering, FiltersInv, FiltersTypeOK, PostedAsApplied
<1>3. CASE ApplyFilters
  <2>1. editor.draft \in Filters
    BY <1>3 DEF ApplyFilters, FiltersInv, FiltersTypeOK
  <2>2. Submitted(editor.draft) = editor.draft
    BY <2>1, SubmittedAsShown
  <2>3. [query EXCEPT !.own = editor.draft] \in Addresses
    BY <2>1 DEF FiltersInv, FiltersTypeOK, Addresses
  <2> QED
    BY <1>3, <2>2, <2>3, GoesToKeepsFilters DEF ApplyFilters, GoesTo, offering
<1>4. ASSUME NEW f \in Filters, Edit(f)
      PROVE  FiltersInv'
  <2>1. f.window # Unset
    BY <1>4 DEF Edit, FiltersInv, FiltersTypeOK, Filters
  <2>2. editor.open /\ editor' = [editor EXCEPT !.draft = f] /\ editor.start \in Filters
    BY <1>4 DEF Edit, FiltersInv, FiltersTypeOK
  <2>3. UNCHANGED <<query, recorded, offered, applied, awaited, posting>>
    BY <1>4 DEF Edit, offering
  <2>4. editor'.start \in Filters /\ editor'.draft \in Filters /\ editor'.draft.window # Unset
    <3>1. editor'.start = editor.start
      BY <2>2
    <3>2. CASE editor'.draft = f
      BY <2>1, <2>2, <3>1, <3>2
    <3>3. CASE editor'.draft # f
      BY <1>4, <2>2, <3>1, <3>3 DEF Edit, FiltersInv, FiltersTypeOK
    <3> QED
      BY <3>2, <3>3
  <2> QED
    BY <2>3, <2>4 DEF FiltersInv, FiltersTypeOK, PostedAsApplied
<1> QED
  BY <1>1, <1>2, <1>3, <1>4

LEMMA PostsViewKeepsFilters ==
    ASSUME FiltersInv, SaveView \/ ManageView
    PROVE  FiltersInv'
<1>1. PICK kind \in {"save", "update", "delete"}, v \in SavedIds : PostsView(kind, v)
  BY DEF SaveView, ManageView, SelectedCustomView, FiltersInv, FiltersTypeOK, IsStore
<1>2. UNCHANGED <<query, recorded, offered, applied, awaited, editor>>
  BY <1>1 DEF PostsView, offering
<1> DEFINE lists == IF query.view \in DOMAIN recorded \cup {NoId} THEN Applies(query) ELSE query.own
<1>3. Merge(lists, query.own) = lists
  <2>1. query \in Addresses /\ query.own \in Filters
    BY DEF FiltersInv, FiltersTypeOK, Addresses
  <2> QED
    BY <2>1, AppliesTyped, MergeAgain DEF FiltersInv
<1>4. /\ posting'.kind = kind /\ posting'.view = v /\ posting'.filters = EffectiveFilterPayload
      /\ posting'.answered = applied /\ posting'.from = query /\ posting'.applies = lists
  BY <1>1 DEF PostsView
<1>5. /\ EffectiveFilterPayload \in Filters
      /\ applied.known /\ applied.savedView # "not applied" => EffectiveFilterPayload = applied.filters
  BY EffectiveTyped DEF FiltersInv
<1> HIDE DEF lists
<1>6. FiltersTypeOK'
  BY <1>2, <1>4, <1>5 DEF FiltersInv, FiltersTypeOK
<1>7. PostedAsApplied'
  BY <1>3, <1>4, <1>5 DEF PostedAsApplied
<1> QED
  BY <1>6, <1>7 DEF FiltersInv

LEMMA ViewStoredKeepsFilters ==
    ASSUME FiltersInv, ViewStored
    PROVE  FiltersInv'
<1>1. /\ posting.kind \in {"save", "update", "delete"}
      /\ posting.view \in SavedIds /\ posting.filters \in Filters
      /\ posting' = NoPost /\ UNCHANGED <<offered, applied, awaited, editor>>
  BY DEF ViewStored, offering, FiltersInv, FiltersTypeOK
<1>2. IsStore(recorded')
  <2>1. CASE posting.kind = "delete"
    BY <2>1 DEF ViewStored, FiltersInv, FiltersTypeOK, IsStore
  <2>2. CASE posting.kind # "delete"
    <3>1. recorded' = Recorded(posting.view, posting.filters)
      BY <1>1, <2>2 DEF ViewStored
    <3> QED
      BY <1>1, <3>1, RecordedTyped DEF FiltersInv, FiltersTypeOK
  <2> QED
    BY <2>1, <2>2
<1>3. query' \in Addresses
  <2>1. \/ query' = query
        \/ \E v \in SavedIds \cup {NoId} : query' = [query EXCEPT !.view = v]
    BY <1>1 DEF ViewStored, GoesTo
  <2> QED
    BY <2>1 DEF FiltersInv, FiltersTypeOK, Addresses
<1>4. PostedAsApplied'
  BY <1>1 DEF NoPost, PostedAsApplied
<1>5. FiltersTypeOK'
  BY <1>1, <1>2, <1>3 DEF FiltersInv, FiltersTypeOK
<1> QED
  BY <1>4, <1>5 DEF FiltersInv

LEMMA ViewsChangeKeepsFilters ==
    ASSUME FiltersInv,
           \/ ViewRefused
           \/ \E v \in SavedIds, f \in {q.own : q \in Links} : RewrittenElsewhere(v, f)
    PROVE  FiltersInv'
<1>1. CASE ViewRefused
  BY <1>1 DEF ViewRefused, offering, NoPost, FiltersInv, FiltersTypeOK, PostedAsApplied
<1>2. ASSUME NEW v \in SavedIds, NEW f \in {q.own : q \in Links}, RewrittenElsewhere(v, f)
      PROVE  FiltersInv'
  <2>1. f \in Filters
    BY ListFiltersAssumption DEF Addresses
  <2>2. IsStore(recorded')
    BY <1>2, <2>1, RecordedTyped DEF RewrittenElsewhere, FiltersInv, FiltersTypeOK
  <2>3. UNCHANGED <<query, offered, applied, awaited, editor, posting>>
    BY <1>2 DEF RewrittenElsewhere, offering
  <2> QED
    BY <2>2, <2>3 DEF FiltersInv, FiltersTypeOK, PostedAsApplied
<1> QED
  BY <1>1, <1>2

LEMMA FiltersNextKeeps ==
    ASSUME FiltersInv, [ListFiltersNext]_listFiltersVars
    PROVE  FiltersInv'
<1>1. CASE UNCHANGED listFiltersVars
  BY <1>1 DEF listFiltersVars, offering, FiltersInv, FiltersTypeOK, PostedAsApplied
<1>2. CASE ListFiltersNext
  BY <1>2, ViewsReadKeepsFilters, ListReadKeepsFilters, OperatorGoesKeepsFilters,
     EditorKeepsFilters, PostsViewKeepsFilters, ViewStoredKeepsFilters, ViewsChangeKeepsFilters
     DEF ListFiltersNext
<1> QED
  BY <1>1, <1>2

LEMMA FiltersInitEstablishes == ListFiltersInit => FiltersInv
<1> SUFFICES ASSUME ListFiltersInit
             PROVE  FiltersInv
  OBVIOUS
<1>1. query \in Addresses /\ IsStore(recorded)
  BY ListFiltersAssumption DEF ListFiltersInit
<1>2. IsStore(<< >>)
  BY DEF IsStore
<1> QED
  BY <1>1, <1>2 DEF ListFiltersInit, NoAnswerYet, NoListRead, NoEditor, NoPost, FiltersInv,
     FiltersTypeOK, PostedAsApplied

\* The inductive invariant of the list's filters, for any fields, windows,
\* views, links and number of changes.
THEOREM FiltersInvariance == ListFiltersSpec => []FiltersInv
  BY FiltersInitEstablishes, FiltersNextKeeps, PTL DEF ListFiltersSpec

\* Apply lists what the editor said, with the view of the address or without
\* (pushVisibilityFilters, merge, readTimeWindowEditor).
THEOREM EditorIsObeyed == ListFiltersSpec => EditorKeepsItsWord
<1> DEFINE Kept ==
      ApplyFilters /\ UpToDate /\ SavedViewVersionSupported /\ editor.start = applied.filters =>
          LET now == Applies(query')
          IN  /\ Lists(now).window = Lists(editor.draft).window
              /\ editor.draft.type # Unset => now.type = editor.draft.type
              /\ editor.draft.labels \cup editor.draft.attributes
                    \subseteq now.labels \cup now.attributes
              /\ editor.draft = Editable(editor.start) => Lists(now) = Lists(applied.filters)
<1>1. ASSUME FiltersInv
      PROVE  Kept
  <2> SUFFICES ASSUME ApplyFilters, UpToDate, editor.start = applied.filters
               PROVE  LET now == Applies(query')
                      IN  /\ Lists(now).window = Lists(editor.draft).window
                          /\ editor.draft.type # Unset => now.type = editor.draft.type
                          /\ editor.draft.labels \cup editor.draft.attributes
                                \subseteq now.labels \cup now.attributes
                          /\ editor.draft = Editable(editor.start) =>
                                Lists(now) = Lists(applied.filters)
    OBVIOUS
  <2> DEFINE said == editor.draft
             now == Applies(query')
  <2>1. /\ said \in Filters /\ said.window # Unset
        /\ applied.filters \in Filters /\ query.own \in Filters
        /\ applied.filters = Applies(query) /\ query.view \in DOMAIN recorded \cup {NoId}
    BY <1>1 DEF ApplyFilters, UpToDate, FiltersInv, FiltersTypeOK, Addresses
  <2>2. query'.own = said /\ query'.view = query.view /\ recorded' = recorded
    <3>1. Submitted(said) = said
      BY <2>1, SubmittedAsShown
    <3> QED
      BY <1>1, <3>1 DEF ApplyFilters, GoesTo, FiltersInv, FiltersTypeOK, Addresses
  <2>3. said = Editable(editor.start) => said = Editable(applied.filters)
    OBVIOUS
  <2>4. CASE query.view # NoId /\ recorded[query.view].supported
    <3>1. recorded[query.view].filters \in Filters
      BY <1>1, <2>1, <2>4 DEF FiltersInv, FiltersTypeOK, IsStore
    <3>2. /\ Applies(query') = Merge(recorded[query.view].filters, said)
          /\ applied.filters = Merge(recorded[query.view].filters, query.own)
      BY <2>1, <2>2, <2>4 DEF Applies
    <3>3. recorded[query.view].filters \in Filters /\ query.own \in Filters /\ said \in Filters
      BY <2>1, <3>1
    <3> HIDE DEF said
    <3>4. /\ Lists(Applies(query')).window = Lists(said).window
          /\ said.type # Unset => Applies(query').type = said.type
          /\ said.labels \cup said.attributes
                \subseteq Applies(query').labels \cup Applies(query').attributes
          /\ said = Editable(applied.filters) =>
                Lists(Applies(query')) = Lists(applied.filters)
      BY <2>1, <3>2, <3>3, EditedOverView
    <3> QED
      BY <2>3, <3>4, Zenon DEF said, now
  <2>5. CASE ~(query.view # NoId /\ recorded[query.view].supported)
    <3>1. now = said
      BY <2>2, <2>5 DEF Applies
    <3>2. ASSUME said = Editable(applied.filters)
          PROVE  Lists(said) = Lists(applied.filters)
      BY <2>1, <3>2 DEF Editable, Lists, Filters
    <3> QED
      BY <2>3, <3>1, <3>2
  <2> QED
    BY <2>4, <2>5
<1>2. ListFiltersSpec => [][Kept]_listFiltersVars
  <2>1. FiltersInv => [Kept]_listFiltersVars
    BY <1>1
  <2> HIDE DEF Kept
  <2> QED
    BY <2>1, FiltersInvariance, PTL
<1> QED
  BY <1>2 DEF EditorKeepsItsWord

\* A view saved from an up-to-date list lists the same runs, selected or by a
\* link of its own (saveCurrentView, effectiveFilterPayload, merge).
THEOREM SavedAsListed == ListFiltersSpec => SavedViewListsTheSame
<1> DEFINE Same ==
      ViewStored /\ posting.kind = "save" /\ posting.settled /\ posting.answered.known
      /\ posting.answered.filters = posting.applies /\ query = posting.from
      /\ posting.answered.savedView # "not applied" =>
          LET filters == recorded'[posting.view].filters
          IN  /\ Lists(filters) = Lists(posting.answered.filters)
              /\ Lists(Merge(filters, query'.own)) = Lists(posting.answered.filters)
<1>1. ASSUME FiltersInv
      PROVE  Same
  <2> SUFFICES ASSUME ViewStored, posting.kind = "save", posting.answered.known,
                      posting.answered.filters = posting.applies, query = posting.from,
                      posting.answered.savedView # "not applied"
               PROVE  /\ recorded'[posting.view].filters = posting.applies
                      /\ Merge(recorded'[posting.view].filters, query'.own) = posting.applies
    OBVIOUS
  <2>1. /\ recorded' = Recorded(posting.view, posting.filters)
        /\ query' = [query EXCEPT !.view = posting.view]
    BY DEF ViewStored, GoesTo
  <2>2. recorded'[posting.view].filters = posting.filters
    BY <2>1 DEF Recorded
  <2>3. query'.own = posting.from.own
    BY <1>1, <2>1 DEF FiltersInv, FiltersTypeOK, Addresses
  <2> QED
    BY <1>1, <2>2, <2>3 DEF FiltersInv, PostedAsApplied
<1>2. ListFiltersSpec => [][Same]_listFiltersVars
  <2>1. FiltersInv => [Same]_listFiltersVars
    BY <1>1
  <2> HIDE DEF Same
  <2> QED
    BY <2>1, FiltersInvariance, PTL
<1> QED
  BY <1>2 DEF SavedViewListsTheSame
=============================================================================
