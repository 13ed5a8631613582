----------------------------- MODULE SavedViews -----------------------------
(***************************************************************************)
(* The saved views of one scope, as the database keeps them while PHP      *)
(* requests of several operators store, update and destroy them            *)
(* (SavedViewsController, SavedWorkflowView and the table's migration).    *)
(*                                                                         *)
(* A request runs as one SQL statement after another, with no transaction  *)
(* around them, so requests interleave between statements.  Of the columns *)
(* that no check reads (filters, their version, the shared flag) the model *)
(* keeps one, contents.                                                    *)
(***************************************************************************)
EXTENDS Naturals, FiniteSets, Functions

CONSTANTS
    Owners,       \* the operators' identities (ownerIdentity)
    StatusBuckets,
    Names,
    Contents,     \* values of a column that no check reads
    MaxRequests,  \* bound: the requests of a behaviour
    MaxInFlight   \* bound: the requests that run at once

ASSUME BoundsAssumption == MaxRequests \in Nat /\ MaxInFlight \in Nat

VARIABLES
    views,     \* the table: the rows by id
    issued,    \* requests sent so far; a stored view's id is its request's
    requests,  \* those that run, each before one statement
    created,   \* the ids of the views whose store was answered 201
    destroyed  \* the ids of the views whose destroy was answered 204

vars == <<views, issued, requests, created, destroyed>>

Payloads == [name : Names, bucket : StatusBuckets, contents : Contents]
Columns == {"name", "bucket", "contents"}
Rows == [owner : Owners, data : Payloads]
Steps == {"storeChecks", "storeInserts", "updateFinds", "updateChecks",
          "updateWrites", "updateRereads", "destroyFinds", "destroyDeletes"}
Requests == [id : 1..MaxRequests, owner : Owners, view : 1..MaxRequests,
             asked : Payloads, loaded : Payloads, step : Steps]

Init ==
    /\ views = [v \in {} |-> {}]
    /\ issued = 0 /\ requests = {} /\ created = {} /\ destroyed = {}

Send(o, v, p, step) ==
    /\ issued < MaxRequests /\ Cardinality(requests) < MaxInFlight
    /\ issued' = issued + 1
    /\ requests' = requests \cup
           {[id |-> issued + 1, owner |-> o, view |-> v, asked |-> p,
             loaded |-> p, step |-> step]}
    /\ UNCHANGED <<views, created, destroyed>>

\* A client stores a view, or updates or destroys one it was shown.
SendStore(o, p) == Send(o, issued + 1, p, "storeChecks")
SendUpdate(o, v, p) == Send(o, v, p, "updateFinds")
SendDestroy(o, v) == Send(o, v, views[v].data, "destroyFinds")
-----------------------------------------------------------------------------
Ends(r) == requests' = requests \ {r}
GoesOn(r, next) == requests' = (requests \ {r}) \cup {next}

SameName(p, q) == p.name = q.name /\ p.bucket = q.bucket

\* The check for the name: another view than v has it.
NameExists(v, p) == \E w \in DOMAIN views \ {v} : SameName(views[w].data, p)

BugNoUniqueIndex(v, p) == FALSE

\* The table's unique index refuses a row that a statement would write.
IndexRefuses(v, p) == \E w \in DOMAIN views \ {v} : SameName(views[w].data, p)

\* 409, or on to the insert.
StoreChecks(r) ==
    /\ r.step = "storeChecks"
    /\ \/ NameExists(r.view, r.asked) /\ Ends(r)
       \/ /\ ~NameExists(r.view, r.asked)
          /\ GoesOn(r, [r EXCEPT !.step = "storeInserts"])
    /\ UNCHANGED <<views, issued, created, destroyed>>

\* 500 when the name was taken since the check, else 201.
StoreInserts(r) ==
    /\ r.step = "storeInserts"
    /\ Ends(r)
    /\ \/ /\ IndexRefuses(r.view, r.asked)
          /\ UNCHANGED <<views, created>>
       \/ /\ ~IndexRefuses(r.view, r.asked)
          /\ views' = [v \in DOMAIN views \cup {r.view} |->
                          IF v = r.view THEN [owner |-> r.owner, data |-> r.asked]
                                        ELSE views[v]]
          /\ created' = created \cup {r.view}
    /\ UNCHANGED <<issued, destroyed>>

BugVisible(o, v) == v \in DOMAIN views

\* mutableBy: the operator's own views, shared or not.
Mutable(o, v) == v \in DOMAIN views /\ views[v].owner = o

\* 404, or the row is loaded.
UpdateFinds(r) ==
    /\ r.step = "updateFinds"
    /\ \/ ~Mutable(r.owner, r.view) /\ Ends(r)
       \/ /\ Mutable(r.owner, r.view)
          /\ GoesOn(r, [r EXCEPT !.step = "updateChecks",
                                 !.loaded = views[r.view].data])
    /\ UNCHANGED <<views, issued, created, destroyed>>

UpdateChecks(r) ==
    /\ r.step = "updateChecks"
    /\ \/ NameExists(r.view, r.asked) /\ Ends(r)
       \/ /\ ~NameExists(r.view, r.asked)
          /\ GoesOn(r, [r EXCEPT !.step = "updateWrites"])
    /\ UNCHANGED <<views, issued, created, destroyed>>

\* Eloquent writes the columns that differ from those it loaded, over
\* whatever the row holds by then.
Written(r, row) ==
    [c \in Columns |-> IF r.asked[c] # r.loaded[c] THEN r.asked[c] ELSE row[c]]

\* No row is written when the view is gone; 500 when the index refuses.
UpdateWrites(r) ==
    /\ r.step = "updateWrites"
    /\ \/ /\ r.view \notin DOMAIN views
          /\ GoesOn(r, [r EXCEPT !.step = "updateRereads"])
          /\ UNCHANGED views
       \/ /\ r.view \in DOMAIN views
          /\ LET data == Written(r, views[r.view].data)
             IN  \/ IndexRefuses(r.view, data) /\ Ends(r) /\ UNCHANGED views
                 \/ /\ ~IndexRefuses(r.view, data)
                    /\ views' = [views EXCEPT ![r.view].data = data]
                    /\ GoesOn(r, [r EXCEPT !.step = "updateRereads"])
    /\ UNCHANGED <<issued, created, destroyed>>

\* fresh(): the answer is the row as it is now, or 500 when it is gone.
UpdateRereads(r) ==
    /\ r.step = "updateRereads"
    /\ Ends(r)
    /\ UNCHANGED <<views, issued, created, destroyed>>

DestroyFinds(r) ==
    /\ r.step = "destroyFinds"
    /\ \/ ~Mutable(r.owner, r.view) /\ Ends(r)
       \/ /\ Mutable(r.owner, r.view)
          /\ GoesOn(r, [r EXCEPT !.step = "destroyDeletes"])
    /\ UNCHANGED <<views, issued, created, destroyed>>

\* The row the model's key names, whatever it holds by now.
Deleted(r) == {r.view}

DestroyDeletes(r) ==
    /\ r.step = "destroyDeletes"
    /\ Ends(r)
    /\ views' = Restrict(views, DOMAIN views \ Deleted(r))
    /\ destroyed' = destroyed \cup {r.view}
    /\ UNCHANGED <<issued, created>>

Next ==
    \/ \E o \in Owners :
           \/ \E p \in Payloads : SendStore(o, p)
           \/ \E v \in DOMAIN views, p \in Payloads : SendUpdate(o, v, p)
           \/ \E v \in DOMAIN views : SendDestroy(o, v)
    \/ \E r \in requests :
           \/ StoreChecks(r) \/ StoreInserts(r)
           \/ UpdateFinds(r) \/ UpdateChecks(r)
           \/ UpdateWrites(r) \/ UpdateRereads(r)
           \/ DestroyFinds(r) \/ DestroyDeletes(r)

Spec == Init /\ [][Next]_vars
-----------------------------------------------------------------------------
\* The variables have the values the table and the requests give them.
TypeOK ==
    /\ DOMAIN views \subseteq 1..issued
    /\ views \in [DOMAIN views -> Rows]
    /\ issued \in 0..MaxRequests
    /\ requests \subseteq Requests
    /\ created \subseteq 1..issued /\ destroyed \subseteq 1..MaxRequests

\* savedViewPolicy, name_uniqueness: names are unique per scope and bucket,
\* however the checks and the writes of two requests interleave.
NamesUnique ==
    \A v, w \in DOMAIN views : SameName(views[v].data, views[w].data) => v = w

\* savedViewPolicy, mutation: a custom view changes or goes only by a request
\* of its owner, and never changes hands.
OwnerMutates ==
    [][\A v \in DOMAIN views :
          \/ v \in DOMAIN views' /\ views'[v] = views[v]
          \/ /\ \E r \in requests \ requests' : r.owner = views[v].owner
             /\ v \in DOMAIN views' => views'[v].owner = views[v].owner]_vars

\* A view whose store was answered 201 stays until its destroy is answered.
CreatedStays == created \subseteq DOMAIN views \cup destroyed
=============================================================================
