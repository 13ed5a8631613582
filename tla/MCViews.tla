------------------------------ MODULE MCViews -------------------------------
EXTENDS WorkflowList, ListFilters, SavedViews, TLC

CONSTANTS payments, orders, region, tier, mine, new

LastDay == 86400

\* The view's filters, which the address may add to or replace.
ViewFilters == [type |-> payments, window |-> LastDay, labels |-> {}, attributes |-> {region}]

SomeOwn == {NoFilters, [NoFilters EXCEPT !.type = orders],
            [NoFilters EXCEPT !.window = AnyTime, !.attributes = {tier}]}

SomeLinks == [own : SomeOwn, view : {NoId, mine}]

\* A view of this release, one of another, none.
SomeStores == {mine :> [filters |-> ViewFilters, supported |-> s] : s \in BOOLEAN} \cup {<< >>}

\* Three studies of saved views side by side: the list screen following its
\* address, the filters that address and view put together, and the table of
\* views behind the requests of several operators.
VARIABLE study

MCInit ==
    /\ ListInit /\ ListFiltersInit /\ Init
    /\ study \in {"address", "filters", "table"}
    /\ study # "address" =>
          /\ route = [bucket |-> CHOOSE b \in Buckets : TRUE, view |-> NoView]
          /\ storedView = NoView /\ viewsOf = [b \in Buckets |-> {}]
          /\ ~service /\ ~autoLoadsNewEntries
    /\ study # "filters" =>
          query = [own |-> NoFilters, view |-> NoId] /\ recorded = << >>

MCNext ==
    /\ UNCHANGED study
    /\ \/ study = "address" /\ ListNext /\ UNCHANGED <<listFiltersVars, vars>>
       \/ study = "filters" /\ ListFiltersNext /\ UNCHANGED <<listVars, vars>>
       \/ study = "table" /\ Next /\ UNCHANGED <<listVars, listFiltersVars>>

MCSpec == MCInit /\ [][MCNext]_<<listVars, listFiltersVars, vars, study>>

\* The operators, buckets and names of the table are each
\* interchangeable.
Symmetry ==
    Permutations(Owners) \cup Permutations(StatusBuckets) \cup
    Permutations(Names)
=============================================================================
