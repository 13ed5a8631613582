------------------------------ MODULE MCLists -------------------------------
EXTENDS WorkflowList, CursorPageReplay, Preferences, HybridPages

\* Four studies side by side: the list screen turning pages, the requests by
\* which service mode answers one page, the preferences of a screen, and the
\* pages of one bucket of both engines after the other.
VARIABLES study, bucket

NoBucket == [rows |-> {}, projected |-> TRUE, ascending |-> FALSE]

Times == 1..2

\* Rows of one kind, some of those with these ids.
Held(kind, ids) ==
    UNION {{{[kind |-> kind, id |-> i, at |-> at[i]] : i \in chosen} : at \in [chosen -> Times]} :
           chosen \in SUBSET ids}

BucketsHeld ==
    [rows : {v1 \cup summaries \cup unprojected :
                v1 \in Held("v1", {9, 10, 11}), summaries \in Held("summary", {1, 2}),
                unprojected \in Held("run", {3})},
     projected : BOOLEAN, ascending : BOOLEAN]

MCInit ==
    /\ ListInit /\ Init /\ PreferencesInit
    /\ study \in {"pages", "replay", "preferences", "engines"} /\ bucket = NoBucket
    /\ study # "pages" => service /\ ~autoLoadsNewEntries
    /\ study # "replay" => browser = CHOOSE b \in Browsers : TRUE
    /\ study # "preferences" => screen = "table" /\ stored = Nothing /\ address = Nothing

MCNext ==
    /\ UNCHANGED study
    /\ \/ study = "pages" /\ ListNext /\ UNCHANGED <<vars, preferencesVars, bucket>>
       \/ study = "replay" /\ Next /\ UNCHANGED <<listVars, preferencesVars, bucket>>
       \/ study = "preferences" /\ PreferencesNext /\ UNCHANGED <<listVars, vars, bucket>>
       \/ /\ study = "engines" /\ bucket' \in (IF bucket = NoBucket THEN BucketsHeld ELSE {NoBucket})
          /\ UNCHANGED <<listVars, vars, preferencesVars>>

MCSafeSpec == MCInit /\ [][MCNext]_<<listVars, vars, preferencesVars, study, bucket>>

MCSpec == MCSafeSpec /\ ListFairness /\ PreferencesFairness

\* What a list says is so: that it waits, that it is empty, and on which page
\* of a bucket of two engines a workflow stands.
ListsTellTheirState == ListTellsItsState /\ \A perPage \in 1..3 : PagesPartition(bucket, perPage)

\* The list reads as LatestRead promises, whatever order its answers come in,
\* and every read of it and every save of a preference ends, whatever becomes
\* of the request: the screen is usable again.
LatestReadsAndSavesSettle == ImplementsLatestRead /\ ListSettles /\ SaveSettles
=============================================================================
