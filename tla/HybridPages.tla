---------------------------- MODULE HybridPages -----------------------------
(***************************************************************************)
(* The pages of a bucket while workflows of engine v1 finish beside those  *)
(* of v2 (HybridWorkflowRepository.php, V2WorkflowRepository.php): each    *)
(* engine answers a prefix of its own list, the two are merged, and the    *)
(* page is cut out of the merge.                                           *)
(*                                                                         *)
(* A row is a workflow of engine v1, the summary of a run, or a run that   *)
(* has no summary yet.  What is listed does not change from page to page.  *)
(***************************************************************************)
EXTENDS Integers, Sequences, FiniteSets

\* A bucket has rows, each with its kind, id and time of last progress (at);
\* summaries can be read (projected); the oldest are listed first (ascending).
OfKind(bucket, kinds) == {r \in bucket.rows : r.kind \in kinds}

Older(r, s) == r.at < s.at \/ (r.at = s.at /\ r.id < s.id)

\* The rows of S in the order given by Below, or against it.
Ordered(S, Below(_, _), ascending) ==
    LET Before(r, s) == IF ascending THEN Below(r, s) ELSE Below(s, r)
    IN  [p \in 1..Cardinality(S) |->
            CHOOSE r \in S : Cardinality({s \in S : Before(s, r)}) = p - 1]

\* skip(offset)->take(limit).
Cut(list, offset, limit) ==
    SubSeq(list, offset + 1, IF offset + limit < Len(list) THEN offset + limit ELSE Len(list))

\* Runs without a summary come first and the newest first, then summaries;
\* without summaries, all runs are listed.
V2Page(bucket, offset, limit) ==
    LET runs == Ordered(OfKind(bucket, IF bucket.projected THEN {"run"} ELSE {"run", "summary"}),
                        Older, FALSE)
        summaries == IF bucket.projected
                     THEN Ordered(OfKind(bucket, {"summary"}), Older, bucket.ascending)
                     ELSE <<>>
        first == Cut(runs, offset, limit)
        skipped == IF offset < Len(runs) THEN 0 ELSE offset - Len(runs)
    IN  first \o Cut(summaries, skipped, limit - Len(first))

\* compareItems: by time, then by engine, then by the text of the id, in which
\* 10 comes before 9.
InTens(n) == IF n < 10 THEN 10 * n ELSE n

Identity(r) == <<IF r.kind = "v1" THEN 1 ELSE 2, IF r.kind = "v1" THEN InTens(r.id) ELSE r.id, r.id>>

BelowInMerge(r, s) ==
    LET i == Identity(r)
        j == Identity(s)
    IN  \/ r.at < s.at
        \/ /\ r.at = s.at
           /\ \E k \in 1..3 : i[k] < j[k] /\ \A l \in 1..(k - 1) : i[l] = j[l]

BugFetchPage(perPage, page) == perPage

\* Each engine is asked for all rows up to the end of the page.
FetchLimit(perPage, page) == page * perPage

BucketFlows(bucket, perPage, page) ==
    LET limit == FetchLimit(perPage, page)
        offset == (page - 1) * perPage
        legacy == Ordered(OfKind(bucket, {"v1"}), Older, bucket.ascending)
        v2Items == V2Page(bucket, 0, limit)
        legacyItems == Cut(legacy, 0, limit)
        items == {v2Items[i] : i \in DOMAIN v2Items} \cup {legacyItems[i] : i \in DOMAIN legacyItems}
    IN  IF legacy = <<>>
        THEN V2Page(bucket, offset, perPage)
        ELSE Cut(Ordered(items, BelowInMerge, bucket.ascending), offset, perPage)
-----------------------------------------------------------------------------
\* Each engine lists its rows in the order of the merge.  Otherwise rows
\* are listed twice while others are never listed: runs without a summary lead
\* their list whatever their time, and ids of v1 are numbers to the database.
ListedAlike(bucket) ==
    /\ bucket.projected => OfKind(bucket, {"run"}) = {}
    /\ ~bucket.projected => ~bucket.ascending
    /\ \A r, s \in OfKind(bucket, {"v1"}) :
          r.at = s.at => (InTens(r.id) < InTens(s.id) <=> r.id < s.id)

\* Turning the pages from the first to the last shows each workflow of the
\* bucket on one page, all pages but the last are full, and with two engines
\* a later row is never older than an earlier one (newer, if ascending).
PagesPartition(bucket, perPage) ==
    LET pages == 1..((Cardinality(bucket.rows) + perPage - 1) \div perPage)
        shown == [g \in pages |-> BucketFlows(bucket, perPage, g)]
        places == UNION {{<<g, i>> : i \in DOMAIN shown[g]} : g \in pages}
        After(x, y) == x[1] > y[1] \/ (x[1] = y[1] /\ x[2] > y[2])
    IN  OfKind(bucket, {"v1"}) = {} \/ ListedAlike(bucket) =>
            /\ \A r \in bucket.rows : Cardinality({x \in places : shown[x[1]][x[2]] = r}) = 1
            /\ \A g \in pages : g + 1 \in pages => Len(shown[g]) = perPage
            /\ OfKind(bucket, {"v1"}) # {} =>
                  \A x, y \in places :
                     After(y, x) => IF bucket.ascending
                                    THEN shown[x[1]][x[2]].at <= shown[y[1]][y[2]].at
                                    ELSE shown[x[1]][x[2]].at >= shown[y[1]][y[2]].at
=============================================================================
