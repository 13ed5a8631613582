---------------------------- MODULE PageNumbers -----------------------------
(***************************************************************************)
(* The page buttons under a list: visiblePages, the same in                *)
(* ServiceCatalogView.vue and ScheduleView.vue.                            *)
(***************************************************************************)
EXTENDS Naturals, Sequences

Ellipsis == 0

\* Two pages around the current one, the first and the last.
VisiblePages(current, total) ==
    LET from == IF current > 4 THEN current - 2 ELSE 2
        to == IF current + 2 < total THEN current + 2 ELSE total - 1
        middle == IF to < from THEN <<>> ELSE [i \in 1..(to - from + 1) |-> from + i - 1]
    IN  (IF current > 4 THEN <<1, Ellipsis>> ELSE <<1>>)
            \o middle
            \o (IF current + 2 < total - 1 THEN <<Ellipsis, total>>
                ELSE IF total > 1 THEN <<total>> ELSE <<>>)
-----------------------------------------------------------------------------
\* The buttons rise from the first page to the last; an ellipsis stands for one
\* page at least; and a page that exists has its own button and those of its
\* neighbours, so that Previous and Next never leave the buttons' reach.
PagesInReach(here, total) ==
    LET b == VisiblePages(here, total)
    IN  /\ b[1] = 1 /\ b[Len(b)] = total
        /\ \A i \in 1..(Len(b) - 1) :
              \/ b[i + 1] = b[i] + 1
              \/ b[i] = Ellipsis
              \/ b[i + 1] = Ellipsis /\ (here <= total => b[i + 2] > b[i] + 1)
        /\ here <= total =>
              \A p \in {here - 1, here, here + 1} \cap 1..total : \E i \in DOMAIN b : b[i] = p
=============================================================================
