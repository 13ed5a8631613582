------------------------------- MODULE Fields --------------------------------
(***************************************************************************)
(* What the engine answers, as the screens read it: a function on the      *)
(* fields that have a value.  null, undefined and the empty string are     *)
(* left out, and so is a flag that is FALSE where a screen asks for a      *)
(* truthy one.                                                             *)
(***************************************************************************)
EXTENDS Integers, Sequences, FiniteSets, TLC

Absent == "-"

Has(of, field) == field \in DOMAIN of
Is(of, field, value) == Has(of, field) /\ of[field] = value
IsIn(of, field, values) == Has(of, field) /\ of[field] \in values
Shown(of, fields) == fields \cap DOMAIN of
When(condition, lines) == IF condition THEN lines ELSE {}
Rows(flow, table) == IF Has(flow, table) THEN flow[table] ELSE <<>>
Members(flow, field) == IF Has(flow, field) THEN flow[field] ELSE {}

\* The fields of both, those of the first where both have one.
Over(of, under) ==
    [field \in DOMAIN of \cup DOMAIN under |-> IF Has(of, field) THEN of[field] ELSE under[field]]

\* The first of some places in a sequence.
First(places) == CHOOSE i \in places : \A j \in places : i <= j

\* The members of a sequence at some of its places, and those of which
\* something holds, in their order.
At(places, s) ==
    [n \in 1..Cardinality(places) |->
        s[CHOOSE i \in places : Cardinality({j \in places : j <= i}) = n]]

Where(s, Holds(_)) == At({i \in DOMAIN s : Holds(s[i])}, s)

\* The first of the fields that has a value.
FirstOf(of, fields) ==
    LET given == {i \in DOMAIN fields : Has(of, fields[i])}
    IN  IF given = {} THEN Absent ELSE of[fields[First(given)]]

\* The outcome of the first condition that holds.
FirstThat(choices) == choices[First({i \in DOMAIN choices : choices[i][1]})][2]

\* The fields of a row under other names: names[new] = old.
Renamed(of, names) ==
    [field \in {new \in DOMAIN names : Has(of, names[new])} |-> of[names[field]]]
=============================================================================
