----------------------------- MODULE LatestRead -----------------------------
(***************************************************************************)
(* What a screen with numbered reads promises, with no word about how:     *)
(* reads are numbered as they are issued, several may be in flight, and    *)
(* the answer on display may only be replaced by the answer to the newest  *)
(* read.  Answers to superseded reads are dropped.                         *)
(*                                                                         *)
(* The run detail and the workflow list implement it with a request        *)
(* counter captured by each promise; both are checked against this module  *)
(* and proved to implement it.                                             *)
(***************************************************************************)
EXTENDS Naturals

CONSTANT MaxReads   \* bound: reads a behaviour issues

VARIABLES
    issued,     \* number of reads issued so far
    inFlight,   \* numbers of the reads that have not settled
    shown       \* number of the read whose answer is on display, 0 for none

vars == <<issued, inFlight, shown>>

Init ==
    /\ issued = 0
    /\ inFlight = {}
    /\ shown = 0

\* The screen asks again, whatever is still in flight.
Issue ==
    /\ issued < MaxReads
    /\ issued' = issued + 1
    /\ inFlight' = inFlight \cup {issued + 1}
    /\ UNCHANGED shown

\* The newest read settles: its answer goes on display, or it failed and
\* the display stays what it was.
Settle ==
    /\ issued \in inFlight
    /\ inFlight' = inFlight \ {issued}
    /\ shown' \in {shown, issued}
    /\ UNCHANGED issued

\* The newest read settles and the screen at once asks again.
SettleAndIssue ==
    /\ issued \in inFlight
    /\ issued < MaxReads
    /\ issued' = issued + 1
    /\ inFlight' = (inFlight \ {issued}) \cup {issued + 1}
    /\ shown' = issued

\* A superseded read settles: nothing on display changes.
Ignore(n) ==
    /\ n \in inFlight
    /\ n # issued
    /\ inFlight' = inFlight \ {n}
    /\ UNCHANGED <<issued, shown>>

Next ==
    \/ Issue
    \/ Settle
    \/ SettleAndIssue
    \/ \E n \in 1..MaxReads : Ignore(n)

SafeSpec == Init /\ [][Next]_vars
=============================================================================
