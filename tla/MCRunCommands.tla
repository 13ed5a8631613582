--------------------------- MODULE MCRunCommands ----------------------------
(* Instances of RunCommands small enough for TLC. *)
EXTENDS RunCommands, TLC

CONSTANTS a1, a2, a3, b1, b2, A, B

\* A failed run, the run its redrive starts, and another workflow's run.
AndAnother == (a1 :> A) @@ (a2 :> A) @@ (b1 :> B)

\* A failed run of each of two workflows, and the run its redrive starts.
TwoInstances == (a1 :> A) @@ (a2 :> A) @@ (b1 :> B) @@ (b2 :> B)

\* A failed run of each of two workflows; the successor of the one may fail too.
LongerA == (a1 :> A) @@ (a2 :> A) @@ (a3 :> A) @@ (b1 :> B)
=============================================================================
