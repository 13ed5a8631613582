---------------------------- MODULE MCRunDetail -----------------------------
(* Instances of RunDetail small enough for TLC. *)
EXTENDS RunDetail, TLC

CONSTANTS a1, a2, b1, A, B

\* Embedded: two runs of one workflow and a run of engine v1.
EmbeddedInstances == (a1 :> A) @@ (a2 :> A) @@ (b1 :> NoInstance)

\* One run, whose screen the operator may leave as it is for ever.
SingleRun == (a1 :> A)
=============================================================================
