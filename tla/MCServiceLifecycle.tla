-------------------------- MODULE MCServiceLifecycle --------------------------
(***************************************************************************)
(* Instances of ServiceLifecycle for TLC.  With one Service and MaxOps     *)
(* edits a Service is released and claimed again at most twice, so the ids *)
(* below are never exhausted; with two Services behaviours that would need *)
(* a third load balancer end where it would be created.                    *)
(***************************************************************************)
EXTENDS ServiceLifecycle, TLC

MCLBId == 1..2
MCFipId == 1..3

\* Services are interchangeable; safety runs may use it.
MCSymmetry == Permutations(Service)
=============================================================================
