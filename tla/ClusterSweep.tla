----------------------------- MODULE ClusterSweep -----------------------------
(***************************************************************************)
(* SweepClusterResources of sweep.go: tear down everything a cluster could *)
(* own, by name prefix.  Two goroutines run it, the cluster reconciler     *)
(* (holding the HelmRelease's finalizer) and the orphan sweeper, so it is  *)
(* instantiated twice: `wpc' is the caller's program counter, `todo' the   *)
(* load balancers listed and not yet deleted.                              *)
(***************************************************************************)
EXTENDS OpenStack

VARIABLES wpc, todo

First(l) == l \in todo /\ \A m \in todo : l <= m

SweepList ==
  /\ wpc = "list"
  /\ todo' = {l \in LBId : LiveLB(l)}
  /\ wpc' = IF todo' = {} THEN "sg" ELSE "fip"
  /\ UNCHANGED cloudVars

\* The floating IP must go first: Octavia's cascade does not reach it.
SweepFloatingIP ==
  /\ wpc = "fip"
  /\ \E l \in LBId : First(l) /\ fip' = Released(FipsOn(l))
  /\ wpc' = "lb"
  /\ UNCHANGED <<lb, clusterSG, rules, workers, portSGs, todo>>

\* Mutant: a 409 is taken for a delete already under way.
SweepLBIgnoringConflict ==
  /\ wpc = "lb"
  /\ \E l \in LBId :
       /\ First(l)
       /\ IF Deletable(l) THEN RequestDelete(l) ELSE UNCHANGED lb
       /\ todo' = todo \ {l}
       /\ wpc' = IF todo' = {} THEN "sg" ELSE "fip"
  /\ UNCHANGED <<fip, clusterSG, rules, workers, portSGs>>

\* A 409 (LB still PENDING_*) or a 404 ends the sweep with an error.
SweepLB ==
  /\ wpc = "lb"
  /\ \E l \in LBId :
       /\ First(l)
       /\ IF Deletable(l)
            THEN /\ RequestDelete(l)
                 /\ todo' = todo \ {l}
                 /\ wpc' = IF todo' = {} THEN "sg" ELSE "fip"
            ELSE /\ todo' = {}
                 /\ wpc' = "idle"
                 /\ UNCHANGED lb
  /\ UNCHANGED <<fip, clusterSG, rules, workers, portSGs>>

\* Best effort: a group still on a worker port (409) is left for later.
SweepSG ==
  /\ wpc = "sg"
  /\ clusterSG' = (clusterSG /\ SGInUse)
  /\ rules' = IF clusterSG' THEN rules ELSE rules \ ({"cluster"} \X Service)
  /\ wpc' = "swept"
  /\ UNCHANGED <<lb, fip, workers, portSGs, todo>>

SweepStep == SweepList \/ SweepFloatingIP \/ SweepLB \/ SweepSG
=============================================================================
