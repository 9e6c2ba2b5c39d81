-------------------------- MODULE ClusterReconciler --------------------------
(***************************************************************************)
(* ClusterReconciler of cluster_controller.go: puts a finalizer on the     *)
(* tenant's HelmRelease and, once the HelmRelease is being deleted, sweeps *)
(* the tenant's OpenStack resources before it removes that finalizer.      *)
(***************************************************************************)
EXTENDS ControlPlane

CONSTANT Sibling  \* does another live cluster share the OpenStack project?

ASSUME SiblingAssumption == Sibling \in BOOLEAN

VARIABLES
  hrFin,   \* our finalizer on the HelmRelease
  cpc,     \* the next call
  ctodo    \* SweepClusterResources' toDelete

crVars == <<hrFin, cpc, ctodo>>

CSweep == INSTANCE ClusterSweep WITH wpc <- cpc, todo <- ctodo

CRTypeOK ==
  /\ hrFin \in BOOLEAN
  /\ cpc \in {"idle", "resolve", "list", "fip", "lb", "sg", "swept"}
  /\ ctodo \subseteq LBId

CRInit == hrFin \in BOOLEAN /\ cpc = "idle" /\ ctodo = {}

\* A live HelmRelease gets the finalizer; a terminating one is torn down.
CRGet ==
  /\ cpc = "idle"
  /\ \/ hr = "live" /\ ~hrFin /\ hrFin' = TRUE /\ UNCHANGED cpc
     \/ hr = "terminating" /\ hrFin /\ cpc' = "resolve" /\ UNCHANGED hrFin
  /\ UNCHANGED <<cloudVars, apiVars, ctodo>>

\* Credentials of the tenant, else of any sibling (borrowAnyCreds), else the
\* finalizer is dropped without a sweep.
CRResolve ==
  /\ cpc = "resolve"
  /\ cpc' = IF (ksc.present /\ ksc.secret) \/ Sibling THEN "list" ELSE "swept"
  /\ UNCHANGED <<cloudVars, apiVars, hrFin, ctodo>>

CRSweep == CSweep!SweepStep /\ UNCHANGED <<apiVars, hrFin>>

DropClusterFinalizer ==
  /\ cpc = "swept"
  /\ hrFin' = FALSE
  /\ cpc' = "idle"
  /\ UNCHANGED <<cloudVars, apiVars, ctodo>>

\* Any call fails, or the process restarts.
CRError ==
  /\ cpc # "idle"
  /\ cpc' = "idle"
  /\ ctodo' = {}
  /\ UNCHANGED <<cloudVars, apiVars, hrFin>>

CRStep == CRGet \/ CRResolve \/ CRSweep \/ DropClusterFinalizer
=============================================================================
