---------------------------- MODULE TenantTeardown ----------------------------
(***************************************************************************)
(* The three actors that delete OpenStack resources, side by side: the     *)
(* Service reconciler of the tenant's Session, the cluster reconciler and  *)
(* the orphan sweeper, while the tenant is deleted and, possibly, created  *)
(* again under the same name.                                              *)
(***************************************************************************)
EXTENDS ServiceReconciler, OrphanSweeper

CONSTANT Recreations  \* bound: how often the tenant is created again

ASSUME TeardownAssumption == Recreations \in Nat

VARIABLES
  generation,   \* times the tenant was created again
  late          \* history: LBs created while the HelmRelease was not live

envVars == <<generation, late>>
vars == <<cloudVars, apiVars, srVars, crVars, swVars, envVars>>

\* A running tenant whose HelmRelease carries our finalizer, with the feature
\* enabled and LoadBalancer Services the controller has not seen yet.
Init ==
  /\ CloudInit /\ SRInit /\ CRInit /\ SWInit
  /\ svc = [s \in Service |-> [NoObject EXCEPT !.exists = TRUE, !.lbType = TRUE]]
  /\ view = svc
  /\ ksc = [present |-> TRUE, enabled |-> TRUE, network |-> TRUE,
            pinned |-> FALSE, secret |-> TRUE]
  /\ hr = "live" /\ hrFin
  /\ ops = 0
  /\ generation = 0 /\ late = {}

-----------------------------------------------------------------------------
UserStep ==
  /\ \/ session /\ \E s \in Service : CreateService(s, TRUE) \/ DeleteService(s)
     \/ DeleteKSC
     \/ DeleteHelmRelease
  /\ UNCHANGED <<cloudVars, srVars, crVars, swVars, envVars>>

\* The HelmRelease goes once our finalizer is off it.
HelmReleaseGone ==
  /\ hr = "terminating" /\ ~hrFin
  /\ hr' = "gone"
  /\ UNCHANGED <<svc, view, ksc, ops, cloudVars, srVars, crVars, swVars, envVars>>

\* The Manager stops the Session and cancels the reconcile in flight.
StopIf(stopped) ==
  IF stopped THEN pc' = "idle" /\ job' = NoJob /\ UNCHANGED aborted
             ELSE UNCHANGED srVars

\* Uninstalling removes the tenant's control plane, and its Services with it.
TenantDown ==
  /\ hr # "live"
  /\ session \/ \E s \in Service : svc[s].exists
  /\ session' = FALSE
  /\ svc' = [s \in Service |-> NoObject]
  /\ view' = svc'
  /\ StopIf(TRUE)
  /\ UNCHANGED <<ksc, hr, ops, cloudVars, crVars, spc, cycleVars, envVars>>

\* CAPO removes the tenant's workers, if the teardown gets that far.
WorkersDown ==
  /\ hr # "live" /\ workers
  /\ workers' = FALSE
  /\ portSGs' = {}
  /\ UNCHANGED <<lb, fip, clusterSG, rules, apiVars, srVars, crVars, swVars, envVars>>

\* The tenant is created again under the same name.
Recreate ==
  /\ hr = "gone"
  /\ ~session /\ \A s \in Service : ~svc[s].exists
  /\ generation < Recreations
  /\ generation' = generation + 1
  /\ hr' = "live"
  /\ ksc' = [ksc EXCEPT !.present = TRUE]
  /\ UNCHANGED <<svc, view, ops, cloudVars, srVars, crVars, swVars, late>>

\* Kamaji issues a live tenant's kubeconfig Secret, again if it was swept, and
\* the Manager starts a Session from it.
SessionUp ==
  /\ hr = "live" /\ ~session
  /\ session' = TRUE
  /\ UNCHANGED <<cloudVars, apiVars, srVars, crVars, spc, cycleVars, envVars>>

CloudStep ==
  /\ \E l \in LBId : Settle(l) \/ (Failures /\ SettleError(l))
  /\ UNCHANGED <<apiVars, srVars, crVars, swVars, envVars>>

SRWork ==
  /\ session
  /\ ReconcileStep
  /\ late' = IF hr = "live" THEN late
             ELSE late \cup {l \in LBId : lb[l].status = "unused" /\ lb'[l].status # "unused"}
  /\ UNCHANGED <<crVars, swVars, generation>>
CRWork == CRStep /\ UNCHANGED <<srVars, swVars, envVars>>
SWWork == SWStep /\ StopIf(session /\ ~session') /\ UNCHANGED <<crVars, envVars>>

Failure ==
  /\ Failures
  /\ \/ ReconcileError /\ UNCHANGED <<crVars, swVars, envVars>>
     \/ CRError /\ UNCHANGED <<srVars, swVars, envVars>>
     \/ SWError /\ UNCHANGED <<srVars, crVars, envVars>>

Next ==
  \/ SRWork \/ CRWork \/ SWWork \/ Failure
  \/ UserStep \/ HelmReleaseGone \/ TenantDown \/ WorkersDown \/ Recreate \/ SessionUp
  \/ CloudStep

Spec == Init /\ [][Next]_vars

\* Each goroutine takes its next step, Octavia finishes what it accepted, and
\* Kamaji's, CAPO's and Flux's own work completes.
FairSpec ==
  /\ Spec
  /\ WF_vars(SRWork) /\ WF_vars(CRWork) /\ WF_vars(SWWork)
  /\ WF_vars(CloudStep)
  /\ WF_vars(HelmReleaseGone) /\ WF_vars(TenantDown) /\ WF_vars(WorkersDown)
  /\ WF_vars(SessionUp)

-----------------------------------------------------------------------------
TypeOK ==
  /\ CloudTypeOK /\ ApiTypeOK /\ SRTypeOK /\ CRTypeOK /\ SWTypeOK
  /\ generation \in 0..Recreations /\ late \subseteq LBId

\* The sweeper's per-Service check never condemns a resource of a live tenant
\* that was created once: whatever it lists there has its Service, however
\* far the reconciler's own create or cleanup has got.
SweeperSparesLiveServices ==
  (generation = 0 /\ TenantLive) => slbs = {} /\ sfips = {}

\* The HelmRelease's finalizer (cluster_controller.go) does its work: when
\* credentials can be found, the HelmRelease is not released before the
\* delete of every load balancer it left behind was accepted (Octavia may
\* then fail it, leaving ERROR), but for those that a reconcile
\* already past the HR-delete guard created meanwhile.  (A HelmRelease deleted
\* before the finalizer was first put on it is not held.)
Deleted(l) == lb[l].status \in {"unused", "PENDING_DELETE", "ERROR", "gone"}
SweptBeforeGone ==
  (hr = "gone" /\ Sibling /\ generation = 0) => \A l \in LBId \ late : Deleted(l)

\* cmd/main.go: "we don't want a sweep to fight an in-flight teardown": the
\* orphan sweeper leaves a cluster alone whose HelmRelease is terminating.
SweeperAvoidsTeardown ==
  [][(hr = "terminating" /\ spc # spc') => UNCHANGED cloudVars]_vars

\* Leftovers of a deleted tenant do not stay: its load balancers go ...
OrphanLBsGo == (hr = "gone") ~> (hr = "live" \/ \A l \in LBId : ~LiveLB(l))

\* ... its security group goes ...
OrphanSGGoes == (hr = "gone") ~> (hr = "live" \/ ~clusterSG)

\* ... and so do its floating IPs (sweep.go: "Cluster-orphan path will get
\* this one through SweepClusterResources on the next outer-loop tick").
OrphanFipsGo ==
  (hr = "gone") ~> (hr = "live" \/ \A f \in FipId : fip[f].state # "allocated")

\* What an earlier tenant of the same name left behind goes as well (sweep.go:
\* "mesh1 -> delete -> mesh1 again"): in a live tenant, load balancers and
\* floating IPs of a Service that does not exist do not stay.
LeftoversGo ==
  \A s \in Service : <>[](TenantLive /\ ~svc[s].exists)
                       => <>[](LBsNamed(s) \cup FipsTagged(s) = {})
=============================================================================
