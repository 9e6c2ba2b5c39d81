-------------------------- MODULE ServiceReconciler --------------------------
(***************************************************************************)
(* tenantServiceReconciler.Reconcile of service_controller.go, run by the  *)
(* single worker of the tenant's Session.  One action per API call: a list *)
(* and the write that follows it in the same helper are one action, since  *)
(* no other actor creates load balancers or floating IPs, and what another *)
(* actor deletes in between turns the write into an error, which is        *)
(* ReconcileError.                                                         *)
(*                                                                         *)
(* `pc' is the next call, `job' what the call stack holds: the Service as  *)
(* first read, the resolved config, the load balancer found, whether       *)
(* worker IPs were listed, and the address to publish.                     *)
(***************************************************************************)
EXTENDS ControlPlane

CONSTANT ExternalNet  \* answers to: does FloatingNetworkID or discovery, asked
                      \* again by every reconcile, yield an external network?

ASSUME ExternalNetAssumption == ExternalNet \subseteq BOOLEAN /\ ExternalNet # {}

VARIABLES
  pc,       \* the next call
  job,      \* the call stack
  aborted   \* did the last reconcile end in ReconcileError?

srVars == <<pc, job, aborted>>

PC == {"idle", "resolve", "guard", "wipe", "addFin", "ensureLB", "sync",
       "fip", "sg", "attach", "detach", "rules", "publish",
       "cRules", "cFip", "cLB", "cClear", "dropFin"}

\* LoadBalancerConfig as the reconciler tells configurations apart.
Config == [enabled: BOOLEAN, pinned: BOOLEAN]
NoConfig == [enabled |-> FALSE, pinned |-> FALSE]

Job == [s: Service \cup {NoSvc}, snap: SvcObject, cfg: Config,
        lb: LBId \cup {0}, members: BOOLEAN, addr: Address]
NoJob == [s |-> NoSvc, snap |-> NoObject, cfg |-> NoConfig,
          lb |-> 0, members |-> FALSE, addr |-> NoAddr]

SRTypeOK == pc \in PC /\ job \in Job /\ aborted \in BOOLEAN

SRInit == pc = "idle" /\ job = NoJob /\ aborted = FALSE

-----------------------------------------------------------------------------
\* Reconcile returns; the Session's queue and the 60 s resync bring the
\* Service back whether it returned an error or not.
Return == pc' = "idle" /\ job' = NoJob /\ UNCHANGED aborted
Proceed(p, j) == pc' = p /\ job' = j /\ UNCHANGED aborted
Goto(p) == Proceed(p, job)

\* Any call may fail or its answer be lost, and the process may die between
\* two calls: the reconcile ends where it is, without its later calls.
ReconcileError ==
  /\ pc # "idle"
  /\ pc' = "idle"
  /\ job' = NoJob
  /\ aborted' = TRUE
  /\ UNCHANGED <<cloudVars, apiVars>>

\* Get the Service.  A Service that is neither type=LoadBalancer nor carries
\* our finalizer is left alone before anything is read or written.
Get(s) ==
  /\ pc = "idle"
  /\ Read(s).exists
  /\ Read(s).lbType \/ Read(s).fin
  /\ pc' = "resolve"
  /\ job' = [NoJob EXCEPT !.s = s, !.snap = Read(s)]
  /\ aborted' = FALSE
  /\ UNCHANGED <<cloudVars, apiVars>>

\* ksc.Resolve: a disabled or misconfigured tenant's config carries the
\* credentials and nothing else, workerSecurityGroupID included.
ResolvedConfig ==
  [enabled |-> ksc.enabled /\ ksc.network,
   pinned  |-> ksc.enabled /\ ksc.network /\ ksc.pinned]

\* ksc.IsNotFound: the root cause is a 404, of the CR or of the Secret.
ResolveNotFound == ~ksc.present \/ ~ksc.secret

Resolve ==
  /\ pc = "resolve"
  /\ \/ ResolveNotFound /\ Goto("dropFin")
     \/ ~ResolveNotFound /\ Proceed("guard", [job EXCEPT !.cfg = ResolvedConfig])
  /\ UNCHANGED <<cloudVars, apiVars>>

\* Mutant: provisions before the Service is claimed.
DispatchUnclaimed ==
  LET managed == job.snap.lbType /\ job.cfg.enabled IN
  CASE ~managed \/ job.snap.deleting -> IF job.snap.fin THEN "cRules" ELSE "idle"
    [] managed /\ ~job.snap.deleting -> "ensureLB"

\* Mutant: a disabled tenant's Services are left alone, claimed or not.
DispatchIgnoringDisabled ==
  CASE ~job.cfg.enabled -> "idle"
    [] job.cfg.enabled /\ (~job.snap.lbType \/ job.snap.deleting) ->
         IF job.snap.fin THEN "cRules" ELSE "idle"
    [] OTHER -> IF job.snap.fin THEN "ensureLB" ELSE "addFin"

\* What Reconcile does once the HelmRelease is known to be live.  A Service
\* we never claimed is left alone, be the tenant misconfigured or disabled.
Dispatch ==
  LET managed == job.snap.lbType /\ job.cfg.enabled IN
  CASE ~managed \/ job.snap.deleting -> IF job.snap.fin THEN "cRules" ELSE "idle"
    [] managed /\ ~job.snap.deleting -> IF job.snap.fin THEN "ensureLB" ELSE "addFin"

\* isHelmReleaseDeleting: terminating or missing.
HRDeleteGuard ==
  /\ pc = "guard"
  /\ \/ /\ hr # "live"
        /\ Goto(IF job.cfg.pinned /\ job.snap.fin THEN "wipe" ELSE "dropFin")
     \/ /\ hr = "live"
        /\ Dispatch # "idle"
        /\ Goto(Dispatch)
     \/ /\ hr = "live"
        /\ Dispatch = "idle"
        /\ Return
  /\ UNCHANGED <<cloudVars, apiVars>>

\* Best effort: the tenant is going away, so a failure is logged only.
WipeOperatorRules ==
  /\ pc = "wipe"
  /\ rules' \in {rules, rules \ {<<"operator", job.s>>}}
  /\ Goto("dropFin")
  /\ UNCHANGED <<lb, fip, clusterSG, workers, portSGs, apiVars>>

AddFinalizer ==
  /\ pc = "addFin"
  /\ IF svc[job.s].exists THEN SetFinalizer(job.s) ELSE UNCHANGED svc
  /\ Return
  /\ UNCHANGED <<cloudVars, view, ksc, hr, ops>>

-----------------------------------------------------------------------------
(***************************************************************************)
(* Create path.                                                            *)
(***************************************************************************)
\* Mutant: only an ACTIVE load balancer counts as found.
EnsureLBIgnoringPending ==
  /\ pc = "ensureLB"
  /\ \/ /\ \A l \in LBsNamed(job.s) : lb[l].status # "ACTIVE"
        /\ \E l \in LBId : FreshLB(l) /\ CreateLB(l, job.s)
        /\ Return
     \/ \E l \in LBsNamed(job.s) :
          /\ lb[l].status = "ACTIVE"
          /\ Proceed("sync", [job EXCEPT !.lb = l])
          /\ UNCHANGED lb
  /\ UNCHANGED <<fip, clusterSG, rules, workers, portSGs, apiVars>>

\* A missing LB is created and the worker yields; so does it on PENDING_*.
EnsureLB ==
  /\ pc = "ensureLB"
  /\ \/ /\ LBsNamed(job.s) = {}
        /\ \E l \in LBId : FreshLB(l) /\ CreateLB(l, job.s)
        /\ Return
     \/ \E l \in LBsNamed(job.s) :
          /\ IF lb[l].status = "ACTIVE"
               THEN Proceed("sync", [job EXCEPT !.lb = l])
               ELSE Return
          /\ UNCHANGED lb
  /\ UNCHANGED <<fip, clusterSG, rules, workers, portSGs, apiVars>>

\* Mutant: counts a member's creation as two mutations done.
SyncSkippingOne ==
  /\ pc = "sync"
  /\ \/ /\ lb[job.lb].todo = 0
        /\ Proceed("fip", [job EXCEPT !.members = workers])
        /\ UNCHANGED lb
     \/ /\ lb[job.lb].todo # 0
        /\ lb' = [lb EXCEPT ![job.lb].status = "PENDING_UPDATE",
                            ![job.lb].todo = lb[job.lb].todo - 2]
        /\ Return
  /\ UNCHANGED <<fip, clusterSG, rules, workers, portSGs, apiVars>>

\* ListWorkerIPsOnNetwork, then SyncListenersAndMembers: at most one mutation
\* a call, which puts the LB into PENDING_UPDATE and yields.
SyncListenersAndMembers ==
  /\ pc = "sync"
  /\ \/ /\ lb[job.lb].todo = 0
        /\ LiveLB(job.lb)
        /\ Proceed("fip", [job EXCEPT !.members = workers])
        /\ UNCHANGED lb
     \/ /\ lb[job.lb].todo > 0
        /\ lb[job.lb].status = "ACTIVE"
        /\ lb' = [lb EXCEPT ![job.lb].status = "PENDING_UPDATE",
                            ![job.lb].todo = lb[job.lb].todo - 1]
        /\ Return
     \/ /\ ~LiveLB(job.lb) \/ (lb[job.lb].todo > 0 /\ lb[job.lb].status # "ACTIVE")
        /\ Return
        /\ UNCHANGED lb
  /\ UNCHANGED <<fip, clusterSG, rules, workers, portSGs, apiVars>>

\* The address to publish: the LB's floating IP, allocated unless one is
\* bound to the VIP port already, or the VIP when there is no external network.
EnsureFloatingIP ==
  /\ pc = "fip"
  /\ \/ /\ FALSE \in ExternalNet
        /\ Proceed("sg", [job EXCEPT !.addr = VipAddr(job.lb)])
        /\ UNCHANGED fip
     \/ /\ TRUE \in ExternalNet
        /\ \E f \in FipsOn(job.lb) : Proceed("sg", [job EXCEPT !.addr = FipAddr(f)])
        /\ UNCHANGED fip
     \/ /\ TRUE \in ExternalNet
        /\ FipsOn(job.lb) = {}
        /\ LiveLB(job.lb)
        /\ \E f \in FipId : /\ FreshFip(f)
                           /\ CreateFip(f, job.s, job.lb)
                           /\ Proceed("sg", [job EXCEPT !.addr = FipAddr(f)])
     \/ TRUE \in ExternalNet /\ ~LiveLB(job.lb) /\ Return /\ UNCHANGED fip
  /\ UNCHANGED <<lb, clusterSG, rules, workers, portSGs, apiVars>>

WorkerSG == IF job.cfg.pinned THEN "operator" ELSE "cluster"

\* Mutant: an operator-supplied group is left entirely to the operator.
EnsureClusterSecurityGroupOnly ==
  /\ pc = "sg"
  /\ IF job.cfg.pinned
       THEN Goto("publish") /\ UNCHANGED clusterSG
       ELSE Goto("attach") /\ clusterSG' = TRUE
  /\ UNCHANGED <<lb, fip, rules, workers, portSGs, apiVars>>

\* Only a controller-managed group is created and attached.
EnsureClusterSecurityGroup ==
  /\ pc = "sg"
  /\ IF job.cfg.pinned
       THEN Goto("rules") /\ UNCHANGED clusterSG
       ELSE Goto("attach") /\ clusterSG' = TRUE
  /\ UNCHANGED <<lb, fip, rules, workers, portSGs, apiVars>>

EnsureSGAttachedToWorkers ==
  /\ pc = "attach"
  /\ \/ /\ ~(job.members /\ workers)
        /\ Goto("detach")
        /\ UNCHANGED portSGs
     \/ /\ job.members /\ workers /\ clusterSG
        /\ portSGs' = portSGs \cup {"cluster"}
        /\ Goto("detach")
     \/ /\ job.members /\ workers /\ ~clusterSG
        /\ Return
        /\ UNCHANGED portSGs
  /\ UNCHANGED <<lb, fip, clusterSG, rules, workers, apiVars>>

\* Mutant: without the refusal.
DetachDefaultUnconditionally ==
  /\ pc = "detach"
  /\ portSGs' = IF job.members THEN portSGs \ {"default"} ELSE portSGs
  /\ Goto("rules")
  /\ UNCHANGED <<lb, fip, clusterSG, rules, workers, apiVars>>

\* Refuses to leave a port without any group.
DetachDefaultSGFromWorkers ==
  /\ pc = "detach"
  /\ IF job.members /\ portSGs = {"default"}
       THEN Return /\ UNCHANGED portSGs
       ELSE /\ portSGs' = IF job.members THEN portSGs \ {"default"} ELSE portSGs
            /\ Goto("rules")
  /\ UNCHANGED <<lb, fip, clusterSG, rules, workers, apiVars>>

EnsureNodePortRules ==
  /\ pc = "rules"
  /\ IF WorkerSG = "cluster" /\ ~clusterSG
       THEN Return /\ UNCHANGED rules
       ELSE rules' = rules \cup {<<WorkerSG, job.s>>} /\ Goto("publish")
  /\ UNCHANGED <<lb, fip, clusterSG, workers, portSGs, apiVars>>

\* Mutant: an ingress that is already set is taken to be right.
PatchEmptyStatus ==
  /\ pc = "publish"
  /\ IF Read(job.s).exists /\ Read(job.s).ingress = NoAddr /\ svc[job.s].exists
       THEN SetIngress(job.s, job.addr)
       ELSE UNCHANGED svc
  /\ Return
  /\ UNCHANGED <<cloudVars, view, ksc, hr, ops>>

\* The status is refetched (from the cache again) before it is patched.
PatchStatus ==
  /\ pc = "publish"
  /\ IF /\ job.snap.ingress # job.addr
        /\ Read(job.s).exists /\ Read(job.s).ingress # job.addr
        /\ svc[job.s].exists
       THEN SetIngress(job.s, job.addr)
       ELSE UNCHANGED svc
  /\ Return
  /\ UNCHANGED <<cloudVars, view, ksc, hr, ops>>

-----------------------------------------------------------------------------
(***************************************************************************)
(* Cleanup path.                                                           *)
(***************************************************************************)
\* Mutant: an error of the rule cleanup is swallowed.
CleanupRulesBestEffort ==
  /\ pc = "cRules"
  /\ rules' \in {rules, rules \ {<<WorkerSG, job.s>>}}
  /\ Goto("cFip")
  /\ UNCHANGED <<lb, fip, clusterSG, workers, portSGs, apiVars>>

\* resolveCleanupSGID and DeleteNodePortRules.
CleanupRules ==
  /\ pc = "cRules"
  /\ rules' = rules \ {<<WorkerSG, job.s>>}
  /\ Goto("cFip")
  /\ UNCHANGED <<lb, fip, clusterSG, workers, portSGs, apiVars>>

\* Mutant: relies on Octavia's cascade to take the floating IP.
DeleteLBByCascade ==
  /\ pc = "cFip"
  /\ \/ LBsNamed(job.s) = {} /\ Goto("cClear")
     \/ \E l \in LBsNamed(job.s) :
          IF lb[l].status = "PENDING_DELETE"
            THEN Return
            ELSE Proceed("cLB", [job EXCEPT !.lb = l])
  /\ UNCHANGED <<cloudVars, apiVars>>

\* Mutant: a load balancer being deleted counts as gone.
DeleteLBAssumingGone ==
  /\ pc = "cFip"
  /\ \/ LBsNamed(job.s) = {} /\ Goto("cClear") /\ UNCHANGED fip
     \/ \E l \in LBsNamed(job.s) :
          /\ fip' = Released(FipsOn(l))
          /\ IF lb[l].status = "PENDING_DELETE"
               THEN Goto("cClear")
               ELSE Proceed("cLB", [job EXCEPT !.lb = l])
  /\ UNCHANGED <<lb, clusterSG, rules, workers, portSGs, apiVars>>

\* DeleteLB finds the LB by name and deletes its floating IP first.
DeleteLBFloatingIP ==
  /\ pc = "cFip"
  /\ \/ LBsNamed(job.s) = {} /\ Goto("cClear") /\ UNCHANGED fip
     \/ \E l \in LBsNamed(job.s) :
          /\ fip' = Released(FipsOn(l))
          /\ IF lb[l].status = "PENDING_DELETE"
               THEN Return
               ELSE Proceed("cLB", [job EXCEPT !.lb = l])
  /\ UNCHANGED <<lb, clusterSG, rules, workers, portSGs, apiVars>>

\* Mutant: a load balancer in ERROR is left to its owner.
DeleteActiveLB ==
  /\ pc = "cLB"
  /\ IF lb[job.lb].status = "ACTIVE" THEN RequestDelete(job.lb) ELSE UNCHANGED lb
  /\ Return
  /\ UNCHANGED <<fip, clusterSG, rules, workers, portSGs, apiVars>>

\* The delete is asynchronous: the finalizer stays until a later reconcile
\* finds the LB gone.
DeleteLB ==
  /\ pc = "cLB"
  /\ IF Deletable(job.lb) THEN RequestDelete(job.lb) ELSE UNCHANGED lb
  /\ Return
  /\ UNCHANGED <<fip, clusterSG, rules, workers, portSGs, apiVars>>

\* Mutant: the status is left as it is.
KeepStatusIngress == pc = "cClear" /\ Goto("dropFin") /\ UNCHANGED <<cloudVars, apiVars>>

ClearStatusIngress ==
  /\ pc = "cClear"
  /\ Goto("dropFin")
  /\ IF /\ job.snap.ingress # NoAddr
        /\ Read(job.s).exists /\ Read(job.s).ingress # NoAddr
        /\ svc[job.s].exists
       THEN SetIngress(job.s, NoAddr)
       ELSE UNCHANGED svc
  /\ UNCHANGED <<cloudVars, view, ksc, hr, ops>>

DropFinalizer ==
  /\ pc = "dropFin"
  /\ IF job.snap.fin /\ svc[job.s].exists THEN RemoveFinalizer(job.s)
                                          ELSE UNCHANGED svc
  /\ Return
  /\ UNCHANGED <<cloudVars, view, ksc, hr, ops>>

-----------------------------------------------------------------------------
ReconcileStep ==
  \/ \E s \in Service : Get(s)
  \/ Resolve \/ HRDeleteGuard \/ WipeOperatorRules \/ AddFinalizer
  \/ EnsureLB \/ SyncListenersAndMembers \/ EnsureFloatingIP
  \/ EnsureClusterSecurityGroup \/ EnsureSGAttachedToWorkers
  \/ DetachDefaultSGFromWorkers \/ EnsureNodePortRules \/ PatchStatus
  \/ CleanupRules \/ DeleteLBFloatingIP \/ DeleteLB
  \/ ClearStatusIngress \/ DropFinalizer
=============================================================================
