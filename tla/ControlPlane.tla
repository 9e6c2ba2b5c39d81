----------------------------- MODULE ControlPlane -----------------------------
(***************************************************************************)
(* The Kubernetes objects the loadbalancer-controller reads and writes:    *)
(* the tenant's Services, and in the management cluster the tenant's       *)
(* KubernetesSwitchcloud CR (with its credentials Secret) and HelmRelease. *)
(* Users and operators edit them concurrently with the controller.         *)
(*                                                                         *)
(* The tenant client reads Services through an informer cache, `view`,     *)
(* which may lag.  The CR and the HelmRelease are unstructured objects,    *)
(* which the controller-runtime client always reads from the apiserver.    *)
(***************************************************************************)
EXTENDS OpenStack

CONSTANTS
  StaleReads,   \* may the tenant informer cache lag behind the apiserver?
  OperatorOps,  \* what the operator may do: see EditKSC, DeleteKSC, DeleteHelmRelease
  MaxOps        \* bound: user and operator edits in one behaviour

ASSUME ControlPlaneAssumption ==
  /\ StaleReads \in BOOLEAN
  /\ OperatorOps \subseteq {"enabled", "network", "pin", "secret", "ksc", "hr"}
  /\ MaxOps \in Nat

VARIABLES
  svc,    \* Services in the tenant apiserver
  view,   \* the tenant informer cache
  ksc,    \* the KubernetesSwitchcloud CR and its existingSecret
  hr,     \* the HelmRelease: "live", "terminating" or "gone"
  ops     \* edits made so far

apiVars == <<svc, view, ksc, hr, ops>>

\* Values of status.loadBalancer.ingress: nothing, a floating IP, a VIP.
NoAddr == <<"none", 0>>
FipAddr(f) == <<"fip", f>>
VipAddr(l) == <<"vip", l>>
Address == {NoAddr} \cup {FipAddr(f) : f \in FipId} \cup {VipAddr(l) : l \in LBId}

\* A Service: type=LoadBalancer, our finalizer, deletionTimestamp, ingress.
SvcObject == [exists: BOOLEAN, lbType: BOOLEAN, fin: BOOLEAN,
              deleting: BOOLEAN, ingress: Address]
NoObject == [exists |-> FALSE, lbType |-> FALSE, fin |-> FALSE,
             deleting |-> FALSE, ingress |-> NoAddr]

\* spec.openstack.loadBalancer: enabled; a VIP network resolvable; a
\* workerSecurityGroupID pinned; the existingSecret present.
KSC == [present: BOOLEAN, enabled: BOOLEAN, network: BOOLEAN,
        pinned: BOOLEAN, secret: BOOLEAN]

ApiTypeOK ==
  /\ svc \in [Service -> SvcObject]
  /\ view \in [Service -> SvcObject]
  /\ ksc \in KSC
  /\ hr \in {"live", "terminating", "gone"}
  /\ ops \in 0..MaxOps

ApiInit ==
  /\ svc = [s \in Service |-> NoObject]
  /\ view = svc
  /\ ksc \in [present: {TRUE}, enabled: BOOLEAN, network: {TRUE},
              pinned: BOOLEAN, secret: {TRUE}]
  /\ hr = "live"
  /\ ops = 0

-----------------------------------------------------------------------------
\* The tenant is not being torn down.
TenantLive == ksc.present /\ hr = "live"

\* What the tenant client's Get returns.
Read(s) == IF StaleReads THEN view[s] ELSE svc[s]

\* The informer catches up with the apiserver.
CacheSync(s) ==
  /\ StaleReads
  /\ view[s] # svc[s]
  /\ view' = [view EXCEPT ![s] = svc[s]]
  /\ UNCHANGED <<svc, ksc, hr, ops>>

(***************************************************************************)
(* A merge patch without resourceVersion: it overwrites the field it       *)
(* carries whatever the object's current state, and 404s on a missing one. *)
(* Removing the last finalizer of an object being deleted reaps it.        *)
(***************************************************************************)
SetFinalizer(s) == svc' = [svc EXCEPT ![s].fin = TRUE]
RemoveFinalizer(s) ==
  svc' = [svc EXCEPT ![s] = IF svc[s].deleting THEN NoObject
                                               ELSE [svc[s] EXCEPT !.fin = FALSE]]
SetIngress(s, a) == svc' = [svc EXCEPT ![s].ingress = a]

-----------------------------------------------------------------------------
Edit == ops < MaxOps /\ ops' = ops + 1

CreateService(s, t) ==
  /\ Edit
  /\ ~svc[s].exists
  /\ svc' = [svc EXCEPT ![s] = [NoObject EXCEPT !.exists = TRUE, !.lbType = t]]
  /\ UNCHANGED <<view, ksc, hr>>

ChangeType(s) ==
  /\ Edit
  /\ svc[s].exists
  /\ svc' = [svc EXCEPT ![s].lbType = ~svc[s].lbType]
  /\ UNCHANGED <<view, ksc, hr>>

\* The apiserver reaps an object without finalizers at once.
DeleteService(s) ==
  /\ Edit
  /\ svc[s].exists /\ ~svc[s].deleting
  /\ svc' = [svc EXCEPT ![s] = IF svc[s].fin THEN [svc[s] EXCEPT !.deleting = TRUE]
                                             ELSE NoObject]
  /\ UNCHANGED <<view, ksc, hr>>

\* The operator edits spec.openstack.loadBalancer or the credentials Secret.
EditKSC ==
  /\ Edit
  /\ ksc.present
  /\ \/ "enabled" \in OperatorOps /\ ksc' = [ksc EXCEPT !.enabled = ~ksc.enabled]
     \/ "network" \in OperatorOps /\ ksc' = [ksc EXCEPT !.network = ~ksc.network]
     \/ "pin"     \in OperatorOps /\ ksc' = [ksc EXCEPT !.pinned = ~ksc.pinned]
     \/ "secret"  \in OperatorOps /\ ksc' = [ksc EXCEPT !.secret = ~ksc.secret]
  /\ UNCHANGED <<svc, view, hr>>

\* Deleting the tenant: cozystack-api removes the CR and marks the
\* HelmRelease for deletion, in either order.
DeleteKSC ==
  /\ Edit
  /\ "ksc" \in OperatorOps
  /\ ksc.present
  /\ ksc' = [ksc EXCEPT !.present = FALSE]
  /\ UNCHANGED <<svc, view, hr>>

DeleteHelmRelease ==
  /\ Edit
  /\ "hr" \in OperatorOps
  /\ hr = "live"
  /\ hr' = "terminating"
  /\ UNCHANGED <<svc, view, ksc>>
=============================================================================
