--------------------------- MODULE ServiceLifecycle ---------------------------
(***************************************************************************)
(* The Service reconciler among everything that moves beside it: users who *)
(* create, retype, edit and delete Services, the operator who reconfigures *)
(* or deletes the tenant, Octavia settling its operations, CAPO scaling    *)
(* workers, the informer cache, and failing calls.                         *)
(***************************************************************************)
EXTENDS ServiceReconciler

vars == <<cloudVars, apiVars, srVars>>

Init == CloudInit /\ ApiInit /\ SRInit

\* A user edits spec.ports: listeners and members must be synced again.
EditPorts(s) ==
  /\ Edit
  /\ svc[s].exists
  /\ lb' = Outdated(LBsNamed(s))
  /\ UNCHANGED <<fip, clusterSG, rules, workers, portSGs, svc, view, ksc, hr>>

\* Flux finishes uninstalling the tenant.
HelmReleaseGone ==
  /\ hr = "terminating"
  /\ hr' = "gone"
  /\ UNCHANGED <<svc, view, ksc, ops>>

UserStep ==
  \/ \E s \in Service : \/ \E t \in BOOLEAN : CreateService(s, t)
                        \/ ChangeType(s)
                        \/ DeleteService(s)
  \/ EditKSC
  \/ DeleteKSC
  \/ DeleteHelmRelease
  \/ HelmReleaseGone

CloudStep == \E l \in LBId : Settle(l) \/ SettleError(l)

Next ==
  \/ ReconcileStep
  \/ ReconcileError
  \/ UserStep /\ UNCHANGED <<cloudVars, srVars>>
  \/ (\E s \in Service : EditPorts(s)) /\ UNCHANGED srVars
  \/ (\E s \in Service : CacheSync(s)) /\ UNCHANGED <<cloudVars, srVars>>
  \/ ScaleWorkers /\ Edit /\ UNCHANGED <<svc, view, ksc, hr, srVars>>
  \/ CloudStep /\ UNCHANGED <<apiVars, srVars>>

Spec == Init /\ [][Next]_vars

(***************************************************************************)
(* Fairness.  The worker takes its next step and its queue serves every    *)
(* Service; Octavia finishes what it accepted; the informer catches up.    *)
(* Outages end: from some time on calls return answers and Octavia's       *)
(* operations succeed.  Users and operators owe nothing.                   *)
(***************************************************************************)
Fairness ==
  /\ WF_vars(ReconcileStep)
  /\ \A s \in Service : SF_vars(Get(s))
  /\ \A l \in LBId : WF_vars(Settle(l) /\ UNCHANGED <<apiVars, srVars>>)
  /\ \A s \in Service : WF_vars(CacheSync(s) /\ UNCHANGED <<cloudVars, srVars>>)

OutagesEnd ==
  /\ <>[]~aborted
  /\ <>[][~\E l \in LBId : SettleError(l)]_vars

FairSpec == Spec /\ Fairness /\ OutagesEnd

-----------------------------------------------------------------------------
(***************************************************************************)
(* Safety.                                                                 *)
(***************************************************************************)
TypeOK == CloudTypeOK /\ ApiTypeOK /\ SRTypeOK

\* The finalizer's contract (finalizers/names.go): while the tenant lives, a
\* Service that owns a load balancer or a floating IP carries our finalizer,
\* so neither outlives its Service, whatever the interleaving of reconciles,
\* failed calls, Octavia's delays and edits of Service and CR.
FinalizerGuardsLB ==
  TenantLive => \A s \in Service :
    LBsNamed(s) \cup FipsTagged(s) # {} => svc[s].fin

RulesGuarded(groups) ==
  TenantLive => \A s \in Service : rules \cap (groups \X {s}) # {} => svc[s].fin

\* The same for the NodePort rules in the cluster's own security group: they
\* go before the finalizer does.
FinalizerGuardsClusterRules == RulesGuarded({"cluster"})

\* cleanup (service_controller.go) promises it for an operator-supplied group
\* too: disabling the feature must not orphan "SG rules".
FinalizerGuardsRules == RulesGuarded(Group)

\* EnsureLB and EnsureFloatingIP are idempotent across retries, lost answers
\* and restarts: a Service never has two load balancers or two floating IPs.
NoDuplicates ==
  \A s \in Service : /\ \A l, m \in LBsNamed(s) : l = m
                     /\ \A f, g \in FipsTagged(s) : f = g

\* No floating IP is left bound to nothing: DeleteLB takes it down first.
NoStrandedFip ==
  \A f \in FipId : fip[f].state = "allocated" => fip[f].port # NoPort

\* cleanup clears status.loadBalancer.ingress before it drops the finalizer:
\* a live tenant's Service that we no longer manage shows no address of ours.
NoAddressAfterRelease ==
  TenantLive => \A s \in Service : svc[s].ingress # NoAddr => svc[s].fin

\* DetachDefaultSGFromWorkers never leaves a worker port without a group.
NoBarePort == workers => portSGs # {}

\* Is a an address of a load balancer of s that is not being deleted?
Reachable(s, a) ==
  \/ \E f \in FipsTagged(s) : a = FipAddr(f) /\ fip[f].port \in LBsNamed(s)
  \/ \E l \in LBsNamed(s) : a = VipAddr(l)

\* An address is published only when traffic can follow it: it is the
\* Service's own and the Service's NodePort rules are in place.
PublishedWhenReady ==
  [][\A s \in Service :
       svc'[s].ingress \notin {svc[s].ingress, NoAddr} =>
         /\ Reachable(s, svc'[s].ingress)
         /\ \E g \in Group : <<g, s>> \in rules]_vars

\* The reconciler implements ServiceContract: through every interleaving of
\* its calls with edits, failures and Octavia's delays, a Service is claimed,
\* balanced, addressed and published in that order and released only after
\* all of it was taken back.
Contract == INSTANCE ServiceContract WITH
  live <- TenantLive,
  claimed <- {s \in Service : svc[s].fin},
  balanced <- {lb[l].svc : l \in {m \in LBId : LiveLB(m)}},
  addressed <- {fip[f].svc : f \in {g \in FipId : fip[g].state = "allocated"}},
  published <- {s \in Service : svc[s].ingress # NoAddr}
ImplementsContract == Contract!Spec

-----------------------------------------------------------------------------
(***************************************************************************)
(* Liveness.                                                               *)
(***************************************************************************)
\* A Service being deleted is never held hostage: it goes away, with all it
\* owned, however the tenant is reconfigured meanwhile.
DeletedServiceGoes == \A s \in Service : svc[s].deleting ~> ~svc[s].exists

Wanted(s) == /\ svc[s].exists /\ svc[s].lbType /\ ~svc[s].deleting
             /\ TenantLive /\ ksc.secret /\ ksc.enabled /\ ksc.network

\* EnsureLB never repairs a load balancer in provisioning_status=ERROR.
Broken(s) == \E l \in LBsNamed(s) : lb[l].status = "ERROR"

\* A LoadBalancer Service of an enabled tenant ends up published at an
\* address of its own, whatever happened before its configuration settled.
WantedServiceIsPublished ==
  \A s \in Service : <>[](Wanted(s) /\ ~Broken(s))
                       => <>[](Reachable(s, svc[s].ingress))

\* Once Wanted no longer holds for good, because the feature was disabled,
\* its network removed or the Service retyped, a live tenant's Service is let
\* go of (cleanup: "So we run cleanup unconditionally"), even if the cache
\* kept showing an earlier state of it.
Unwanted(s) == /\ svc[s].exists /\ TenantLive /\ ksc.secret
               /\ ~(svc[s].lbType /\ ksc.enabled /\ ksc.network)
UnwantedServiceIsReleased ==
  \A s \in Service : <>[]Unwanted(s) => <>[](svc[s].exists /\ ~svc[s].fin)
=============================================================================
