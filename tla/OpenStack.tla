------------------------------ MODULE OpenStack ------------------------------
(***************************************************************************)
(* One OpenStack project as the loadbalancer-controller uses it: the       *)
(* Octavia load balancers and Neutron floating IPs named                   *)
(* cozystack:<tenant>/<ns>/<svc> of ONE tenant cluster, that cluster's     *)
(* security group cozystack-lb-<tenant>, the NodePort rules on it or on an *)
(* operator-supplied group, and the groups on the worker ports.            *)
(*                                                                         *)
(* A name stands for its (tenant, namespace, Service) triple, so a load    *)
(* balancer records the Service itself.  Ids are handed out once and never *)
(* reused, as UUIDs are: an id held across steps may be stale but never    *)
(* names another resource.  One worker port stands for all of them.        *)
(***************************************************************************)
EXTENDS Naturals, FiniteSets

CONSTANTS
  Service,    \* the tenant's Services that may become type=LoadBalancer
  NoSvc,      \* no Service
  LBId,       \* bound: Octavia load balancers that may ever be created
  FipId,      \* bound: floating IPs that may ever be allocated
  SyncWork    \* bound: listener/pool/member mutations a change costs

ASSUME OpenStackAssumption ==
  /\ NoSvc \notin Service
  /\ LBId \subseteq Nat \ {0}
  /\ FipId \subseteq Nat \ {0}
  /\ SyncWork \in Nat

VARIABLES
  lb,         \* load balancers by id: owner, provisioning_status, work left
  fip,        \* floating IPs by id: owner (description), state, bound LB
  clusterSG,  \* does cozystack-lb-<tenant> exist?
  rules,      \* <<group, Service>>: the Service has NodePort rules in group
  workers,    \* do the tenant's worker VMs exist?
  portSGs     \* groups on the worker ports

cloudVars == <<lb, fip, clusterSG, rules, workers, portSGs>>

Pending == {"PENDING_CREATE", "PENDING_UPDATE", "PENDING_DELETE"}
LBStatus == {"unused", "ACTIVE", "ERROR", "gone"} \cup Pending
Group == {"cluster", "operator"}
NoPort == 0

CloudTypeOK ==
  /\ lb \in [LBId -> [svc: Service \cup {NoSvc}, status: LBStatus,
                      todo: 0..SyncWork]]
  /\ fip \in [FipId -> [svc: Service \cup {NoSvc},
                        state: {"unused", "allocated", "gone"},
                        port: LBId \cup {NoPort}]]
  /\ clusterSG \in BOOLEAN
  /\ rules \subseteq Group \X Service
  /\ workers \in BOOLEAN
  /\ portSGs \subseteq {"default", "cluster"}

\* An empty project whose workers, if any, carry the project default group.
CloudInit ==
  /\ lb = [l \in LBId |-> [svc |-> NoSvc, status |-> "unused", todo |-> 0]]
  /\ fip = [f \in FipId |-> [svc |-> NoSvc, state |-> "unused", port |-> NoPort]]
  /\ clusterSG = FALSE
  /\ rules = {}
  /\ workers \in BOOLEAN
  /\ portSGs = IF workers THEN {"default"} ELSE {}

-----------------------------------------------------------------------------
(***************************************************************************)
(* Queries.                                                                *)
(***************************************************************************)
LiveLB(l) == lb[l].status \notin {"unused", "gone"}

\* findLBByName: the load balancers a list filtered by the Service's name
\* returns (Octavia does not make names unique).
LBsNamed(s) == {l \in LBId : LiveLB(l) /\ lb[l].svc = s}

\* findFIPByPortID on the VIP port of l.
FipsOn(l) == {f \in FipId : fip[f].state = "allocated" /\ fip[f].port = l}

FipsTagged(s) == {f \in FipId : fip[f].state = "allocated" /\ fip[f].svc = s}

\* The next id the cloud hands out.
FreshLB(l) ==
  /\ lb[l].status = "unused"
  /\ \A m \in LBId : lb[m].status = "unused" => l <= m
FreshFip(f) ==
  /\ fip[f].state = "unused"
  /\ \A g \in FipId : fip[g].state = "unused" => f <= g

(***************************************************************************)
(* What Octavia and Neutron do with one call of the controller.  Each      *)
(* operator says what the call changes of its own variable.                *)
(***************************************************************************)
CreateLB(l, s) ==
  lb' = [lb EXCEPT ![l] = [svc |-> s, status |-> "PENDING_CREATE",
                           todo |-> SyncWork]]

\* A delete is accepted in ACTIVE and ERROR, refused (409) in PENDING_*, and
\* a 404 once the load balancer is gone.
Deletable(l) == lb[l].status \in {"ACTIVE", "ERROR"}
RequestDelete(l) == lb' = [lb EXCEPT ![l].status = "PENDING_DELETE"]

CreateFip(f, s, l) ==
  fip' = [fip EXCEPT ![f] = [svc |-> s, state |-> "allocated", port |-> l]]

Released(F) ==
  [f \in FipId |-> IF f \in F THEN [fip[f] EXCEPT !.state = "gone", !.port = NoPort]
                              ELSE fip[f]]

\* Neutron refuses (409) to delete a group some port still carries.
SGInUse == "cluster" \in portSGs

-----------------------------------------------------------------------------
(***************************************************************************)
(* The cloud on its own.                                                   *)
(***************************************************************************)
\* The LB's cascade delete takes the VIP port with it; a floating IP still
\* bound to that port stays allocated and bound to nothing.
Stranded(l) ==
  [f \in FipId |-> IF fip[f].port = l THEN [fip[f] EXCEPT !.port = NoPort]
                                      ELSE fip[f]]

\* Octavia finishes the operation in progress.
Settle(l) ==
  /\ lb[l].status \in Pending
  /\ IF lb[l].status = "PENDING_DELETE"
       THEN /\ lb' = [lb EXCEPT ![l].status = "gone"]
            /\ fip' = Stranded(l)
       ELSE /\ lb' = [lb EXCEPT ![l].status = "ACTIVE"]
            /\ UNCHANGED fip
  /\ UNCHANGED <<clusterSG, rules, workers, portSGs>>

\* ... or fails it.
SettleError(l) ==
  /\ lb[l].status \in Pending
  /\ lb' = [lb EXCEPT ![l].status = "ERROR"]
  /\ UNCHANGED <<fip, clusterSG, rules, workers, portSGs>>

\* The desired members or listeners of these load balancers have changed.
Outdated(L) ==
  [l \in LBId |-> IF l \in L THEN [lb[l] EXCEPT !.todo = SyncWork] ELSE lb[l]]

\* CAPO boots or removes the workers; every pool's member list changes.
ScaleWorkers ==
  /\ workers' = ~workers
  /\ portSGs' = IF workers' THEN {"default"} ELSE {}
  /\ lb' = Outdated({l \in LBId : LiveLB(l)})
  /\ UNCHANGED <<fip, clusterSG, rules>>
=============================================================================
