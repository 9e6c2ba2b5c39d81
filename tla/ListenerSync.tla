----------------------------- MODULE ListenerSync -----------------------------
(***************************************************************************)
(* The part of a reconcile that ServiceReconciler abstracts to a number of *)
(* mutations: SyncListenersAndMembers (loadbalancer.go) and the rule diff  *)
(* of EnsureNodePortRules (securitygroup.go) for one Service, against      *)
(* Octavia and Neutron, call by call, while ports, workers and allowed     *)
(* CIDRs change.  A port stands for its (number, protocol) pair, which     *)
(* names its listener; a listener has at most one pool.                    *)
(***************************************************************************)
EXTENDS Naturals, Functions

CONSTANTS
  Port,
  NodePort,  \* (NodePort, protocol) pairs; 0 is one not allocated yet
  Worker,    \* Neutron ports of the workers
  Cidr,
  MaxOps     \* bound: edits of ports, workers and allowed CIDRs

ASSUME ListenerAssumption ==
  /\ NodePort \subseteq Nat \ {0}
  /\ MaxOps \in Nat

VARIABLES
  spec,       \* spec.ports: the NodePort of every port
  ips,        \* the workers
  allowed,    \* allowedCIDRs of the tenant's configuration
  ops,        \* edits so far
  status,     \* provisioning_status of the load balancer
  listeners,  \* ports with a listener
  pools,      \* ports whose listener has a pool
  members,    \* members of every port's pool
  rules,      \* NodePort rules of this Service in its group
  up,         \* do the OpenStack APIs answer every call?
  conflict,   \* has a mutation been refused with 409?
  pc,         \* the reconcile's next call
  seenSpec,   \* spec.ports as read by the reconcile
  seenIPs,    \* its worker list
  seenCidrs,  \* its configuration's CIDRs
  found,      \* its list of listeners
  left,       \* ports its loop has still to visit
  owned       \* its view of the Service's rules

inputVars == <<spec, ips, allowed, ops>>
octaviaVars == <<up, status, listeners, pools, members, conflict>>
passVars == <<pc, seenSpec, seenIPs, seenCidrs, found, left, owned>>
vars == <<inputVars, octaviaVars, rules, passVars>>

\* The apiserver gives no two ports the same NodePort and protocol.
Specs ==
  {s \in UNION {[S -> NodePort \cup {0}] : S \in SUBSET Port} :
     \A p, q \in DOMAIN s : p # q => s[p] # s[q] \/ s[p] = 0}
Member == Worker \X NodePort
Rule == NodePort \X Cidr

\* Octavia keeps its parts together: no pool without listener, no members
\* without pool.
TypeOK ==
  /\ spec \in Specs /\ ips \subseteq Worker /\ allowed \subseteq Cidr /\ ops \in 0..MaxOps
  /\ status \in {"ACTIVE", "PENDING_UPDATE"} /\ conflict \in BOOLEAN /\ up \in BOOLEAN
  /\ listeners \subseteq Port /\ pools \subseteq listeners
  /\ members \in [Port -> SUBSET Member]
  /\ \A p \in Port \ pools : members[p] = {}
  /\ rules \subseteq Rule /\ owned \subseteq Rule
  /\ pc \in {"idle", "workers", "list", "ports", "listRules", "rules"}
  /\ seenSpec \in Specs /\ seenIPs \subseteq Worker /\ seenCidrs \subseteq Cidr
  /\ found \subseteq Port /\ left \subseteq Port

\* A load balancer just created, and no rule yet.
Init ==
  /\ spec \in Specs /\ DOMAIN spec = Port /\ 0 \notin Range(spec) /\ ips = Worker /\ allowed = Cidr /\ ops = 0
  /\ up = TRUE /\ status = "ACTIVE" /\ listeners = {} /\ pools = {} /\ conflict = FALSE
  /\ members = [p \in Port |-> {}] /\ rules = {}
  /\ pc = "idle" /\ seenSpec = spec /\ seenIPs = ips /\ seenCidrs = allowed
  /\ found = {} /\ left = {} /\ owned = {}

-----------------------------------------------------------------------------
(***************************************************************************)
(* The environment.                                                        *)
(***************************************************************************)
Edit == ops < MaxOps /\ ops' = ops + 1
              /\ UNCHANGED <<octaviaVars, rules, passVars>>

EditPorts ==
  /\ Edit
  /\ \E s \in Specs \ {spec} : spec' = s
  /\ UNCHANGED <<ips, allowed>>

ScaleWorkers ==
  /\ Edit
  /\ \E w \in SUBSET Worker \ {ips} : ips' = w
  /\ UNCHANGED <<spec, allowed>>

\* Resolve never yields an empty list.
EditCidrs ==
  /\ Edit
  /\ \E c \in SUBSET Cidr \ {{}, allowed} : allowed' = c
  /\ UNCHANGED <<spec, ips>>

Settle ==
  /\ status = "PENDING_UPDATE"
  /\ status' = "ACTIVE"
  /\ UNCHANGED <<inputVars, up, listeners, pools, members, conflict, rules, passVars>>

Outage ==
  /\ up' = ~up
  /\ UNCHANGED <<inputVars, status, listeners, pools, members, conflict, rules, passVars>>

-----------------------------------------------------------------------------
\* During an outage any call may fail; the next reconcile starts over.
Fail ==
  /\ ~up
  /\ pc # "idle"
  /\ pc' = "idle"
  /\ UNCHANGED <<inputVars, octaviaVars, rules, seenSpec, seenIPs, seenCidrs,
                 found, left, owned>>

\* The reconcile reads the Service and the configuration, and EnsureLB the
\* status; while Octavia is busy it yields.
Begin ==
  /\ pc = "idle"
  /\ status = "ACTIVE"
  /\ pc' = "workers"
  /\ seenSpec' = spec /\ seenCidrs' = allowed
  /\ UNCHANGED <<inputVars, octaviaVars, rules, seenIPs, found, left, owned>>

ListWorkerIPsOnNetwork ==
  /\ pc = "workers"
  /\ pc' = "list"
  /\ seenIPs' = ips
  /\ UNCHANGED <<inputVars, octaviaVars, rules, seenSpec, seenCidrs, found, left,
                 owned>>

\* A port without NodePort is an error before anything is read or written.
ListListenersForLB ==
  /\ pc = "list"
  /\ \/ /\ 0 \in Range(seenSpec)
        /\ pc' = "idle"
        /\ UNCHANGED <<found, left>>
     \/ /\ 0 \notin Range(seenSpec)
        /\ pc' = "ports"
        /\ found' = listeners /\ left' = DOMAIN seenSpec
  /\ UNCHANGED <<inputVars, octaviaVars, rules, seenSpec, seenIPs, seenCidrs, owned>>

\* What a call that changes the load balancer does to Octavia: accepted when
\* ACTIVE, and then the load balancer is busy; refused with 409 otherwise.
Mutation(ls, ps, ms) ==
  IF status = "ACTIVE"
    THEN /\ listeners' = ls /\ pools' = ps /\ members' = ms
         /\ status' = "PENDING_UPDATE"
         /\ UNCHANGED <<up, conflict>>
    ELSE conflict' = TRUE /\ UNCHANGED <<up, status, listeners, pools, members>>

\* One mutation and the reconcile yields.
Yield == pc' = "idle" /\ UNCHANGED left

Wanted(p) == seenIPs \X {seenSpec[p]}

CreateListener(p) ==
  /\ p \notin found
  /\ Mutation(listeners \cup {p}, pools, members)
  /\ Yield

EnsurePool(p) ==
  /\ p \in found /\ p \notin pools
  /\ Mutation(listeners, pools \cup {p}, members)
  /\ Yield

\* Mutant: only the members' addresses are compared.
DriftByAddress(p) ==
  {m[1] : m \in members[p]} # seenIPs

\* syncMembers' drift check: another set of IPs or another NodePort.
Drift(p) == members[p] # Wanted(p)

\* Mutant: the members of a pool are added and removed one by one.
SyncMembersOneByOne(p) ==
  /\ p \in found \cap pools
  /\ \/ /\ Drift(p)
        /\ \E m \in (members[p] \cup Wanted(p)) \ (members[p] \cap Wanted(p)) :
             Mutation(listeners, pools, [members EXCEPT ![p] =
               IF m \in members[p] THEN members[p] \ {m} ELSE members[p] \cup {m}])
        /\ Yield
     \/ /\ ~Drift(p)
        /\ left' = left \ {p}
        /\ UNCHANGED <<octaviaVars, pc>>

\* Mutant: the next port is visited without yielding.
SyncMembersWithoutYield(p) ==
  /\ p \in found \cap pools
  /\ IF Drift(p) THEN Mutation(listeners, pools, [members EXCEPT ![p] = Wanted(p)])
                 ELSE UNCHANGED octaviaVars
  /\ left' = left \ {p}
  /\ UNCHANGED pc

\* BatchUpdateMembers replaces the whole set in one call.
SyncMembers(p) ==
  /\ p \in found \cap pools
  /\ \/ /\ Drift(p)
        /\ Mutation(listeners, pools, [members EXCEPT ![p] = Wanted(p)])
        /\ Yield
     \/ /\ ~Drift(p)
        /\ left' = left \ {p}
        /\ UNCHANGED <<octaviaVars, pc>>

\* One turn of the loop over the desired ports.
VisitPort ==
  /\ pc = "ports"
  /\ \E p \in left : CreateListener(p) \/ EnsurePool(p) \/ SyncMembers(p)
  /\ UNCHANGED <<inputVars, rules, seenSpec, seenIPs, seenCidrs, found, owned>>

\* Mutant: the pool is left behind.
DeleteListenerOnly(p) ==
  Mutation(listeners \ {p}, pools, members)

\* Deleting a listener drops its pool and members.
DeleteListener(p) ==
  Mutation(listeners \ {p}, pools \ {p}, [members EXCEPT ![p] = {}])

\* Mutant: listeners are only ever added.
KeepStale ==
  /\ pc = "ports"
  /\ left = {}
  /\ pc' = "listRules"
  /\ UNCHANGED <<octaviaVars, left>>
  /\ UNCHANGED <<inputVars, rules, seenSpec, seenIPs, seenCidrs, found, owned>>

\* After the loop one stale listener is deleted, if there is one; otherwise
\* the sync has nothing left to do.
DropStale ==
  /\ pc = "ports"
  /\ left = {}
  /\ \/ \E p \in found \ DOMAIN seenSpec : DeleteListener(p) /\ Yield
     \/ /\ found \subseteq DOMAIN seenSpec
        /\ pc' = "listRules"
        /\ UNCHANGED <<octaviaVars, left>>
  /\ UNCHANGED <<inputVars, rules, seenSpec, seenIPs, seenCidrs, found, owned>>

-----------------------------------------------------------------------------
(***************************************************************************)
(* EnsureNodePortRules: list, drop what is stale, create what is missing.  *)
(***************************************************************************)
ListOwnedRules ==
  /\ pc = "listRules"
  /\ pc' = "rules"
  /\ owned' = rules
  /\ UNCHANGED <<inputVars, octaviaVars, rules, seenSpec, seenIPs, seenCidrs, found,
                 left>>

\* buildDesiredRules.
DesiredRules == Range(seenSpec) \X seenCidrs

DeleteRule ==
  /\ pc = "rules"
  /\ \E r \in owned \ DesiredRules : rules' = rules \ {r} /\ owned' = owned \ {r}
  /\ UNCHANGED <<inputVars, octaviaVars, pc, seenSpec, seenIPs, seenCidrs, found,
                 left>>

CreateRule ==
  /\ pc = "rules"
  /\ owned \subseteq DesiredRules
  /\ \E r \in DesiredRules \ owned : rules' = rules \cup {r} /\ owned' = owned \cup {r}
  /\ UNCHANGED <<inputVars, octaviaVars, pc, seenSpec, seenIPs, seenCidrs, found,
                 left>>

\* The status is patched.
Publish ==
  /\ pc = "rules"
  /\ owned = DesiredRules
  /\ pc' = "idle"
  /\ UNCHANGED <<inputVars, octaviaVars, rules, seenSpec, seenIPs, seenCidrs, found,
                 left, owned>>

-----------------------------------------------------------------------------
ReconcileStep ==
  \/ Begin \/ ListWorkerIPsOnNetwork \/ ListListenersForLB \/ VisitPort \/ DropStale
  \/ ListOwnedRules \/ DeleteRule \/ CreateRule \/ Publish

Next == ReconcileStep \/ Fail \/ Settle \/ Outage \/ EditPorts \/ ScaleWorkers \/ EditCidrs

Spec == Init /\ [][Next]_vars

\* The worker takes its next step, Octavia settles, and outages end.
FairSpec ==
  /\ Spec
  /\ WF_vars(ReconcileStep)
  /\ WF_vars(Settle)
  /\ <>[]up

-----------------------------------------------------------------------------
\* What serves a port.
Routes == [p \in Port |-> members[p]]

\* The sync implements BackendSync: listeners, pools, the busy load balancer
\* and the loop over the ports hide behind whole-set updates per port.
Backend == INSTANCE BackendSync WITH routes <- Routes
ImplementsBackendSync == Backend!Spec

\* SyncListenersAndMembers' one-mutation-per-call rule avoids "the 409
\* cascade": no mutation is sent while the last one is still in progress.
NoConflict == ~conflict

Served == \A p \in Port : members[p] = Backend!Backends(spec, ips, p)
Opened == rules = Range(spec) \X allowed

\* A reconcile that publishes leaves a working data path: if its inputs did
\* not change meanwhile, every port has exactly its backends, no other port
\* is open, and the rules admit exactly the allowed CIDRs to them.
PublishMeansServed ==
  [][Publish /\ seenSpec = spec /\ seenIPs = ips /\ seenCidrs = allowed
       => Served /\ Opened /\ listeners = DOMAIN spec]_vars

\* Whatever is edited while a sync is under way, listeners, members and rules
\* end up as the last valid spec, workers and CIDRs ask.
Converges ==
  <>[](0 \notin Range(spec)) => <>[](Served /\ Opened /\ listeners = DOMAIN spec)
=============================================================================
