-------------------------- MODULE ListenerSyncProofs --------------------------
(***************************************************************************)
(* Proofs about ListenerSync, for every set of ports, NodePorts, workers   *)
(* and CIDRs: its state is well typed, no mutation is ever refused with    *)
(* 409, a reconcile that publishes leaves a working data path, and the     *)
(* sync implements BackendSync.                                            *)
(*                                                                         *)
(* They rest on what a pass knows.  Octavia is ACTIVE from the read of its *)
(* status until the pass's one mutation, which ends it; so everything the  *)
(* pass has read of the load balancer is still true when it is used, and a *)
(* port it has left behind is served.                                      *)
(***************************************************************************)
EXTENDS ListenerSync, TLAPS

\* Octavia is not busy while a pass is under way, and never refused a call.
PassFindsActive == ~conflict /\ (pc # "idle" => status = "ACTIVE")

\* From the listing of the listeners on: every port has a NodePort, the list
\* is the truth, and the ports the loop has left behind are served.
VisitedAreServed ==
  pc \in {"ports", "listRules", "rules"} =>
    /\ 0 \notin Range(seenSpec)
    /\ found = listeners
    /\ left \subseteq DOMAIN seenSpec
    /\ \A p \in DOMAIN seenSpec \ left : p \in pools /\ members[p] = Wanted(p)

\* After the loop and the deletion of stale listeners.
SyncIsComplete ==
  pc \in {"listRules", "rules"} => left = {} /\ listeners \subseteq DOMAIN seenSpec

\* The pass's view of the Service's rules is the truth.
RulesAreKnown == pc = "rules" => owned = rules

IInv == TypeOK /\ PassFindsActive /\ VisitedAreServed /\ SyncIsComplete /\ RulesAreKnown

-----------------------------------------------------------------------------
(***************************************************************************)
(* Lemmas about the operators.                                             *)
(***************************************************************************)
\* What the apiserver admits as spec.ports.
LEMMA SpecTypes ==
  ASSUME NEW s \in Specs
  PROVE  /\ DOMAIN s \subseteq Port
         /\ \A p \in DOMAIN s : s[p] \in NodePort \cup {0}
<1>1. PICK S \in SUBSET Port : s \in [S -> NodePort \cup {0}]
  BY DEF Specs
<1> QED
  BY <1>1

\* What the sync wants, from a spec all of whose ports have a NodePort.
LEMMA WantedTypes ==
  ASSUME seenSpec \in Specs, 0 \notin Range(seenSpec), seenIPs \subseteq Worker,
         seenCidrs \subseteq Cidr
  PROVE  /\ \A p \in DOMAIN seenSpec : Wanted(p) \subseteq Member
         /\ DesiredRules \subseteq Rule
<1>1. \A p \in DOMAIN seenSpec : seenSpec[p] \in NodePort
  BY SpecTypes DEF Range
<1>2. Range(seenSpec) \subseteq NodePort
  BY <1>1 DEF Range
<1> QED
  BY <1>1, <1>2 DEF Wanted, Member, DesiredRules, Rule

\* A pass's mutation is accepted: it finds the load balancer ACTIVE.
LEMMA MutationIsAccepted ==
  ASSUME PassFindsActive, pc # "idle", NEW ls, NEW ps, NEW ms, Mutation(ls, ps, ms)
  PROVE  /\ listeners' = ls /\ pools' = ps /\ members' = ms
         /\ status' = "PENDING_UPDATE" /\ UNCHANGED <<up, conflict>>
BY DEF PassFindsActive, Mutation

\* A mutation that keeps Octavia's parts together, after which the pass
\* yields, preserves the invariant: nothing is known of the load balancer any
\* more, and the next pass does not start before it has settled.
LEMMA InvYield ==
  ASSUME IInv, pc # "idle",
         NEW ls \in SUBSET Port, NEW ps \in SUBSET ls, NEW ms \in [Port -> SUBSET Member],
         \A p \in Port \ ps : ms[p] = {},
         Mutation(ls, ps, ms), Yield,
         UNCHANGED <<inputVars, rules, seenSpec, seenIPs, seenCidrs, found, owned>>
  PROVE  IInv'
<1>1. /\ listeners' = ls /\ pools' = ps /\ members' = ms
      /\ status' = "PENDING_UPDATE" /\ UNCHANGED <<up, conflict>>
  BY MutationIsAccepted DEF IInv
<1>2. pc' = "idle" /\ UNCHANGED left
  BY DEF Yield
<1>3. TypeOK'
  BY <1>1, <1>2 DEF IInv, TypeOK, inputVars
<1>4. (PassFindsActive /\ VisitedAreServed /\ SyncIsComplete /\ RulesAreKnown)'
  BY <1>1, <1>2
  DEF IInv, PassFindsActive, VisitedAreServed, SyncIsComplete, RulesAreKnown
<1> QED
  BY <1>3, <1>4 DEF IInv

\* When no pass is under way, or one has just ended, only the ranges count.
LEMMA InvIdle ==
  ASSUME TypeOK', ~conflict', pc' = "idle"
  PROVE  IInv'
BY DEF IInv, PassFindsActive, VisitedAreServed, SyncIsComplete, RulesAreKnown

-----------------------------------------------------------------------------
\* A reconciler that has not begun a pass satisfies the invariant.
LEMMA InvInit == Init => IInv
<1> SUFFICES ASSUME Init PROVE IInv
  OBVIOUS
<1>1. members \in [Port -> SUBSET Member] /\ \A p \in Port : members[p] = {}
  BY DEF Init
<1>2. 0 \in 0..MaxOps
  BY ListenerAssumption
<1>3. TypeOK
  BY <1>1, <1>2 DEF Init, TypeOK
<1> QED
  BY <1>3 DEF Init, IInv, PassFindsActive, VisitedAreServed, SyncIsComplete, RulesAreKnown

\* Edits, and what Octavia does by itself, leave what a pass knows alone.
LEMMA InvEnv ==
  ASSUME IInv, EditPorts \/ ScaleWorkers \/ EditCidrs \/ Settle \/ Outage
  PROVE  IInv'
<1>1. UNCHANGED <<listeners, pools, members, conflict, rules, passVars>>
  BY DEF EditPorts, ScaleWorkers, EditCidrs, Edit, Settle, Outage, octaviaVars
<1>2. status' \in {status, "ACTIVE"} /\ up' \in BOOLEAN
  BY DEF EditPorts, ScaleWorkers, EditCidrs, Edit, Settle, Outage, octaviaVars, IInv, TypeOK
<1>3. spec' \in Specs /\ ips' \subseteq Worker /\ allowed' \subseteq Cidr /\ ops' \in 0..MaxOps
  BY ListenerAssumption
  DEF EditPorts, ScaleWorkers, EditCidrs, Edit, Settle, Outage, inputVars, IInv, TypeOK
<1>4. TypeOK'
  BY <1>1, <1>2, <1>3 DEF IInv, TypeOK, passVars
<1>5. (PassFindsActive /\ VisitedAreServed /\ SyncIsComplete /\ RulesAreKnown)'
  BY <1>1, <1>2 DEF IInv, PassFindsActive, VisitedAreServed, SyncIsComplete,
                    RulesAreKnown, passVars, Wanted
<1> QED
  BY <1>4, <1>5 DEF IInv

\* One turn of the loop over the ports.
LEMMA InvVisitPort ==
  ASSUME IInv, VisitPort
  PROVE  IInv'
<1> USE DEF IInv
<1>1. PICK p \in left : CreateListener(p) \/ EnsurePool(p) \/ SyncMembers(p)
  BY DEF VisitPort
<1>2. /\ pc = "ports" /\ found = listeners /\ 0 \notin Range(seenSpec)
      /\ p \in DOMAIN seenSpec /\ p \in Port
  BY <1>1, SpecTypes DEF VisitPort, VisitedAreServed, TypeOK
<1>3. UNCHANGED <<inputVars, rules, seenSpec, seenIPs, seenCidrs, found, owned>>
  BY DEF VisitPort
<1>4. CASE CreateListener(p)
  <2>1. /\ listeners \cup {p} \in SUBSET Port /\ pools \in SUBSET (listeners \cup {p})
        /\ members \in [Port -> SUBSET Member] /\ \A q \in Port \ pools : members[q] = {}
    BY <1>2 DEF TypeOK
  <2> QED
    BY <1>2, <1>3, <1>4, <2>1, InvYield DEF CreateListener
<1>5. CASE EnsurePool(p)
  <2>1. /\ listeners \in SUBSET Port /\ pools \cup {p} \in SUBSET listeners
        /\ members \in [Port -> SUBSET Member]
        /\ \A q \in Port \ (pools \cup {p}) : members[q] = {}
    BY <1>2, <1>5 DEF TypeOK, EnsurePool
  <2> QED
    BY <1>2, <1>3, <1>5, <2>1, InvYield DEF EnsurePool
<1>6. CASE SyncMembers(p)
  <2>1. CASE Mutation(listeners, pools, [members EXCEPT ![p] = Wanted(p)]) /\ Yield
    <3> DEFINE ms == [members EXCEPT ![p] = Wanted(p)]
    <3>1. Wanted(p) \subseteq Member
      BY <1>2, WantedTypes DEF TypeOK
    <3>2. /\ listeners \in SUBSET Port /\ pools \in SUBSET listeners
          /\ ms \in [Port -> SUBSET Member]
      BY <3>1 DEF TypeOK
    <3>3. \A q \in Port \ pools : ms[q] = {}
      BY <1>6 DEF TypeOK, SyncMembers
    <3> HIDE DEF ms
    <3>4. Mutation(listeners, pools, ms) /\ Yield
      BY <2>1 DEF ms
    <3> QED
      BY <1>2, <1>3, <3>2, <3>3, <3>4, InvYield
  <2>2. CASE ~Drift(p) /\ left' = left \ {p} /\ UNCHANGED <<octaviaVars, pc>>
    <3>1. TypeOK'
      BY <1>3, <2>2 DEF TypeOK, inputVars, octaviaVars
    <3>2. PassFindsActive' /\ SyncIsComplete' /\ RulesAreKnown'
      BY <1>2, <2>2 DEF PassFindsActive, SyncIsComplete, RulesAreKnown, octaviaVars
    <3>3. VisitedAreServed'
      BY <1>2, <1>3, <1>6, <2>2
      DEF VisitedAreServed, SyncMembers, Drift, Wanted, octaviaVars
    <3> QED
      BY <3>1, <3>2, <3>3
  <2> QED
    BY <1>6, <2>1, <2>2 DEF SyncMembers
<1> QED
  BY <1>1, <1>4, <1>5, <1>6

\* The end of the loop.
LEMMA InvDropStale ==
  ASSUME IInv, DropStale
  PROVE  IInv'
<1> USE DEF IInv
<1>1. /\ pc = "ports" /\ left = {} /\ found = listeners
      /\ UNCHANGED <<inputVars, rules, seenSpec, seenIPs, seenCidrs, found, owned>>
  BY DEF DropStale, VisitedAreServed
<1>2. ASSUME NEW p \in found \ DOMAIN seenSpec, DeleteListener(p), Yield
      PROVE  IInv'
  <2> DEFINE ms == [members EXCEPT ![p] = {}]
  <2>1. /\ listeners \ {p} \in SUBSET Port /\ pools \ {p} \in SUBSET (listeners \ {p})
        /\ ms \in [Port -> SUBSET Member] /\ \A q \in Port \ (pools \ {p}) : ms[q] = {}
    BY DEF TypeOK
  <2>2. Mutation(listeners \ {p}, pools \ {p}, ms)
    BY <1>2 DEF DeleteListener
  <2> HIDE DEF ms
  <2> QED
    BY <1>1, <1>2, <2>1, <2>2, InvYield
<1>3. CASE found \subseteq DOMAIN seenSpec /\ pc' = "listRules" /\ UNCHANGED <<octaviaVars, left>>
  <2>1. TypeOK'
    BY <1>1, <1>3 DEF TypeOK, inputVars, octaviaVars
  <2>2. PassFindsActive' /\ SyncIsComplete' /\ RulesAreKnown'
    BY <1>1, <1>3 DEF PassFindsActive, SyncIsComplete, RulesAreKnown, octaviaVars
  <2>3. VisitedAreServed'
    BY <1>1, <1>3 DEF VisitedAreServed, Wanted, octaviaVars
  <2> QED
    BY <2>1, <2>2, <2>3
<1> QED
  BY <1>2, <1>3 DEF DropStale

\* The reads of a pass, EnsureNodePortRules, and the passes that end.
LEMMA InvOtherCalls ==
  ASSUME IInv,
         \/ Fail \/ Begin \/ ListWorkerIPsOnNetwork \/ ListListenersForLB
         \/ ListOwnedRules \/ DeleteRule \/ CreateRule \/ Publish
  PROVE  IInv'
<1> USE DEF IInv
<1>1. CASE Fail \/ Publish
  <2>1. /\ pc' = "idle"
        /\ UNCHANGED <<inputVars, octaviaVars, rules, seenSpec, seenIPs, seenCidrs, found,
                       left, owned>>
    BY <1>1 DEF Fail, Publish
  <2>2. TypeOK'
    BY <2>1 DEF TypeOK, inputVars, octaviaVars
  <2> QED
    BY <2>1, <2>2, InvIdle DEF PassFindsActive, octaviaVars
<1>2. CASE Begin
  <2>1. TypeOK'
    BY <1>2 DEF Begin, TypeOK, inputVars, octaviaVars
  <2> QED
    BY <1>2, <2>1 DEF Begin, PassFindsActive, VisitedAreServed, SyncIsComplete,
                      RulesAreKnown, octaviaVars
<1>3. CASE ListWorkerIPsOnNetwork
  <2>1. TypeOK'
    BY <1>3 DEF ListWorkerIPsOnNetwork, TypeOK, inputVars, octaviaVars
  <2> QED
    BY <1>3, <2>1 DEF ListWorkerIPsOnNetwork, PassFindsActive, VisitedAreServed,
                      SyncIsComplete, RulesAreKnown, octaviaVars
<1>4. CASE ListListenersForLB
  <2>1. /\ pc = "list" /\ pc' \in {"idle", "ports"}
        /\ UNCHANGED <<inputVars, octaviaVars, rules, seenSpec, seenIPs, seenCidrs, owned>>
        /\ \/ UNCHANGED <<found, left>>
           \/ found' = listeners /\ left' = DOMAIN seenSpec
        /\ pc' = "ports" => /\ 0 \notin Range(seenSpec)
                            /\ found' = listeners /\ left' = DOMAIN seenSpec
    BY <1>4 DEF ListListenersForLB
  <2>2. DOMAIN seenSpec \subseteq Port
    BY SpecTypes DEF TypeOK
  <2>3. TypeOK'
    BY <2>1, <2>2 DEF TypeOK, inputVars, octaviaVars
  <2>4. PassFindsActive' /\ SyncIsComplete' /\ RulesAreKnown'
    BY <2>1 DEF PassFindsActive, SyncIsComplete, RulesAreKnown, octaviaVars
  <2>5. VisitedAreServed'
    BY <2>1 DEF VisitedAreServed, octaviaVars
  <2> QED
    BY <2>3, <2>4, <2>5
<1>5. CASE ListOwnedRules
  <2>1. TypeOK'
    BY <1>5 DEF ListOwnedRules, TypeOK, inputVars, octaviaVars
  <2>2. VisitedAreServed'
    BY <1>5 DEF ListOwnedRules, VisitedAreServed, Wanted, octaviaVars
  <2> QED
    BY <1>5, <2>1, <2>2
    DEF ListOwnedRules, PassFindsActive, SyncIsComplete, RulesAreKnown, octaviaVars
<1>6. CASE DeleteRule \/ CreateRule
  <2>1. /\ pc = "rules"
        /\ UNCHANGED <<inputVars, octaviaVars, pc, seenSpec, seenIPs, seenCidrs, found, left>>
    BY <1>6 DEF DeleteRule, CreateRule
  <2>2. rules' = owned' /\ rules' \subseteq Rule
    <3>1. DesiredRules \subseteq Rule
      BY <2>1, WantedTypes DEF VisitedAreServed, TypeOK
    <3> QED
      BY <1>6, <3>1 DEF DeleteRule, CreateRule, RulesAreKnown, TypeOK
  <2>3. TypeOK'
    BY <2>1, <2>2 DEF TypeOK, inputVars, octaviaVars
  <2>4. VisitedAreServed'
    BY <2>1 DEF VisitedAreServed, Wanted, octaviaVars
  <2> QED
    BY <2>1, <2>2, <2>3, <2>4 DEF PassFindsActive, SyncIsComplete, RulesAreKnown, octaviaVars
<1> QED
  BY <1>1, <1>2, <1>3, <1>4, <1>5, <1>6

\* Every step preserves the invariant.
LEMMA InvNext == IInv /\ [Next]_vars => IInv'
<1> SUFFICES ASSUME IInv, [Next]_vars PROVE IInv'
  OBVIOUS
<1>1. CASE UNCHANGED vars
  BY <1>1 DEF vars, inputVars, octaviaVars, passVars, IInv, TypeOK, PassFindsActive,
              VisitedAreServed, SyncIsComplete, RulesAreKnown, Wanted
<1> QED
  BY <1>1, InvEnv, InvVisitPort, InvDropStale, InvOtherCalls DEF Next, ReconcileStep

-----------------------------------------------------------------------------
\* The invariant holds throughout.
LEMMA PassInvariant == Spec => []IInv
BY InvInit, InvNext, PTL DEF Spec

\* Every variable stays in its range, and Octavia's parts stay together: no
\* pool without listener and no members without pool.
THEOREM TypeCorrect == Spec => []TypeOK
<1>1. IInv => TypeOK
  BY DEF IInv
<1> QED
  BY <1>1, PassInvariant, PTL

\* SyncListenersAndMembers' one mutation per pass avoids the 409 cascade,
\* whatever is edited and whichever calls fail meanwhile.
THEOREM NeverRefused == Spec => []NoConflict
<1>1. IInv => NoConflict
  BY DEF IInv, PassFindsActive, NoConflict
<1> QED
  BY <1>1, PassInvariant, PTL

\* A reconcile whose inputs did not change publishes only a data path that is
\* complete: backends, listeners and rules are exactly what they ask for.
THEOREM PublishedIsServed == Spec => PublishMeansServed
<1> DEFINE Good == Publish /\ seenSpec = spec /\ seenIPs = ips /\ seenCidrs = allowed
                     => Served /\ Opened /\ listeners = DOMAIN spec
<1>1. IInv => Good
  <2> SUFFICES ASSUME IInv, Publish, seenSpec = spec, seenIPs = ips, seenCidrs = allowed
               PROVE  Served /\ Opened /\ listeners = DOMAIN spec
    OBVIOUS
  <2>1. /\ pc = "rules" /\ owned = DesiredRules /\ owned = rules
        /\ left = {} /\ listeners \subseteq DOMAIN spec
    BY DEF Publish, IInv, RulesAreKnown, SyncIsComplete
  <2>2. \A p \in DOMAIN spec : p \in pools /\ members[p] = ips \X {spec[p]}
    BY <2>1 DEF IInv, VisitedAreServed, Wanted
  <2>3. listeners = DOMAIN spec
    BY <2>1, <2>2 DEF IInv, TypeOK
  <2>4. \A p \in Port \ DOMAIN spec : members[p] = {}
    BY <2>1 DEF IInv, TypeOK
  <2>5. Served
    BY <2>2, <2>4 DEF Served, Backend!Backends
  <2>6. Opened
    BY <2>1 DEF Opened, DesiredRules
  <2> QED
    BY <2>3, <2>5, <2>6
<1> QED
  BY <1>1, PassInvariant, PTL DEF PublishMeansServed

\* The sync implements BackendSync: a port is always served by a complete set
\* of backends, never by a mixture of old and new workers or NodePorts.
THEOREM Implementation == Spec => ImplementsBackendSync
<1>1. Init => Backend!Init
  BY DEF Init, Backend!Init, Routes
<1>2. IInv /\ [Next]_vars => [Backend!Next]_(Backend!vars)
  <2> SUFFICES ASSUME IInv, [Next]_vars
               PROVE  Backend!Next \/ UNCHANGED <<spec, ips, seenSpec, seenIPs, Routes>>
    BY DEF Backend!vars
  <2>1. ASSUME NEW p \in Port,
               members' = [members EXCEPT ![p] = Backend!Backends(seenSpec, seenIPs, p)],
               UNCHANGED <<spec, ips, seenSpec, seenIPs>>
        PROVE  Backend!Next
    <3>1. Routes' = [Routes EXCEPT ![p] = Backend!Backends(seenSpec, seenIPs, p)]
      BY <2>1 DEF Routes, IInv, TypeOK
    <3> QED
      BY <2>1, <3>1 DEF Backend!Next, Backend!Apply
  <2>2. CASE EditPorts \/ ScaleWorkers
    BY <2>2 DEF EditPorts, ScaleWorkers, Edit, octaviaVars, passVars, Routes,
                Backend!Next, Backend!Change
  <2>3. CASE Begin
    BY <2>3 DEF Begin, inputVars, octaviaVars, Routes, Backend!Next, Backend!ReadSpec
  <2>4. CASE ListWorkerIPsOnNetwork
    BY <2>4 DEF ListWorkerIPsOnNetwork, inputVars, octaviaVars, Routes,
                Backend!Next, Backend!ReadIPs
  <2>5. CASE VisitPort
    <3>1. PICK p \in left : CreateListener(p) \/ EnsurePool(p) \/ SyncMembers(p)
      BY <2>5 DEF VisitPort
    <3>2. /\ pc # "idle" /\ p \in DOMAIN seenSpec /\ p \in Port
          /\ UNCHANGED <<spec, ips, seenSpec, seenIPs>>
      BY <2>5, SpecTypes DEF VisitPort, IInv, TypeOK, VisitedAreServed, inputVars
    <3>3. CASE UNCHANGED members
      BY <3>2, <3>3 DEF Routes
    <3>4. CASE members' = [members EXCEPT ![p] = Wanted(p)]
      BY <2>1, <3>2, <3>4 DEF Wanted, Backend!Backends
    <3>5. UNCHANGED members \/ members' = [members EXCEPT ![p] = Wanted(p)]
      <4>1. CASE CreateListener(p)
        BY <3>2, <4>1, MutationIsAccepted DEF CreateListener, IInv
      <4>2. CASE EnsurePool(p)
        BY <3>2, <4>2, MutationIsAccepted DEF EnsurePool, IInv
      <4>3. CASE SyncMembers(p)
        BY <3>2, <4>3, MutationIsAccepted DEF SyncMembers, IInv, octaviaVars
      <4> QED
        BY <3>1, <4>1, <4>2, <4>3
    <3> QED
      BY <3>3, <3>4, <3>5
  <2>6. CASE DropStale
    <3>1. pc # "idle" /\ UNCHANGED <<spec, ips, seenSpec, seenIPs>>
      BY <2>6 DEF DropStale, inputVars
    <3>2. ASSUME NEW p \in found \ DOMAIN seenSpec, DeleteListener(p)
          PROVE  Backend!Next
      <4>1. members' = [members EXCEPT ![p] = {}]
        BY <3>1, <3>2, MutationIsAccepted DEF DeleteListener, IInv
      <4> QED
        BY <2>1, <3>1, <4>1 DEF Backend!Backends, IInv, TypeOK
    <3>3. CASE UNCHANGED members
      BY <3>1, <3>3 DEF Routes
    <3> QED
      BY <2>6, <3>2, <3>3 DEF DropStale, octaviaVars
  <2>7. CASE \/ Fail \/ Settle \/ Outage \/ EditCidrs \/ ListListenersForLB
             \/ ListOwnedRules \/ DeleteRule \/ CreateRule \/ Publish
    BY <2>7 DEF Fail, Settle, Outage, EditCidrs, Edit, ListListenersForLB, ListOwnedRules,
                DeleteRule, CreateRule, Publish, inputVars, octaviaVars, passVars, Routes
  <2>8. CASE UNCHANGED vars
    BY <2>8 DEF vars, inputVars, octaviaVars, passVars, Routes
  <2> QED
    BY <2>2, <2>3, <2>4, <2>5, <2>6, <2>7, <2>8 DEF Next, ReconcileStep
<1> QED
  BY <1>1, <1>2, PassInvariant, PTL DEF Spec, ImplementsBackendSync, Backend!Spec
=============================================================================
