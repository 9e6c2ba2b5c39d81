------------------------ MODULE ServiceContractProofs ------------------------
(***************************************************************************)
(* What the service controller publishes and when it lets go: proofs that  *)
(* ServiceLifecycle publishes only addresses traffic can follow, that      *)
(* neither a published address nor a NodePort rule outlives the finalizer, *)
(* and that it implements ServiceContract.                                 *)
(*                                                                         *)
(* PublishInv holds whatever the informer cache shows and whatever the     *)
(* operator edits.  ReleaseInv needs what ClaimInv needs, fresh reads and  *)
(* the credentials Secret; RuleInv needs besides that the operator neither *)
(* pins nor unpins a worker security group, as the run PinnedGroup shows.  *)
(***************************************************************************)
EXTENDS ServiceSafetyProofs

AfterFip == {"sg", "attach", "detach", "rules", "publish"}
Provisioning == {"ensureLB", "sync", "fip"} \cup AfterFip

\* The addresses of load balancer l: its VIP and the floating IP bound to it.
AddressesOf(l) == {VipAddr(l)} \cup {FipAddr(f) : f \in FipsOn(l)}

\* From EnsureFloatingIP on a reconcile holds an address of the Service's own
\* load balancer, which no one deletes before it is published, ...
JobAddress ==
  pc \in AfterFip => /\ job.lb \in LBId
                     /\ lb[job.lb].svc = job.s
                     /\ lb[job.lb].status = "ACTIVE"
                     /\ job.addr \in AddressesOf(job.lb)

\* ... and when it publishes the NodePort rules it put in place are there.
JobRules == pc = "publish" => <<WorkerSG, job.s>> \in rules

PublishInv == JobAddress /\ JobRules

\* A reconcile that holds an address saw the finalizer; no ingress appeared
\* since Get that it did not see; and a live tenant's finalizer is dropped
\* when the ingress is gone.
ReleaseInv ==
  /\ pc \in AfterFip => job.snap.fin
  /\ pc # "idle" /\ svc[job.s].ingress # NoAddr => job.snap.ingress # NoAddr
  /\ pc = "dropFin" => ~TenantLive \/ svc[job.s].ingress = NoAddr
  /\ NoAddressAfterRelease

\* Whether the worker group is pinned does not change, so rules are removed
\* from the group they were added to.
GroupIsSettled ==
  /\ job.cfg.pinned => ksc.pinned
  /\ job.cfg.enabled /\ ksc.pinned => job.cfg.pinned
  /\ pc \in Provisioning => job.cfg.enabled
  /\ ksc.pinned => \A s \in Service : <<"cluster", s>> \notin rules

RuleInv ==
  /\ GroupIsSettled
  /\ pc \in {"cFip", "cLB", "cClear", "dropFin"} =>
       ~TenantLive \/ <<"cluster", job.s>> \notin rules
  /\ FinalizerGuardsClusterRules

-----------------------------------------------------------------------------
(***************************************************************************)
(* PublishInv.                                                             *)
(***************************************************************************)
\* Once it holds an address a reconcile changes neither load balancers nor
\* floating IPs, and it publishes only after EnsureNodePortRules.
LEMMA AfterFipEntries ==
  ASSUME ReconcileStep, pc' \in AfterFip
  PROVE  /\ \/ EnsureFloatingIP /\ pc' = "sg"
            \/ pc \in AfterFip /\ UNCHANGED <<lb, fip, job>>
         /\ pc' = "publish" => EnsureNodePortRules
<1> USE DEF Goto, Proceed, Return, AfterFip
<1>1. CASE (\E s \in Service : Get(s)) \/ Resolve
  BY <1>1 DEF Get, Resolve
<1>2. CASE HRDeleteGuard
  <2>1. Dispatch \in {"cRules", "idle", "ensureLB", "addFin"}
    BY DEF Dispatch
  <2> QED BY <1>2, <2>1 DEF HRDeleteGuard
<1>3. CASE WipeOperatorRules \/ AddFinalizer \/ PatchStatus
  BY <1>3 DEF WipeOperatorRules, AddFinalizer, PatchStatus
<1>4. CASE EnsureLB \/ SyncListenersAndMembers
  BY <1>4 DEF EnsureLB, SyncListenersAndMembers
<1>5. CASE EnsureFloatingIP
  BY <1>5 DEF EnsureFloatingIP
<1>6. CASE EnsureClusterSecurityGroup \/ EnsureSGAttachedToWorkers
  BY <1>6 DEF EnsureClusterSecurityGroup, EnsureSGAttachedToWorkers
<1>7. CASE DetachDefaultSGFromWorkers \/ EnsureNodePortRules
  BY <1>7 DEF DetachDefaultSGFromWorkers, EnsureNodePortRules
<1>8. CASE CleanupRules \/ DeleteLBFloatingIP \/ DeleteLB
  BY <1>8 DEF CleanupRules, DeleteLBFloatingIP, DeleteLB
<1>9. CASE ClearStatusIngress \/ DropFinalizer
  BY <1>9 DEF ClearStatusIngress, DropFinalizer
<1> QED BY <1>1, <1>2, <1>3, <1>4, <1>5, <1>6, <1>7, <1>8, <1>9 DEF ReconcileStep

\* An ACTIVE load balancer and its floating IP stay as they are while the
\* reconciler holds an address: only the reconciler itself would delete them.
LEMMA ActiveStays ==
  ASSUME TypeInv, CloudInv, [Next]_vars, pc \in AfterFip,
         NEW l \in LBId, lb[l].status = "ACTIVE"
  PROVE  lb'[l].svc = lb[l].svc /\ lb'[l].status = "ACTIVE" /\ FipsOn(l)' = FipsOn(l)
<1>0. lb \in [LBId -> LBRecord] /\ fip \in [FipId -> FipRecord]
  BY DEF TypeInv, CloudTypeOK, LBRecord, FipRecord
<1>1. CASE UNCHANGED <<lb, fip>>
  BY <1>1 DEF FipsOn
<1>2. CASE ReconcileStep
  BY <1>1, <1>2, QuietSteps DEF AfterFip, EnsureLB, SyncListenersAndMembers,
     EnsureFloatingIP, DeleteLBFloatingIP, DeleteLB
<1>3. ASSUME NEW L \in SUBSET LBId, lb' = Outdated(L), UNCHANGED fip
      PROVE  lb'[l].svc = lb[l].svc /\ lb'[l].status = "ACTIVE" /\ FipsOn(l)' = FipsOn(l)
  BY <1>0, <1>3 DEF Outdated, LBRecord, FipsOn
<1>4. ASSUME NEW m \in LBId, Settle(m) \/ SettleError(m)
      PROVE  lb'[l].svc = lb[l].svc /\ lb'[l].status = "ACTIVE" /\ FipsOn(l)' = FipsOn(l)
  <2>1. m # l /\ lb'[l] = lb[l]
    BY <1>0, <1>4 DEF Settle, SettleError, Pending
  <2>2. UNCHANGED fip \/ fip' = Stranded(m)
    BY <1>4 DEF Settle, SettleError
  <2>3. 0 \notin LBId
    BY OpenStackAssumption
  <2>4. ASSUME NEW f \in FipId
        PROVE  /\ fip'[f].state = fip[f].state
               /\ fip'[f].port = l <=> fip[f].port = l
    BY <1>0, <2>1, <2>2, <2>3 DEF Stranded, FipRecord, NoPort
  <2> QED BY <2>1, <2>4 DEF FipsOn
<1> QED
  <2>1. (\E s \in Service : EditPorts(s)) \/ ScaleWorkers =>
          \E L \in SUBSET LBId : lb' = Outdated(L) /\ UNCHANGED fip
    BY DEF EditPorts, LBsNamed, ScaleWorkers
  <2> QED BY <1>1, <1>2, <1>3, <1>4, <2>1
             DEF Next, ReconcileError, CloudStep, vars, cloudVars

\* Rules are only taken away by cleanup and by the teardown's wipe.
LEMMA RulesStay ==
  ASSUME [Next]_vars, pc \in AfterFip
  PROVE  rules \subseteq rules'
<1>1. CASE ReconcileStep
  BY <1>1 DEF ReconcileStep, Get, Resolve, HRDeleteGuard, WipeOperatorRules,
     AddFinalizer, EnsureLB, SyncListenersAndMembers, EnsureFloatingIP,
     EnsureClusterSecurityGroup, EnsureSGAttachedToWorkers,
     DetachDefaultSGFromWorkers, EnsureNodePortRules, PatchStatus, CleanupRules,
     DeleteLBFloatingIP, DeleteLB, ClearStatusIngress, DropFinalizer, cloudVars, AfterFip
<1>2. CASE CloudStep
  BY <1>2 DEF CloudStep, Settle, SettleError
<1> QED BY <1>1, <1>2 DEF Next, ReconcileError, EditPorts, ScaleWorkers, vars, cloudVars

\* PublishInv is inductive, given the types and CloudInv.
LEMMA PublishInvNext ==
  ASSUME TypeInv, CloudInv, PublishInv, [Next]_vars
  PROVE  PublishInv'
<1>0. JobAddress /\ JobRules /\ job \in Job
  BY DEF PublishInv, TypeInv, SRTypeOK
<1>1. ASSUME UNCHANGED job, pc \in AfterFip
      PROVE  JobAddress'
  <2>1. /\ job.lb \in LBId /\ lb[job.lb].svc = job.s /\ lb[job.lb].status = "ACTIVE"
        /\ job.addr \in AddressesOf(job.lb)
    BY <1>0, <1>1 DEF JobAddress
  <2>2. /\ lb'[job.lb].svc = job.s /\ lb'[job.lb].status = "ACTIVE"
        /\ FipsOn(job.lb)' = FipsOn(job.lb)
    BY <1>1, <2>1, ActiveStays
  <2>3. (job.addr \in AddressesOf(job.lb))'
    BY <1>1, <2>1, <2>2 DEF AddressesOf
  <2> QED BY <1>1, <2>1, <2>2, <2>3 DEF JobAddress
<1>2. ASSUME EnsureFloatingIP, pc' = "sg"
      PROVE  JobAddress'
  <2>1. /\ job.s \in Service /\ job.lb \in LBId /\ fip \in [FipId -> FipRecord]
        /\ UNCHANGED lb /\ pc = "fip"
    BY <1>2 DEF EnsureFloatingIP, TypeInv, CloudTypeOK, FipRecord, JobHolds
  <2>2. lb[job.lb].svc = job.s /\ lb[job.lb].status = "ACTIVE"
    BY <2>1 DEF CloudInv, JobLB
  <2>3. \A a \in Address : Proceed("sg", [job EXCEPT !.addr = a]) =>
          job'.lb = job.lb /\ job'.s = job.s /\ job'.addr = a
    BY <1>0 DEF Proceed, Job
  <2>4. /\ job'.lb = job.lb /\ job'.s = job.s
        /\ \/ job'.addr = VipAddr(job.lb)
           \/ \E f \in FipsOn(job.lb)' : job'.addr = FipAddr(f)
    <3>1. CASE Proceed("sg", [job EXCEPT !.addr = VipAddr(job.lb)])
      BY <2>1, <2>3, <3>1, AddressTypes
    <3>2. ASSUME NEW f \in FipsOn(job.lb), UNCHANGED fip,
                 Proceed("sg", [job EXCEPT !.addr = FipAddr(f)])
          PROVE  /\ job'.lb = job.lb /\ job'.s = job.s
                 /\ \E g \in FipsOn(job.lb)' : job'.addr = FipAddr(g)
      <4>1. job'.lb = job.lb /\ job'.s = job.s /\ job'.addr = FipAddr(f)
        BY <2>3, <3>2, AddressTypes DEF FipsOn
      <4>2. f \in FipsOn(job.lb)'
        BY <3>2, <4>1 DEF FipsOn
      <4> QED BY <4>1, <4>2
    <3>3. ASSUME NEW f \in FipId, CreateFip(f, job.s, job.lb),
                 Proceed("sg", [job EXCEPT !.addr = FipAddr(f)])
          PROVE  /\ job'.lb = job.lb /\ job'.s = job.s
                 /\ \E g \in FipsOn(job.lb)' : job'.addr = FipAddr(g)
      <4>1. job'.lb = job.lb /\ job'.s = job.s /\ job'.addr = FipAddr(f)
        BY <2>3, <3>3, AddressTypes
      <4>2. f \in FipsOn(job.lb)'
        BY <2>1, <3>3, <4>1 DEF FipsOn, CreateFip
      <4> QED BY <4>1, <4>2
    <3> QED BY <1>2, <3>1, <3>2, <3>3 DEF EnsureFloatingIP, Return
  <2>5. (job.addr \in AddressesOf(job.lb))'
    BY <2>4 DEF AddressesOf
  <2> QED BY <2>1, <2>2, <2>4, <2>5 DEF JobAddress
<1>3. JobAddress'
  <2>1. CASE pc' \notin AfterFip
    BY <2>1 DEF JobAddress
  <2>2. CASE pc' \in AfterFip
    BY <1>1, <1>2, <2>2, Moves, WhoMoves, AfterFipEntries DEF AfterFip
  <2> QED BY <2>1, <2>2
<1>4. JobRules'
  <2>1. CASE UNCHANGED <<pc, job>>
    BY <1>0, <2>1, RulesStay DEF JobRules, WorkerSG, AfterFip
  <2>2. CASE EnsureNodePortRules
    BY <2>2 DEF EnsureNodePortRules, Return, Goto, Proceed, JobRules, WorkerSG
  <2> QED BY <2>1, <2>2, Moves, WhoMoves, AfterFipEntries DEF JobRules, AfterFip
<1> QED BY <1>3, <1>4 DEF PublishInv

\* PublishInv is an invariant.
LEMMA PublishInvariant == Spec => []PublishInv
<1>1. Init => PublishInv
  BY DEF Init, SRInit, PublishInv, JobAddress, JobRules, AfterFip
<1>2. TypeInv /\ CloudInv /\ PublishInv /\ [Next]_vars => PublishInv'
  BY PublishInvNext
<1> QED BY <1>1, <1>2, TypeInvariant, CloudInvariant, PTL DEF Spec

\* Only PatchStatus puts an address into a Service's status.
LEMMA OnlyPatched ==
  ASSUME TypeInv, [Next]_vars, NEW s \in Service
  PROVE  \/ svc'[s].ingress \in {svc[s].ingress, NoAddr}
         \/ /\ pc = "publish" /\ pc' = "idle" /\ s = job.s
            /\ svc'[s].ingress = job.addr
            /\ PatchStatus
<1>0. svc \in [Service -> SvcObject]
  BY DEF TypeInv, ApiTypeOK
<1>1. CASE UNCHANGED svc
  BY <1>1
<1>2. CASE AddFinalizer \/ DropFinalizer
  BY <1>0, <1>2 DEF AddFinalizer, SetFinalizer, DropFinalizer, RemoveFinalizer,
     SvcObject, NoObject
<1>3. CASE PatchStatus
  BY <1>0, <1>3 DEF PatchStatus, SetIngress, Return, SvcObject
<1>4. CASE ClearStatusIngress
  BY <1>0, <1>4 DEF ClearStatusIngress, SetIngress, SvcObject
<1>5. ASSUME NEW t \in Service, ChangeType(t) \/ DeleteService(t)
      PROVE  svc'[s].ingress \in {svc[s].ingress, NoAddr}
  BY <1>0, <1>5 DEF ChangeType, DeleteService, SvcObject, NoObject
<1>6. ASSUME NEW t \in Service, NEW b \in BOOLEAN, CreateService(t, b)
      PROVE  svc'[s].ingress \in {svc[s].ingress, NoAddr}
  BY <1>0, <1>6 DEF CreateService, SvcObject, NoObject
<1> QED BY <1>1, <1>2, <1>3, <1>4, <1>5, <1>6, Moves DEF SvcMove

\* An address is published only when it leads to the Service's own load
\* balancer and the Service's NodePort rules are in place, however stale the
\* reads, whatever the operator reconfigures, with or without external network.
THEOREM PublishedIsReachable == Spec => PublishedWhenReady
<1> DEFINE Step == \A s \in Service :
                     svc'[s].ingress \notin {svc[s].ingress, NoAddr} =>
                       /\ Reachable(s, svc'[s].ingress)
                       /\ \E g \in Group : <<g, s>> \in rules
<1>1. TypeInv /\ CloudInv /\ PublishInv /\ [Next]_vars => Step
  <2> SUFFICES ASSUME TypeInv, CloudInv, PublishInv, [Next]_vars, NEW s \in Service,
                      svc'[s].ingress \notin {svc[s].ingress, NoAddr}
               PROVE  /\ Reachable(s, svc'[s].ingress)
                      /\ \E g \in Group : <<g, s>> \in rules
    OBVIOUS
  <2>1. pc = "publish" /\ s = job.s /\ svc'[s].ingress = job.addr
    BY OnlyPatched
  <2>2. /\ job.lb \in LBId /\ lb[job.lb].svc = s /\ lb[job.lb].status = "ACTIVE"
        /\ job.addr \in AddressesOf(job.lb)
        /\ <<WorkerSG, s>> \in rules
    BY <2>1 DEF PublishInv, JobAddress, JobRules, AfterFip
  <2>3. WorkerSG \in Group
    BY DEF WorkerSG, Group
  <2>4. job.lb \in LBsNamed(s)
    BY <2>2 DEF LBsNamed, LiveLB
  <2>5. Reachable(s, job.addr)
    <3>1. CASE job.addr = VipAddr(job.lb)
      BY <2>4, <3>1 DEF Reachable
    <3>2. ASSUME NEW f \in FipsOn(job.lb), job.addr = FipAddr(f)
          PROVE  Reachable(s, job.addr)
      <4>1. f \in FipsTagged(s) /\ fip[f].port = job.lb
        BY <2>2 DEF FipsOn, FipsTagged, CloudInv, FipsFollowLBs
      <4> QED BY <2>4, <3>2, <4>1 DEF Reachable
    <3> QED BY <2>2, <3>1, <3>2 DEF AddressesOf
  <2> QED BY <2>1, <2>2, <2>3, <2>5
<1>2. [Next]_vars /\ TypeInv /\ CloudInv /\ PublishInv => [Step]_vars
  BY <1>1
<1> HIDE DEF Step
<1>3. Spec => [][Step]_vars
  BY <1>2, TypeInvariant, CloudInvariant, PublishInvariant, PTL DEF Spec
<1> QED BY <1>3 DEF PublishedWhenReady, Step

-----------------------------------------------------------------------------
(***************************************************************************)
(* ReleaseInv.                                                             *)
(***************************************************************************)
\* ReleaseInv is inductive, given ClaimInv.
LEMMA ReleaseInvNext ==
  ASSUME ~StaleReads, "secret" \notin OperatorOps,
         TypeInv, ClaimInv, ReleaseInv, [Next]_vars
  PROVE  ReleaseInv'
<1>0. /\ ksc.secret /\ SeenFinalizer /\ SafeToDrop /\ NoAddressAfterRelease
      /\ pc # "idle" => job.s \in Service
      /\ \A s \in Service : svc[s].fin => svc[s].exists
      /\ svc \in [Service -> SvcObject]
      /\ ~TenantLive => ~TenantLive'
  BY TenantOnlyDies
     DEF ClaimInv, ReleaseInv, TypeInv, ApiTypeOK, JobHolds, SeenFinalizer
<1>1. pc' \in AfterFip => job'.snap.fin
  <2>1. CASE UNCHANGED <<pc, job>>
    BY <2>1 DEF ReleaseInv
  <2>2. CASE ReconcileStep /\ pc' \in AfterFip
    <3>1. CASE EnsureFloatingIP
      <4>1. pc = "fip" /\ job.snap.fin
        BY <1>0, <3>1 DEF EnsureFloatingIP, SeenFinalizer
      <4> QED BY <2>2, <4>1, KeepsJob DEF AfterFip
    <3>2. CASE pc \in AfterFip /\ UNCHANGED job
      BY <3>2 DEF ReleaseInv
    <3> QED BY <2>2, <3>1, <3>2, AfterFipEntries
  <2> QED BY <2>1, <2>2, Moves, WhoMoves DEF AfterFip
<1>2. ASSUME pc' # "idle", svc'[job'.s].ingress # NoAddr
      PROVE  job'.snap.ingress # NoAddr
  <2>1. CASE pc # "idle" /\ job'.s = job.s /\ job'.snap = job.snap
    BY <1>0, <1>2, <2>1, OnlyPatched DEF ReleaseInv
  <2>2. ASSUME NEW s \in Service, Get(s)
        PROVE  job'.snap.ingress # NoAddr
    <3>1. UNCHANGED svc /\ job'.s = s /\ job'.snap = svc[s]
      BY <2>2 DEF Get, Read, apiVars, NoJob
    <3> QED BY <1>2, <3>1
  <2> QED BY <1>2, <2>1, <2>2, Moves, WhoMoves, StepAt, KeepsJob
<1>3. ASSUME pc' = "dropFin", TenantLive'
      PROVE  svc'[job'.s].ingress = NoAddr
  <2>1. TenantLive
    BY <1>0, <1>3
  <2>2. CASE UNCHANGED <<pc, job>>
    BY <1>0, <1>3, <2>1, <2>2, OnlyPatched DEF ReleaseInv
  <2>3. CASE ReconcileStep
    <3>1. pc = "cClear" /\ ClearStatusIngress
      BY <1>0, <1>3, <2>1, <2>3, Entries, StepAt DEF SafeToDrop
    <3>2. job.s \in Service /\ job'.s = job.s
      BY <1>0, <3>1 DEF ClearStatusIngress, Goto, Proceed
    <3>3. CASE SetIngress(job.s, NoAddr)
      BY <1>0, <3>2, <3>3 DEF SetIngress, SvcObject
    <3>4. CASE UNCHANGED svc /\ (job.snap.ingress = NoAddr \/ svc[job.s].ingress = NoAddr)
      BY <3>1, <3>2, <3>4 DEF ReleaseInv
    <3>5. CASE UNCHANGED svc /\ ~svc[job.s].exists
      BY <1>0, <2>1, <3>2, <3>5 DEF NoAddressAfterRelease
    <3> QED BY <3>1, <3>3, <3>4, <3>5 DEF ClearStatusIngress, Read
  <2> QED BY <1>3, <2>2, <2>3, Moves, WhoMoves
<1>4. NoAddressAfterRelease'
  <2> SUFFICES ASSUME TenantLive', NEW s \in Service, svc'[s].ingress # NoAddr
               PROVE  svc'[s].fin
    BY DEF NoAddressAfterRelease
  <2>1. TenantLive
    BY <1>0
  <2>2. CASE svc'[s].ingress = svc[s].ingress
    <3>1. svc[s].fin
      BY <1>0, <2>1, <2>2 DEF NoAddressAfterRelease
    <3>2. ~(pc = "dropFin" /\ s = job.s)
      BY <2>1, <2>2 DEF ReleaseInv
    <3> QED BY <1>0, <3>1, <3>2, Moves, OnlyDropped
  <2>3. CASE pc = "publish" /\ s = job.s
    <3>1. svc[s].fin
      BY <1>0, <2>3 DEF ReleaseInv, SeenFinalizer, AfterFip
    <3> QED BY <1>0, <2>3, <3>1, Moves, OnlyDropped
  <2> QED BY <2>2, <2>3, OnlyPatched
<1> QED BY <1>1, <1>2, <1>3, <1>4 DEF ReleaseInv

\* ClaimInv and ReleaseInv hold throughout.
LEMMA ReleaseInvariant ==
  ASSUME ~StaleReads, "secret" \notin OperatorOps
  PROVE  Spec => [](ClaimInv /\ ReleaseInv)
<1>1. Init => ReleaseInv
  BY DEF Init, SRInit, ApiInit, NoObject, ReleaseInv, NoAddressAfterRelease, AfterFip
<1>2. TypeInv /\ CloudInv /\ ClaimInv /\ ReleaseInv /\ [Next]_vars
        => ClaimInv' /\ ReleaseInv'
  BY ClaimInvNext, ReleaseInvNext
<1> QED BY <1>1, <1>2, TypeInvariant, CloudInvariant, ClaimInvInit, PTL DEF Spec

\* A live tenant's Service that lost our finalizer shows no address of ours:
\* cleanup clears the status first, and no reconcile publishes after it.
THEOREM ReleasedShowsNoAddress ==
  ASSUME ~StaleReads, "secret" \notin OperatorOps
  PROVE  Spec => []NoAddressAfterRelease
<1>1. ReleaseInv => NoAddressAfterRelease
  BY DEF ReleaseInv
<1> QED BY <1>1, ReleaseInvariant, PTL

-----------------------------------------------------------------------------
(***************************************************************************)
(* RuleInv.                                                                *)
(***************************************************************************)
\* Only EnsureNodePortRules adds rules, to the group of its own config.
LEMMA OnlyRuled ==
  ASSUME [Next]_vars, NEW s \in Service, <<"cluster", s>> \in rules'
  PROVE  \/ <<"cluster", s>> \in rules
         \/ pc = "rules" /\ s = job.s /\ ~job.cfg.pinned
<1>1. CASE ReconcileStep
  <2>1. CASE EnsureNodePortRules
    BY <2>1 DEF EnsureNodePortRules, WorkerSG
  <2> QED
    BY <1>1, <2>1 DEF ReconcileStep, Get, Resolve, HRDeleteGuard, WipeOperatorRules,
       AddFinalizer, EnsureLB, SyncListenersAndMembers, EnsureFloatingIP,
       EnsureClusterSecurityGroup, EnsureSGAttachedToWorkers,
       DetachDefaultSGFromWorkers, PatchStatus, CleanupRules,
       DeleteLBFloatingIP, DeleteLB, ClearStatusIngress, DropFinalizer, cloudVars
<1>2. CASE CloudStep
  BY <1>2 DEF CloudStep, Settle, SettleError
<1> QED BY <1>1, <1>2 DEF Next, ReconcileError, EditPorts, ScaleWorkers, vars, cloudVars

\* Where a reconcile's configuration comes from: Resolve, and it is enabled
\* wherever the reconcile provisions.
LEMMA Configs ==
  ASSUME TypeInv, ReconcileStep
  PROVE  /\ \/ job'.cfg \in {job.cfg, NoConfig}
            \/ job'.cfg = ResolvedConfig
         /\ pc' \in Provisioning =>
              job'.cfg = job.cfg /\ (pc \in Provisioning \/ job.cfg.enabled)
<1>0. job \in Job /\ NoJob.cfg = NoConfig
  BY DEF TypeInv, SRTypeOK, NoJob
<1> USE DEF Goto, Proceed, Return, Provisioning, AfterFip
<1>1. CASE \E s \in Service : Get(s)
  BY <1>0, <1>1 DEF Get, NoJob
<1>2. CASE Resolve
  BY <1>0, <1>2 DEF Resolve, Job
<1>3. CASE HRDeleteGuard
  <2>1. /\ Dispatch \in {"cRules", "idle", "ensureLB", "addFin"}
        /\ Dispatch = "ensureLB" => job.cfg.enabled
    BY DEF Dispatch
  <2> QED BY <1>0, <1>3, <2>1 DEF HRDeleteGuard
<1>4. CASE WipeOperatorRules \/ AddFinalizer \/ PatchStatus
  BY <1>0, <1>4 DEF WipeOperatorRules, AddFinalizer, PatchStatus
<1>5. CASE EnsureLB
  BY <1>0, <1>5 DEF EnsureLB, Job
<1>6. CASE SyncListenersAndMembers
  BY <1>0, <1>6 DEF SyncListenersAndMembers, Job
<1>7. CASE EnsureFloatingIP
  BY <1>0, <1>7 DEF EnsureFloatingIP, Job
<1>8. CASE EnsureClusterSecurityGroup \/ EnsureSGAttachedToWorkers
  BY <1>0, <1>8 DEF EnsureClusterSecurityGroup, EnsureSGAttachedToWorkers
<1>9. CASE DetachDefaultSGFromWorkers \/ EnsureNodePortRules
  BY <1>0, <1>9 DEF DetachDefaultSGFromWorkers, EnsureNodePortRules
<1>10. CASE DeleteLBFloatingIP \/ DeleteLB
  BY <1>0, <1>10 DEF DeleteLBFloatingIP, DeleteLB, Job
<1>11. CASE CleanupRules \/ ClearStatusIngress \/ DropFinalizer
  BY <1>0, <1>11 DEF CleanupRules, ClearStatusIngress, DropFinalizer
<1> QED BY <1>1, <1>2, <1>3, <1>4, <1>5, <1>6, <1>7, <1>8, <1>9, <1>10, <1>11
           DEF ReconcileStep

\* RuleInv is inductive, given ClaimInv and ReleaseInv and a group that is
\* never pinned.
LEMMA RuleInvNext ==
  ASSUME ~StaleReads, "secret" \notin OperatorOps, "pin" \notin OperatorOps,
         TypeInv, ClaimInv, ReleaseInv, RuleInv, [Next]_vars
  PROVE  RuleInv'
<1>0. /\ ksc.secret /\ SeenFinalizer /\ SafeToDrop
      /\ GroupIsSettled /\ FinalizerGuardsClusterRules
      /\ pc # "idle" => job.s \in Service
      /\ \A s \in Service : svc[s].fin => svc[s].exists
      /\ ~TenantLive => ~TenantLive'
      /\ ksc'.pinned = ksc.pinned
  BY TenantOnlyDies DEF ClaimInv, RuleInv, TypeInv, JobHolds, SeenFinalizer
<1>1. GroupIsSettled'
  <2>1. /\ job'.cfg.pinned => ksc.pinned
        /\ job'.cfg.enabled /\ ksc.pinned => job'.cfg.pinned
    <3>1. CASE job'.cfg = job.cfg
      BY <1>0, <3>1 DEF GroupIsSettled
    <3>2. CASE job'.cfg = NoConfig
      BY <3>2 DEF NoConfig
    <3>3. CASE job'.cfg = ResolvedConfig
      <4>1. ksc \in KSC
        BY DEF TypeInv, ApiTypeOK
      <4> QED BY <3>3, <4>1 DEF ResolvedConfig, KSC
    <3>4. ReconcileError => job'.cfg = NoConfig
      BY DEF ReconcileError, NoJob
    <3>5. ReconcileStep \/ ReconcileError \/ UNCHANGED job
      BY DEF Next, vars, srVars
    <3> QED BY <3>1, <3>2, <3>3, <3>4, <3>5, Configs
  <2>2. pc' \in Provisioning => job'.cfg.enabled
    <3>1. CASE UNCHANGED <<pc, job>>
      BY <1>0, <3>1 DEF GroupIsSettled
    <3>2. CASE ReconcileStep
      BY <1>0, <3>2, Configs DEF GroupIsSettled
    <3> QED BY <3>1, <3>2, Moves, WhoMoves DEF Provisioning, AfterFip
  <2>3. ASSUME ksc.pinned, NEW s \in Service
        PROVE  <<"cluster", s>> \notin rules'
    <3>1. pc = "rules" => job.cfg.pinned
      BY <1>0, <2>3 DEF GroupIsSettled, Provisioning, AfterFip
    <3> QED BY <1>0, <2>3, <3>1, OnlyRuled DEF GroupIsSettled
  <2> QED BY <1>0, <2>1, <2>2, <2>3 DEF GroupIsSettled
<1>2. ASSUME pc' \in {"cFip", "cLB", "cClear", "dropFin"}, TenantLive'
      PROVE  <<"cluster", job'.s>> \notin rules'
  <2>1. TenantLive
    BY <1>0, <1>2
  <2>2. CASE UNCHANGED <<pc, job>>
    BY <1>0, <1>2, <2>1, <2>2, OnlyRuled DEF RuleInv
  <2>3. CASE ReconcileStep
    <3>1. pc \in {"cRules", "cFip", "cClear"}
      BY <1>0, <1>2, <2>1, <2>3, Entries DEF SafeToDrop
    <3>2. job'.s = job.s /\ job.s \in Service
      BY <1>0, <1>2, <2>3, <3>1, KeepsJob
    <3>3. CASE pc = "cRules"
      <4>1. rules' = rules \ {<<WorkerSG, job.s>>}
        BY <2>3, <3>3, StepAt DEF CleanupRules
      <4>2. CASE job.cfg.pinned
        BY <1>0, <3>2, <4>1, <4>2 DEF GroupIsSettled
      <4>3. CASE ~job.cfg.pinned
        BY <3>2, <4>1, <4>3 DEF WorkerSG
      <4> QED BY <4>2, <4>3
    <3>4. CASE pc \in {"cFip", "cClear"}
      BY <2>1, <3>2, <3>4, OnlyRuled DEF RuleInv
    <3> QED BY <3>1, <3>3, <3>4
  <2> QED BY <1>2, <2>2, <2>3, Moves, WhoMoves
<1>3. FinalizerGuardsClusterRules'
  <2>1. ASSUME NEW s \in Service, rules \cap ({"cluster"} \X {s}) # {}
        PROVE  <<"cluster", s>> \in rules
    BY <2>1
  <2> SUFFICES ASSUME TenantLive', NEW s \in Service, <<"cluster", s>> \in rules'
               PROVE  svc'[s].fin
    BY DEF FinalizerGuardsClusterRules, RulesGuarded
  <2>2. TenantLive
    BY <1>0
  <2>3. CASE <<"cluster", s>> \in rules
    <3>1. svc[s].fin
      BY <1>0, <2>2, <2>3 DEF FinalizerGuardsClusterRules, RulesGuarded
    <3>2. ~(pc = "dropFin" /\ s = job.s)
      BY <2>2, <2>3 DEF RuleInv
    <3> QED BY <1>0, <3>1, <3>2, Moves, OnlyDropped
  <2>4. CASE pc = "rules" /\ s = job.s
    <3>1. svc[s].fin
      BY <1>0, <2>4 DEF ReleaseInv, SeenFinalizer, AfterFip
    <3> QED BY <1>0, <2>4, <3>1, Moves, OnlyDropped
  <2> QED BY <2>3, <2>4, OnlyRuled
<1> QED BY <1>1, <1>2, <1>3 DEF RuleInv

\* The NodePort rules in the cluster's own group go before the finalizer
\* does, as long as the operator leaves the choice of group alone.
THEOREM RulesAreGuarded ==
  ASSUME ~StaleReads, "secret" \notin OperatorOps, "pin" \notin OperatorOps
  PROVE  Spec => []FinalizerGuardsClusterRules
<1>1. Init => RuleInv
  <2>1. Init => GroupIsSettled
    BY DEF Init, CloudInit, SRInit, NoJob, NoConfig, GroupIsSettled, Provisioning, AfterFip
  <2> QED BY <2>1 DEF Init, CloudInit, SRInit, RuleInv, FinalizerGuardsClusterRules,
                      RulesGuarded
<1>2. TypeInv /\ ClaimInv /\ ReleaseInv /\ RuleInv /\ [Next]_vars => RuleInv'
  BY RuleInvNext
<1>3. RuleInv => FinalizerGuardsClusterRules
  BY DEF RuleInv
<1> QED BY <1>1, <1>2, <1>3, TypeInvariant, ReleaseInvariant, PTL DEF Spec

-----------------------------------------------------------------------------
(***************************************************************************)
(* ServiceLifecycle implements ServiceContract.  The abstract state, by    *)
(* name:                                                                   *)
(***************************************************************************)
Claimed == {s \in Service : svc[s].fin}
Balanced == {lb[l].svc : l \in {m \in LBId : LiveLB(m)}}
Addressed == {fip[f].svc : f \in {g \in FipId : fip[g].state = "allocated"}}
Published == {s \in Service : svc[s].ingress # NoAddr}

ContractInv == TypeInv /\ CloudInv /\ PublishInv /\ ClaimInv /\ ReleaseInv

\* What an abstract step leaves alone, seen from the concrete state.
LEMMA Unmoved ==
  /\ (\A l \in LBId : (LiveLB(l)' <=> LiveLB(l)) /\ lb'[l].svc = lb[l].svc)
       => Balanced' = Balanced
  /\ (\A f \in FipId : /\ fip'[f].state = "allocated" <=> fip[f].state = "allocated"
                       /\ fip'[f].svc = fip[f].svc) => Addressed' = Addressed
  /\ (\A s \in Service : svc'[s].fin <=> svc[s].fin) => Claimed' = Claimed
  /\ (\A s \in Service : svc'[s].ingress = svc[s].ingress) => Published' = Published
  /\ UNCHANGED <<ksc, hr>> => TenantLive' = TenantLive
<1>1. (\A l \in LBId : (LiveLB(l)' <=> LiveLB(l)) /\ lb'[l].svc = lb[l].svc)
        => Balanced' = Balanced
  BY DEF Balanced
<1>2. (\A f \in FipId : /\ fip'[f].state = "allocated" <=> fip[f].state = "allocated"
                        /\ fip'[f].svc = fip[f].svc) => Addressed' = Addressed
  BY DEF Addressed
<1>3. /\ (\A s \in Service : svc'[s].fin <=> svc[s].fin) => Claimed' = Claimed
      /\ (\A s \in Service : svc'[s].ingress = svc[s].ingress) => Published' = Published
  BY DEF Claimed, Published
<1>4. UNCHANGED <<ksc, hr>> => TenantLive' = TenantLive
  BY DEF TenantLive
<1> QED BY <1>1, <1>2, <1>3, <1>4

\* The abstract state in the terms of the concrete one.
LEMMA Mapped ==
  /\ \A s \in Service : /\ s \in Claimed <=> svc[s].fin
                        /\ s \in Published <=> svc[s].ingress # NoAddr
                        /\ s \in Balanced <=> LBsNamed(s) # {}
                        /\ s \in Addressed <=> FipsTagged(s) # {}
  /\ CloudInv => Balanced \subseteq Service /\ Addressed \subseteq Balanced
BY DEF Claimed, Published, Balanced, Addressed, LBsNamed, FipsTagged,
       CloudInv, OneLBEach, FipsFollowLBs

\* A reconcile's writes to a Service: it claims, publishes, withdraws and
\* releases it.
LEMMA ContractWrites ==
  ASSUME ContractInv, NEW s \in Service, s = job.s,
         ~StaleReads, "secret" \notin OperatorOps
  PROVE  /\ AddFinalizer => Contract!Claim(s) \/ UNCHANGED Contract!vars
         /\ PatchStatus => Contract!Publish(s) \/ UNCHANGED Contract!vars
         /\ ClearStatusIngress => Contract!Withdraw(s) \/ UNCHANGED Contract!vars
         /\ DropFinalizer => Contract!Release(s) \/ UNCHANGED Contract!vars
<1> USE DEF cloudVars
<1>0. svc \in [Service -> SvcObject]
  BY DEF ContractInv, TypeInv, ApiTypeOK
<1>a. UNCHANGED <<lb, fip>> => Balanced' = Balanced /\ Addressed' = Addressed
  BY DEF Balanced, Addressed, LiveLB
<1>b. UNCHANGED <<lb, fip, svc, ksc, hr>> => UNCHANGED Contract!vars
  BY <1>a DEF Contract!vars, TenantLive, Balanced, Addressed
<1>1. ASSUME AddFinalizer
      PROVE  Contract!Claim(s) \/ UNCHANGED Contract!vars
  <2>1. CASE SetFinalizer(s)
    <3>1. Claimed' = Claimed \cup {s} /\ Published' = Published
      BY <1>0, <2>1 DEF SetFinalizer, SvcObject, Claimed, Published
    <3> QED BY <1>1, <1>a, <3>1, Unmoved
               DEF AddFinalizer, Contract!Claim, Claimed, Published, Balanced, Addressed
  <2> QED BY <1>1, <1>b, <2>1 DEF AddFinalizer
<1>2. ASSUME PatchStatus
      PROVE  Contract!Publish(s) \/ UNCHANGED Contract!vars
  <2>1. CASE SetIngress(s, job.addr)
    <3>1. /\ pc = "publish" /\ job.lb \in LBId
          /\ lb[job.lb].svc = s /\ lb[job.lb].status = "ACTIVE"
          /\ job.addr \in AddressesOf(job.lb)
      BY <1>2 DEF PatchStatus, ContractInv, PublishInv, JobAddress, AfterFip
    <3>2. job.addr # NoAddr
      BY <3>1 DEF AddressesOf, VipAddr, FipAddr, NoAddr
    <3>3. s \in Claimed
      BY <3>1 DEF ContractInv, ReleaseInv, AfterFip, ClaimInv, SeenFinalizer, Claimed
    <3>4. s \in Balanced
      BY <3>1 DEF Balanced, LiveLB
    <3>5. Published' = Published \cup {s} /\ Claimed' = Claimed
      BY <1>0, <2>1, <3>2 DEF SetIngress, SvcObject, Claimed, Published
    <3> QED BY <1>2, <1>a, <3>3, <3>4, <3>5, Unmoved
               DEF PatchStatus, Contract!Publish, Claimed, Published, Balanced, Addressed
  <2> QED BY <1>2, <1>b, <2>1 DEF PatchStatus
<1>3. ASSUME ClearStatusIngress
      PROVE  Contract!Withdraw(s) \/ UNCHANGED Contract!vars
  <2>1. CASE SetIngress(s, NoAddr)
    <3>1. Published' = Published \ {s} /\ Claimed' = Claimed
      BY <1>0, <2>1 DEF SetIngress, SvcObject, Claimed, Published
    <3> QED BY <1>3, <1>a, <3>1, Unmoved
               DEF ClearStatusIngress, Contract!Withdraw,
                   Claimed, Published, Balanced, Addressed
  <2> QED BY <1>3, <1>b, <2>1 DEF ClearStatusIngress
<1>4. ASSUME DropFinalizer
      PROVE  Contract!Release(s) \/ UNCHANGED Contract!vars
  <2>1. CASE RemoveFinalizer(s)
    <3>1. TenantLive => LBsNamed(s) = {} /\ FipsTagged(s) = {} /\ svc[s].ingress = NoAddr
      BY <1>4 DEF DropFinalizer, ContractInv, ClaimInv, SafeToDrop, NothingLeft, ReleaseInv
    <3>2. TenantLive => s \notin Balanced \cup Addressed \cup Published
      BY <3>1, Mapped
    <3>3. Claimed' = Claimed \ {s} /\ Published' \in {Published, Published \ {s}}
      BY <1>0, <2>1 DEF RemoveFinalizer, NoObject, SvcObject, Claimed, Published
    <3> QED BY <1>4, <1>a, <3>2, <3>3, Unmoved
               DEF DropFinalizer, Contract!Release, Claimed, Published, Balanced, Addressed
  <2> QED BY <1>4, <1>b, <2>1 DEF DropFinalizer
<1> QED BY <1>1, <1>2, <1>3, <1>4

\* What a step on the cloud alone does to the abstract state.
LEMMA ContractCloud ==
  ASSUME ContractInv, UNCHANGED <<svc, ksc, hr>>
  PROVE  /\ Balanced' = Balanced /\ Addressed' = Addressed => UNCHANGED Contract!vars
         /\ \A s \in Service :
              /\ s \in Claimed \ Balanced /\ Balanced' = Balanced \cup {s}
                   /\ Addressed' = Addressed => Contract!Balance(s)
              /\ s \in (Claimed \cap Balanced) \ Addressed /\ Balanced' = Balanced
                   /\ Addressed' = Addressed \cup {s} => Contract!Allocate(s)
              /\ Addressed' = Addressed \ {s} /\ Balanced' = Balanced
                   => Contract!Deallocate(s)
              /\ s \notin Addressed /\ Balanced' = Balanced \ {s}
                   /\ Addressed' = Addressed => Contract!Unbalance(s)
<1>1. /\ Claimed' = Claimed /\ Published' = Published
      /\ TenantLive' = TenantLive
  BY Unmoved
<1>2. Balanced' = Balanced /\ Addressed' = Addressed => UNCHANGED Contract!vars
  BY <1>1 DEF Contract!vars, Claimed, Published, Balanced, Addressed
<1>3. ASSUME NEW s \in Service
      PROVE  /\ s \in Claimed \ Balanced /\ Balanced' = Balanced \cup {s}
                  /\ Addressed' = Addressed => Contract!Balance(s)
             /\ s \in (Claimed \cap Balanced) \ Addressed /\ Balanced' = Balanced
                  /\ Addressed' = Addressed \cup {s} => Contract!Allocate(s)
             /\ Addressed' = Addressed \ {s} /\ Balanced' = Balanced
                  => Contract!Deallocate(s)
             /\ s \notin Addressed /\ Balanced' = Balanced \ {s}
                  /\ Addressed' = Addressed => Contract!Unbalance(s)
  BY <1>1 DEF Contract!Balance, Contract!Allocate, Contract!Deallocate,
              Contract!Unbalance, Claimed, Published, Balanced, Addressed
<1> QED BY <1>2, <1>3

\* A reconcile gives a Service a load balancer, then a floating IP, and takes
\* the floating IP back; the rest of its calls do not show.
LEMMA ContractCalls ==
  ASSUME ContractInv, NEW s \in Service, s = job.s,
         ~StaleReads, "secret" \notin OperatorOps
  PROVE  /\ EnsureLB => Contract!Balance(s) \/ UNCHANGED Contract!vars
         /\ EnsureFloatingIP => Contract!Allocate(s) \/ UNCHANGED Contract!vars
         /\ DeleteLBFloatingIP => Contract!Deallocate(s) \/ UNCHANGED Contract!vars
         /\ SyncListenersAndMembers \/ DeleteLB => UNCHANGED Contract!vars
<1>0. /\ lb \in [LBId -> LBRecord] /\ fip \in [FipId -> FipRecord] /\ CloudInv
      /\ pc \in {"sync", "fip", "cLB"} => job.lb \in LBId
      /\ pc \in {"ensureLB", "fip"} => svc[s].fin
  BY DEF ContractInv, TypeInv, CloudTypeOK, LBRecord, FipRecord, JobHolds,
         ClaimInv, SeenFinalizer
<1>1. ASSUME EnsureLB
      PROVE  Contract!Balance(s) \/ UNCHANGED Contract!vars
  <2>1. UNCHANGED <<svc, ksc, hr, fip>> /\ pc = "ensureLB"
    BY <1>1 DEF EnsureLB, apiVars
  <2>2. Addressed' = Addressed
    BY <2>1, Unmoved
  <2>3. CASE UNCHANGED lb
    <3>1. Balanced' = Balanced
      BY <2>3 DEF Balanced, LiveLB
    <3> QED BY <2>1, <2>2, <3>1, ContractCloud
  <2>4. ASSUME LBsNamed(s) = {}, NEW l \in LBId, FreshLB(l), CreateLB(l, s)
        PROVE  Contract!Balance(s)
    <3>1. /\ lb'[l].svc = s /\ LiveLB(l)' /\ ~LiveLB(l)
          /\ \A m \in LBId \ {l} : lb'[m] = lb[m]
      BY <1>0, <2>4 DEF CreateLB, FreshLB, LiveLB
    <3>2. Balanced' = Balanced \cup {s}
      BY <3>1 DEF Balanced, LiveLB
    <3>3. s \in Claimed \ Balanced
      BY <1>0, <2>1, <2>4, Mapped
    <3> QED BY <2>1, <2>2, <3>2, <3>3, ContractCloud
  <2> QED BY <1>1, <2>3, <2>4 DEF EnsureLB
<1>2. ASSUME EnsureFloatingIP
      PROVE  Contract!Allocate(s) \/ UNCHANGED Contract!vars
  <2>1. UNCHANGED <<svc, ksc, hr, lb>> /\ pc = "fip"
    BY <1>2 DEF EnsureFloatingIP, apiVars
  <2>2. Balanced' = Balanced
    BY <2>1 DEF Balanced, LiveLB
  <2>3. CASE UNCHANGED fip
    <3>1. Addressed' = Addressed
      BY <2>3, Unmoved
    <3> QED BY <2>1, <2>2, <3>1, ContractCloud
  <2>4. ASSUME FipsOn(job.lb) = {}, NEW f \in FipId, FreshFip(f), CreateFip(f, s, job.lb)
        PROVE  Contract!Allocate(s)
    <3>1. /\ fip'[f].svc = s /\ fip'[f].state = "allocated" /\ fip[f].state = "unused"
          /\ \A g \in FipId \ {f} : fip'[g] = fip[g]
      BY <1>0, <2>4 DEF CreateFip, FreshFip
    <3>2. Addressed' = Addressed \cup {s}
      BY <3>1 DEF Addressed
    <3>3. job.lb \in LBsNamed(s)
      BY <1>0, <2>1 DEF CloudInv, JobLB, LBsNamed, LiveLB
    <3>4. FipsTagged(s) = {}
      BY <1>0, <2>4, <3>3
         DEF CloudInv, OneLBEach, FipsFollowLBs, FipsTagged, FipsOn, LBsNamed
    <3>5. s \in (Claimed \cap Balanced) \ Addressed
      BY <1>0, <2>1, <3>3, <3>4, Mapped
    <3> QED BY <2>1, <2>2, <3>2, <3>5, ContractCloud
  <2> QED BY <1>2, <2>3, <2>4 DEF EnsureFloatingIP
<1>3. ASSUME DeleteLBFloatingIP
      PROVE  Contract!Deallocate(s) \/ UNCHANGED Contract!vars
  <2>1. UNCHANGED <<svc, ksc, hr, lb>>
    BY <1>3 DEF DeleteLBFloatingIP, apiVars
  <2>2. Balanced' = Balanced
    BY <2>1 DEF Balanced, LiveLB
  <2>3. CASE UNCHANGED fip
    <3>1. Addressed' = Addressed
      BY <2>3, Unmoved
    <3> QED BY <2>1, <2>2, <3>1, ContractCloud
  <2>4. ASSUME NEW l \in LBsNamed(s), fip' = Released(FipsOn(l))
        PROVE  Contract!Deallocate(s)
    <3>1. FipsOn(l) = FipsTagged(s)
      BY <1>0 DEF CloudInv, OneLBEach, FipsFollowLBs, FipsTagged, FipsOn, LBsNamed
    <3>2. \A f \in FipId : /\ f \in FipsTagged(s) => fip'[f].state = "gone"
                           /\ f \notin FipsTagged(s) => fip'[f] = fip[f]
      BY <1>0, <2>4, <3>1 DEF Released, FipRecord
    <3>3. Addressed' = Addressed \ {s}
      BY <3>2 DEF Addressed, FipsTagged
    <3> QED BY <2>1, <2>2, <3>3, ContractCloud
  <2> QED BY <1>3, <2>3, <2>4 DEF DeleteLBFloatingIP
<1>4. ASSUME SyncListenersAndMembers \/ DeleteLB
      PROVE  UNCHANGED Contract!vars
  <2>1. UNCHANGED <<svc, ksc, hr, fip>>
    BY <1>4 DEF SyncListenersAndMembers, DeleteLB, apiVars
  <2>2. \A l \in LBId : (LiveLB(l)' <=> LiveLB(l)) /\ lb'[l].svc = lb[l].svc
    BY <1>0, <1>4 DEF SyncListenersAndMembers, DeleteLB, RequestDelete, Deletable,
                      LiveLB, LBRecord
  <2> QED BY <2>1, <2>2, Unmoved, ContractCloud
<1> QED BY <1>1, <1>2, <1>3, <1>4

\* Octavia's own steps: a finished delete takes a Service's load balancer
\* away, when its floating IP is gone already.
LEMMA ContractOctavia ==
  ASSUME ContractInv, UNCHANGED <<svc, ksc, hr>>
  PROVE  /\ \A l \in LBId : Settle(l) \/ SettleError(l) =>
              (\E s \in Service : Contract!Unbalance(s)) \/ UNCHANGED Contract!vars
         /\ \A L \in SUBSET LBId :
              lb' = Outdated(L) /\ UNCHANGED fip => UNCHANGED Contract!vars
<1>0. lb \in [LBId -> LBRecord] /\ fip \in [FipId -> FipRecord] /\ CloudInv
  BY DEF ContractInv, TypeInv, CloudTypeOK, LBRecord, FipRecord
<1>1. ASSUME NEW l \in LBId, Settle(l) \/ SettleError(l)
      PROVE  (\E s \in Service : Contract!Unbalance(s)) \/ UNCHANGED Contract!vars
  <2>1. Addressed' = Addressed
    <3>1. \A f \in FipId : fip'[f].state = fip[f].state /\ fip'[f].svc = fip[f].svc
      BY <1>0, <1>1 DEF Settle, SettleError, Stranded, FipRecord
    <3> QED BY <3>1, Unmoved
  <2>2. /\ LiveLB(l) /\ lb'[l].svc = lb[l].svc
        /\ \A m \in LBId \ {l} : lb'[m] = lb[m]
    BY <1>0, <1>1 DEF Settle, SettleError, LiveLB, Pending, LBRecord
  <2>3. CASE LiveLB(l)'
    <3>1. \A m \in LBId : (LiveLB(m)' <=> LiveLB(m)) /\ lb'[m].svc = lb[m].svc
      BY <2>2, <2>3 DEF LiveLB
    <3> QED BY <2>1, <3>1, Unmoved, ContractCloud
  <2>4. CASE ~LiveLB(l)'
    <3>1. lb[l].status = "PENDING_DELETE"
      BY <1>0, <1>1, <2>4 DEF Settle, SettleError, LiveLB, LBRecord
    <3>2. lb[l].svc \in Service
      BY <1>0, <2>2 DEF CloudInv, OneLBEach
    <3>3. Balanced' = Balanced \ {lb[l].svc}
      <4>1. \A m \in LBId \ {l} : LiveLB(m) => lb[m].svc # lb[l].svc
        BY <1>0, <2>2 DEF CloudInv, OneLBEach
      <4> QED BY <2>2, <2>4, <4>1 DEF Balanced, LiveLB
    <3>4. lb[l].svc \notin Addressed
      BY <1>0, <2>2, <3>1 DEF CloudInv, FipsFollowLBs, OneLBEach, Addressed
    <3> QED BY <2>1, <3>2, <3>3, <3>4, ContractCloud
  <2> QED BY <2>3, <2>4
<1>2. ASSUME NEW L \in SUBSET LBId, lb' = Outdated(L), UNCHANGED fip
      PROVE  UNCHANGED Contract!vars
  <2>1. \A l \in LBId : lb'[l].svc = lb[l].svc /\ lb'[l].status = lb[l].status
    BY <1>0, <1>2 DEF Outdated, LBRecord
  <2>2. Balanced' = Balanced /\ Addressed' = Addressed
    BY <1>2, <2>1, Unmoved DEF LiveLB
  <2> QED BY <2>2, ContractCloud
<1> QED BY <1>1, <1>2

\* Users and the operator: a Service that goes or comes shows no address, and
\* the tenant may end.
LEMMA ContractUsers ==
  ASSUME ContractInv, UserStep, UNCHANGED cloudVars, [Next]_vars
  PROVE  \/ \E s \in Service : Contract!Withdraw(s)
         \/ Contract!EndTenant \/ UNCHANGED Contract!vars
<1>0. /\ svc \in [Service -> SvcObject]
      /\ \A s \in Service : svc[s].fin => svc[s].exists
      /\ UNCHANGED <<lb, fip>>
  BY DEF ContractInv, TypeInv, ApiTypeOK, ClaimInv, SeenFinalizer, cloudVars
<1>1. Balanced' = Balanced /\ Addressed' = Addressed
  BY <1>0 DEF Balanced, Addressed, LiveLB
<1>2. ASSUME NEW s \in Service, UNCHANGED <<ksc, hr>>,
             Claimed' = Claimed, Published' \in {Published, Published \ {s}}
      PROVE  Contract!Withdraw(s) \/ UNCHANGED Contract!vars
  <2>1. TenantLive' = TenantLive
    BY <1>2, Unmoved
  <2> QED BY <1>1, <1>2, <2>1 DEF Contract!Withdraw, Contract!vars,
                                  Claimed, Published, Balanced, Addressed
<1>3. ASSUME NEW s \in Service, NEW b \in BOOLEAN, CreateService(s, b)
      PROVE  Contract!Withdraw(s) \/ UNCHANGED Contract!vars
  <2>1. Claimed' = Claimed /\ Published' = Published \ {s}
    BY <1>0, <1>3 DEF CreateService, NoObject, SvcObject, Claimed, Published
  <2> QED BY <1>2, <1>3, <2>1 DEF CreateService
<1>4. ASSUME NEW s \in Service, ChangeType(s)
      PROVE  Contract!Withdraw(s) \/ UNCHANGED Contract!vars
  <2>1. Claimed' = Claimed /\ Published' = Published
    BY <1>0, <1>4 DEF ChangeType, SvcObject, Claimed, Published
  <2> QED BY <1>2, <1>4, <2>1 DEF ChangeType
<1>5. ASSUME NEW s \in Service, DeleteService(s)
      PROVE  Contract!Withdraw(s) \/ UNCHANGED Contract!vars
  <2>1. Claimed' = Claimed /\ Published' \in {Published, Published \ {s}}
    BY <1>0, <1>5 DEF DeleteService, NoObject, SvcObject, Claimed, Published
  <2> QED BY <1>2, <1>5, <2>1 DEF DeleteService
<1>6. ASSUME UNCHANGED svc
      PROVE  Contract!EndTenant \/ UNCHANGED Contract!vars
  <2>1. Claimed' = Claimed /\ Published' = Published
    BY <1>6, Unmoved
  <2>2. TenantLive' = FALSE \/ TenantLive' = TenantLive
    BY TenantOnlyDies DEF TenantLive
  <2> QED BY <1>1, <2>1, <2>2 DEF Contract!EndTenant, Contract!vars,
                                  Claimed, Published, Balanced, Addressed
<1> QED
  <2>1. EditKSC \/ DeleteKSC \/ DeleteHelmRelease \/ HelmReleaseGone => UNCHANGED svc
    BY DEF EditKSC, DeleteKSC, DeleteHelmRelease, HelmReleaseGone
  <2> QED BY <1>3, <1>4, <1>5, <1>6, <2>1 DEF UserStep

\* The reconciler implements ServiceContract, for any number of Services:
\* through every interleaving of its calls with edits, failures and Octavia's
\* delays a Service is claimed, balanced, addressed and published in that
\* order, and a live tenant's is released only when all of it was taken back.
THEOREM Implementation ==
  ASSUME ~StaleReads, "secret" \notin OperatorOps
  PROVE  Spec => ImplementsContract
<1>1. Init => Contract!Init
  <2> SUFFICES ASSUME Init PROVE Contract!Init
    OBVIOUS
  <2>1. TenantLive = TRUE
    BY DEF Init, ApiInit, TenantLive
  <2>2. Claimed = {} /\ Published = {}
    BY DEF Init, ApiInit, NoObject, Claimed, Published
  <2>3. Balanced = {} /\ Addressed = {}
    BY DEF Init, CloudInit, LiveLB, Balanced, Addressed
  <2> QED BY <2>1, <2>2, <2>3 DEF Contract!Init, Claimed, Published, Balanced, Addressed
<1>2. ContractInv /\ [Next]_vars => [Contract!Next]_(Contract!vars)
  <2> SUFFICES ASSUME ContractInv, [Next]_vars
               PROVE  Contract!Next \/ UNCHANGED Contract!vars
    OBVIOUS
  <2>1. ASSUME UNCHANGED <<lb, fip, svc, ksc, hr>>
        PROVE  UNCHANGED Contract!vars
    <3>1. Balanced' = Balanced /\ Addressed' = Addressed
      BY <2>1 DEF Balanced, Addressed, LiveLB
    <3> QED BY <2>1, <3>1, ContractCloud
  <2>2. CASE ReconcileStep
    <3>1. pc # "idle" => job.s \in Service
      BY DEF ContractInv, TypeInv, JobHolds
    <3>2. CASE AddFinalizer \/ PatchStatus \/ ClearStatusIngress \/ DropFinalizer
      <4>1. job.s \in Service
        BY <3>1, <3>2 DEF AddFinalizer, PatchStatus, ClearStatusIngress, DropFinalizer
      <4> QED BY <3>2, <4>1, ContractWrites DEF Contract!Next
    <3>3. CASE EnsureLB \/ EnsureFloatingIP \/ DeleteLBFloatingIP
               \/ SyncListenersAndMembers \/ DeleteLB
      <4>1. job.s \in Service
        BY <3>1, <3>3 DEF EnsureLB, EnsureFloatingIP, DeleteLBFloatingIP,
                          SyncListenersAndMembers, DeleteLB
      <4> QED BY <3>3, <4>1, ContractCalls DEF Contract!Next
    <3>4. \/ UNCHANGED <<lb, fip, svc, ksc, hr>>
          \/ AddFinalizer \/ PatchStatus \/ ClearStatusIngress \/ DropFinalizer
          \/ EnsureLB \/ EnsureFloatingIP \/ DeleteLBFloatingIP
          \/ SyncListenersAndMembers \/ DeleteLB
      BY <2>2 DEF ReconcileStep, Get, Resolve, HRDeleteGuard, WipeOperatorRules,
         EnsureClusterSecurityGroup, EnsureSGAttachedToWorkers,
         DetachDefaultSGFromWorkers, EnsureNodePortRules, CleanupRules,
         cloudVars, apiVars
    <3> QED BY <2>1, <3>2, <3>3, <3>4
  <2>3. CASE UserStep /\ UNCHANGED cloudVars
    BY <2>3, ContractUsers DEF Contract!Next
  <2>4. CASE CloudStep /\ UNCHANGED apiVars
    BY <2>4, ContractOctavia DEF CloudStep, apiVars, Contract!Next
  <2>5. CASE (\E s \in Service : EditPorts(s))
             \/ (ScaleWorkers /\ UNCHANGED <<svc, ksc, hr>>)
    <3>1. UNCHANGED <<svc, ksc, hr, fip>> /\ \E L \in SUBSET LBId : lb' = Outdated(L)
      BY <2>5 DEF EditPorts, LBsNamed, ScaleWorkers
    <3> QED BY <3>1, ContractOctavia
  <2>6. CASE ReconcileError \/ UNCHANGED vars
             \/ ((\E s \in Service : CacheSync(s)) /\ UNCHANGED cloudVars)
    BY <2>1, <2>6 DEF ReconcileError, CacheSync, vars, cloudVars, apiVars
  <2> QED BY <2>2, <2>3, <2>4, <2>5, <2>6 DEF Next
<1>3. TypeInv /\ CloudInv /\ PublishInv /\ ClaimInv /\ ReleaseInv => ContractInv
  BY DEF ContractInv
<1> QED
  BY <1>1, <1>2, <1>3, TypeInvariant, CloudInvariant, PublishInvariant,
     ReleaseInvariant, PTL DEF Spec, ImplementsContract, Contract!Spec
=============================================================================
