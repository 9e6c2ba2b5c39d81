----------------------- MODULE ServiceReconcilerProofs -----------------------
(***************************************************************************)
(* Facts about the steps of ServiceReconciler and of the cloud it works    *)
(* on, for any system the reconciler is a part of: what its calls preserve *)
(* of the types, of the ties between load balancers and floating IPs       *)
(* (CloudInv) and of what the finalizer guards (ClaimInv).                 *)
(***************************************************************************)
EXTENDS ServiceReconciler, TLAPS

USE DEF NoPort

(***************************************************************************)
(* Type correctness.  The reconciler's call stack holds what its next call *)
(* needs: a Service, and from EnsureLB on a load balancer id.              *)
(***************************************************************************)
JobHolds ==
  /\ pc # "idle" => job.s \in Service
  /\ pc \in {"sync", "fip", "cLB"} => job.lb \in LBId

TypeInv == CloudTypeOK /\ ApiTypeOK /\ SRTypeOK /\ JobHolds

\* The values an ingress can take are addresses.
LEMMA AddressTypes ==
  /\ NoAddr \in Address
  /\ \A f \in FipId : FipAddr(f) \in Address
  /\ \A l \in LBId : VipAddr(l) \in Address
BY DEF Address

\* Objects and call stacks the actions build are of their types.
LEMMA RecordTypes ==
  /\ NoObject \in SvcObject
  /\ NoConfig \in Config
  /\ NoJob \in Job
<1>1. NoObject \in SvcObject
  BY AddressTypes DEF NoObject, SvcObject
<1>2. NoConfig \in Config
  BY DEF NoConfig, Config
<1>3. NoJob \in Job
  BY <1>1, <1>2, AddressTypes DEF NoJob, Job
<1> QED BY <1>1, <1>2, <1>3

-----------------------------------------------------------------------------
(***************************************************************************)
(* What the cloud's and the apiserver's operations preserve.               *)
(***************************************************************************)
LBRecord == [svc: Service \cup {NoSvc}, status: LBStatus, todo: 0..SyncWork]
FipRecord == [svc: Service \cup {NoSvc}, state: {"unused", "allocated", "gone"},
              port: LBId \cup {NoPort}]

\* A step that leaves the cloud alone leaves it well typed; ...
LEMMA CloudStays == CloudTypeOK /\ UNCHANGED cloudVars => CloudTypeOK'
BY DEF CloudTypeOK, cloudVars

\* ... and so does one that leaves the Kubernetes objects alone.
LEMMA ApiStays == ApiTypeOK /\ UNCHANGED apiVars => ApiTypeOK'
BY DEF ApiTypeOK, apiVars

\* What the calls do to load balancers keeps them well typed, ...
LEMMA LBTypes ==
  ASSUME lb \in [LBId -> LBRecord]
  PROVE  /\ \A l \in LBId, s \in Service : CreateLB(l, s) => lb' \in [LBId -> LBRecord]
         /\ \A l \in LBId, st \in LBStatus :
              [lb EXCEPT ![l].status = st] \in [LBId -> LBRecord]
         /\ \A L \in SUBSET LBId : Outdated(L) \in [LBId -> LBRecord]
<1>1. SyncWork \in 0..SyncWork
  BY OpenStackAssumption
<1>2. "PENDING_CREATE" \in LBStatus
  BY DEF LBStatus, Pending
<1> QED BY <1>1, <1>2 DEF CreateLB, Outdated, LBRecord

\* ... what they do to floating IPs, ...
LEMMA FipTypes ==
  ASSUME fip \in [FipId -> FipRecord]
  PROVE  /\ \A f \in FipId, s \in Service, l \in LBId :
              CreateFip(f, s, l) => fip' \in [FipId -> FipRecord]
         /\ \A F \in SUBSET FipId : Released(F) \in [FipId -> FipRecord]
         /\ \A l \in LBId : Stranded(l) \in [FipId -> FipRecord]
<1>1. ASSUME NEW f \in FipId, NEW s \in Service, NEW l \in LBId, CreateFip(f, s, l)
      PROVE  fip' \in [FipId -> FipRecord]
  BY <1>1 DEF CreateFip, FipRecord
<1>2. ASSUME NEW F \in SUBSET FipId
      PROVE  Released(F) \in [FipId -> FipRecord]
  <2>1. \A f \in FipId : [fip[f] EXCEPT !.state = "gone", !.port = NoPort] \in FipRecord
    BY DEF FipRecord
  <2> QED BY <2>1 DEF Released
<1>3. ASSUME NEW l \in LBId
      PROVE  Stranded(l) \in [FipId -> FipRecord]
  <2>1. \A f \in FipId : [fip[f] EXCEPT !.port = NoPort] \in FipRecord
    BY DEF FipRecord
  <2> QED BY <2>1 DEF Stranded
<1> QED BY <1>1, <1>2, <1>3

\* ... and what the patches and edits do to Services.
LEMMA SvcTypes ==
  ASSUME svc \in [Service -> SvcObject], NEW s \in Service
  PROVE  /\ SetFinalizer(s) => svc' \in [Service -> SvcObject]
         /\ RemoveFinalizer(s) => svc' \in [Service -> SvcObject]
         /\ \A a \in Address : SetIngress(s, a) => svc' \in [Service -> SvcObject]
         /\ [svc[s] EXCEPT !.deleting = TRUE] \in SvcObject
         /\ [svc EXCEPT ![s].lbType = ~svc[s].lbType] \in [Service -> SvcObject]
<1>1. /\ [svc[s] EXCEPT !.fin = TRUE] \in SvcObject
      /\ [svc[s] EXCEPT !.fin = FALSE] \in SvcObject
      /\ [svc[s] EXCEPT !.deleting = TRUE] \in SvcObject
      /\ [svc[s] EXCEPT !.lbType = ~svc[s].lbType] \in SvcObject
  BY DEF SvcObject
<1>2. \A a \in Address : [svc[s] EXCEPT !.ingress = a] \in SvcObject
  BY DEF SvcObject
<1>3. SetFinalizer(s) => svc' \in [Service -> SvcObject]
  BY <1>1 DEF SetFinalizer
<1>4. RemoveFinalizer(s) => svc' \in [Service -> SvcObject]
  BY <1>1, RecordTypes DEF RemoveFinalizer
<1>5. \A a \in Address : SetIngress(s, a) => svc' \in [Service -> SvcObject]
  BY <1>2 DEF SetIngress
<1>6. [svc EXCEPT ![s].lbType = ~svc[s].lbType] \in [Service -> SvcObject]
  BY <1>1
<1> QED BY <1>1, <1>3, <1>4, <1>5, <1>6

\* A reconcile that returns holds nothing.
LEMMA Returns == SRTypeOK /\ Return => SRTypeOK' /\ JobHolds'
BY RecordTypes DEF SRTypeOK, Return, JobHolds, PC

\* A reconcile that proceeds holds what its next call needs.
LEMMA Proceeds ==
  ASSUME SRTypeOK, NEW p \in PC, NEW j \in Job, Proceed(p, j),
         j.s \in Service, p \in {"sync", "fip", "cLB"} => j.lb \in LBId
  PROVE  SRTypeOK' /\ JobHolds'
BY DEF SRTypeOK, Proceed, JobHolds

\* What a call adds to the call stack leaves the rest of it as it was.
LEMMA JobTypes ==
  ASSUME job \in Job
  PROVE  /\ \A l \in LBId : /\ [job EXCEPT !.lb = l] \in Job
                            /\ [job EXCEPT !.lb = l].s = job.s
                            /\ [job EXCEPT !.lb = l].lb = l
         /\ \A b \in BOOLEAN : /\ [job EXCEPT !.members = b] \in Job
                               /\ [job EXCEPT !.members = b].s = job.s
                               /\ [job EXCEPT !.members = b].lb = job.lb
         /\ \A a \in Address : /\ [job EXCEPT !.addr = a] \in Job
                               /\ [job EXCEPT !.addr = a].s = job.s
         /\ \A c \in Config : /\ [job EXCEPT !.cfg = c] \in Job
                              /\ [job EXCEPT !.cfg = c].s = job.s
BY DEF Job

-----------------------------------------------------------------------------
(***************************************************************************)
(* The reconciler's steps preserve TypeInv, and so do those beside it.      *)
(***************************************************************************)
\* Every call of the reconciler preserves types.
LEMMA TypeReconcile == TypeInv /\ ReconcileStep => TypeInv'
<1> SUFFICES ASSUME CloudTypeOK, ApiTypeOK, SRTypeOK, JobHolds, ReconcileStep
             PROVE  CloudTypeOK' /\ ApiTypeOK' /\ SRTypeOK' /\ JobHolds'
  BY DEF TypeInv
<1>1. ASSUME NEW s \in Service, Get(s)
      PROVE  CloudTypeOK' /\ ApiTypeOK' /\ SRTypeOK' /\ JobHolds'
  <2>1. Read(s) \in SvcObject
    BY DEF Read, ApiTypeOK
  <2>2. [NoJob EXCEPT !.s = s, !.snap = Read(s)] \in Job
    BY <2>1, RecordTypes DEF Job
  <2>3. SRTypeOK' /\ JobHolds'
    BY <1>1, <2>2, RecordTypes DEF Get, SRTypeOK, JobHolds, PC, NoJob
  <2> QED BY <1>1, <2>3, CloudStays, ApiStays DEF Get
<1>2. CASE Resolve
  <2>1. ResolvedConfig \in Config
    BY DEF ResolvedConfig, Config, ApiTypeOK, KSC
  <2>2. SRTypeOK' /\ JobHolds'
    BY <1>2, <2>1, JobTypes, Proceeds DEF Resolve, Goto, SRTypeOK, JobHolds, PC
  <2> QED BY <1>2, <2>2, CloudStays, ApiStays DEF Resolve
<1>3. CASE HRDeleteGuard
  <2>1. Dispatch \in PC \ {"sync", "fip", "cLB"}
    BY DEF Dispatch, PC
  <2>2. SRTypeOK' /\ JobHolds'
    BY <1>3, <2>1, Proceeds, Returns DEF HRDeleteGuard, Goto, SRTypeOK, JobHolds, PC
  <2> QED BY <1>3, <2>2, CloudStays, ApiStays DEF HRDeleteGuard
<1>4. CASE WipeOperatorRules
  <2>1. CloudTypeOK'
    BY <1>4 DEF WipeOperatorRules, CloudTypeOK
  <2>2. SRTypeOK' /\ JobHolds'
    BY <1>4, Proceeds DEF WipeOperatorRules, Goto, SRTypeOK, JobHolds, PC
  <2> QED BY <1>4, <2>1, <2>2, ApiStays DEF WipeOperatorRules
<1>5. CASE AddFinalizer
  <2>1. ApiTypeOK'
    BY <1>5, SvcTypes DEF AddFinalizer, ApiTypeOK, JobHolds
  <2> QED BY <1>5, <2>1, CloudStays, Returns DEF AddFinalizer
<1>6. CASE EnsureLB
  <2>1. CloudTypeOK'
    <3>1. lb \in [LBId -> LBRecord] /\ job.s \in Service
      BY <1>6 DEF EnsureLB, CloudTypeOK, LBRecord, JobHolds
    <3>2. lb' \in [LBId -> LBRecord]
      BY <1>6, <3>1, LBTypes DEF EnsureLB
    <3> QED BY <1>6, <3>2 DEF EnsureLB, CloudTypeOK, LBRecord
  <2>2. SRTypeOK' /\ JobHolds'
    BY <1>6, JobTypes, Proceeds, Returns DEF EnsureLB, LBsNamed, SRTypeOK, JobHolds, PC
  <2> QED BY <1>6, <2>1, <2>2, ApiStays DEF EnsureLB
<1>7. CASE SyncListenersAndMembers
  <2>1. CloudTypeOK'
    <3>1. lb \in [LBId -> LBRecord] /\ job.lb \in LBId
      BY <1>7 DEF SyncListenersAndMembers, CloudTypeOK, LBRecord, JobHolds
    <3>2. lb[job.lb].todo > 0 =>
            [lb[job.lb] EXCEPT !.status = "PENDING_UPDATE", !.todo = lb[job.lb].todo - 1]
              \in LBRecord
      <4>1. lb[job.lb] \in LBRecord /\ "PENDING_UPDATE" \in LBStatus
        BY <3>1 DEF LBStatus, Pending
      <4>2. lb[job.lb].todo \in 0..SyncWork
        BY <4>1 DEF LBRecord
      <4>3. lb[job.lb].todo > 0 => lb[job.lb].todo - 1 \in 0..SyncWork
        BY <4>2, OpenStackAssumption
      <4> QED BY <4>1, <4>3 DEF LBRecord
    <3>3. lb' \in [LBId -> LBRecord]
      BY <1>7, <3>1, <3>2 DEF SyncListenersAndMembers
    <3> QED BY <1>7, <3>3 DEF SyncListenersAndMembers, CloudTypeOK, LBRecord
  <2>2. workers \in BOOLEAN
    BY DEF CloudTypeOK
  <2>3. SRTypeOK' /\ JobHolds'
    BY <1>7, <2>2, JobTypes, Proceeds, Returns
       DEF SyncListenersAndMembers, SRTypeOK, JobHolds, PC
  <2> QED BY <1>7, <2>1, <2>3, ApiStays DEF SyncListenersAndMembers
<1>8. CASE EnsureFloatingIP
  <2>1. CloudTypeOK'
    <3>1. fip \in [FipId -> FipRecord] /\ job.s \in Service /\ job.lb \in LBId
      BY <1>8 DEF EnsureFloatingIP, CloudTypeOK, FipRecord, JobHolds
    <3>2. fip' \in [FipId -> FipRecord]
      BY <1>8, <3>1, FipTypes DEF EnsureFloatingIP
    <3> QED BY <1>8, <3>2 DEF EnsureFloatingIP, CloudTypeOK, FipRecord
  <2>2. SRTypeOK' /\ JobHolds'
    BY <1>8, AddressTypes, JobTypes, Proceeds, Returns
       DEF EnsureFloatingIP, FipsOn, SRTypeOK, JobHolds, PC
  <2> QED BY <1>8, <2>1, <2>2, ApiStays DEF EnsureFloatingIP
<1>9. CASE EnsureClusterSecurityGroup
  <2>1. CloudTypeOK'
    BY <1>9 DEF EnsureClusterSecurityGroup, CloudTypeOK
  <2>2. SRTypeOK' /\ JobHolds'
    BY <1>9, Proceeds DEF EnsureClusterSecurityGroup, Goto, SRTypeOK, JobHolds, PC
  <2> QED BY <1>9, <2>1, <2>2, ApiStays DEF EnsureClusterSecurityGroup
<1>10. CASE EnsureSGAttachedToWorkers
  <2>1. CloudTypeOK'
    BY <1>10 DEF EnsureSGAttachedToWorkers, CloudTypeOK
  <2>2. SRTypeOK' /\ JobHolds'
    BY <1>10, Proceeds, Returns DEF EnsureSGAttachedToWorkers, Goto, SRTypeOK, JobHolds, PC
  <2> QED BY <1>10, <2>1, <2>2, ApiStays DEF EnsureSGAttachedToWorkers
<1>11. CASE DetachDefaultSGFromWorkers
  <2>1. CloudTypeOK'
    BY <1>11 DEF DetachDefaultSGFromWorkers, CloudTypeOK
  <2>2. SRTypeOK' /\ JobHolds'
    BY <1>11, Proceeds, Returns DEF DetachDefaultSGFromWorkers, Goto, SRTypeOK, JobHolds, PC
  <2> QED BY <1>11, <2>1, <2>2, ApiStays DEF DetachDefaultSGFromWorkers
<1>12. CASE EnsureNodePortRules
  <2>1. CloudTypeOK'
    BY <1>12 DEF EnsureNodePortRules, CloudTypeOK, JobHolds, WorkerSG, Group
  <2>2. SRTypeOK' /\ JobHolds'
    BY <1>12, Proceeds, Returns DEF EnsureNodePortRules, Goto, SRTypeOK, JobHolds, PC
  <2> QED BY <1>12, <2>1, <2>2, ApiStays DEF EnsureNodePortRules
<1>13. CASE PatchStatus
  <2>1. job.s \in Service /\ job.addr \in Address
    BY <1>13 DEF PatchStatus, JobHolds, SRTypeOK, Job
  <2>2. ApiTypeOK'
    BY <1>13, <2>1, SvcTypes DEF PatchStatus, ApiTypeOK
  <2> QED BY <1>13, <2>2, CloudStays, Returns DEF PatchStatus
<1>14. CASE CleanupRules
  <2>1. CloudTypeOK'
    BY <1>14 DEF CleanupRules, CloudTypeOK
  <2>2. SRTypeOK' /\ JobHolds'
    BY <1>14, Proceeds DEF CleanupRules, Goto, SRTypeOK, JobHolds, PC
  <2> QED BY <1>14, <2>1, <2>2, ApiStays DEF CleanupRules
<1>15. CASE DeleteLBFloatingIP
  <2>1. CloudTypeOK'
    <3>1. fip \in [FipId -> FipRecord]
      BY DEF CloudTypeOK, FipRecord
    <3>2. fip' \in [FipId -> FipRecord]
      BY <1>15, <3>1, FipTypes DEF DeleteLBFloatingIP, FipsOn
    <3> QED BY <1>15, <3>2 DEF DeleteLBFloatingIP, CloudTypeOK, FipRecord
  <2>2. SRTypeOK' /\ JobHolds'
    BY <1>15, JobTypes, Proceeds, Returns
       DEF DeleteLBFloatingIP, Goto, LBsNamed, SRTypeOK, JobHolds, PC
  <2> QED BY <1>15, <2>1, <2>2, ApiStays DEF DeleteLBFloatingIP
<1>16. CASE DeleteLB
  <2>1. CloudTypeOK'
    <3>1. lb \in [LBId -> LBRecord] /\ job.lb \in LBId /\ "PENDING_DELETE" \in LBStatus
      BY <1>16 DEF DeleteLB, CloudTypeOK, LBRecord, JobHolds, LBStatus, Pending
    <3>2. lb' \in [LBId -> LBRecord]
      BY <1>16, <3>1, LBTypes DEF DeleteLB, RequestDelete
    <3> QED BY <1>16, <3>2 DEF DeleteLB, CloudTypeOK, LBRecord
  <2> QED BY <1>16, <2>1, ApiStays, Returns DEF DeleteLB
<1>17. CASE ClearStatusIngress
  <2>1. job.s \in Service
    BY <1>17 DEF ClearStatusIngress, JobHolds
  <2>2. ApiTypeOK'
    BY <1>17, <2>1, SvcTypes, AddressTypes DEF ClearStatusIngress, ApiTypeOK
  <2>3. SRTypeOK' /\ JobHolds'
    BY <1>17, Proceeds DEF ClearStatusIngress, Goto, SRTypeOK, JobHolds, PC
  <2> QED BY <1>17, <2>2, <2>3, CloudStays DEF ClearStatusIngress
<1>18. CASE DropFinalizer
  <2>1. job.s \in Service
    BY <1>18 DEF DropFinalizer, JobHolds
  <2>2. ApiTypeOK'
    BY <1>18, <2>1, SvcTypes DEF DropFinalizer, ApiTypeOK
  <2> QED BY <1>18, <2>2, CloudStays, Returns DEF DropFinalizer
<1> QED
  BY <1>1, <1>2, <1>3, <1>4, <1>5, <1>6, <1>7, <1>8, <1>9, <1>10, <1>11, <1>12,
     <1>13, <1>14, <1>15, <1>16, <1>17, <1>18 DEF ReconcileStep

\* An empty project and an idle reconciler are well typed.
LEMMA StartTypes ==
  /\ CloudInit => CloudTypeOK
  /\ SRInit => SRTypeOK /\ JobHolds
<1>1. ASSUME CloudInit PROVE CloudTypeOK
  <2>1. lb \in [LBId -> [svc: Service \cup {NoSvc}, status: LBStatus,
                         todo: 0..SyncWork]]
    <3>1. 0 \in 0..SyncWork /\ "unused" \in LBStatus
      BY OpenStackAssumption DEF LBStatus
    <3> QED BY <1>1, <3>1 DEF CloudInit
  <2>2. fip \in [FipId -> [svc: Service \cup {NoSvc},
                           state: {"unused", "allocated", "gone"},
                           port: LBId \cup {NoPort}]]
    BY <1>1 DEF CloudInit
  <2>3. clusterSG \in BOOLEAN /\ rules \subseteq Group \X Service
    BY <1>1 DEF CloudInit
  <2>4. workers \in BOOLEAN /\ portSGs \subseteq {"default", "cluster"}
    BY <1>1 DEF CloudInit
  <2> QED BY <2>1, <2>2, <2>3, <2>4 DEF CloudTypeOK
<1>2. SRInit => SRTypeOK /\ JobHolds
  BY RecordTypes DEF SRInit, SRTypeOK, PC, JobHolds
<1> QED BY <1>1, <1>2

\* Octavia's own steps preserve types, ...
LEMMA SettleTypes ==
  ASSUME CloudTypeOK, NEW l \in LBId, Settle(l) \/ SettleError(l)
  PROVE  CloudTypeOK'
<1>0. lb \in [LBId -> LBRecord] /\ fip \in [FipId -> FipRecord]
  BY DEF CloudTypeOK, LBRecord, FipRecord
<1>1. lb' \in [LBId -> LBRecord]
  <2>1. {"gone", "ACTIVE", "ERROR"} \subseteq LBStatus
    BY DEF LBStatus
  <2> QED BY <1>0, <2>1, LBTypes DEF Settle, SettleError
<1>2. fip' \in [FipId -> FipRecord]
  BY <1>0, FipTypes DEF Settle, SettleError
<1> QED BY <1>1, <1>2 DEF Settle, SettleError, CloudTypeOK, LBRecord, FipRecord

\* ... and so do the edits of users and operators, ...
LEMMA EditTypes ==
  ASSUME ApiTypeOK
  PROVE  /\ Edit => ops' \in 0..MaxOps
         /\ \A s \in Service :
              (\E t \in BOOLEAN : CreateService(s, t)) \/ ChangeType(s) \/ DeleteService(s)
                => ApiTypeOK'
         /\ EditKSC \/ DeleteKSC \/ DeleteHelmRelease => ApiTypeOK'
<1>1. Edit => ops' \in 0..MaxOps
  BY ControlPlaneAssumption DEF Edit, ApiTypeOK
<1>2. ASSUME NEW s \in Service, NEW t \in BOOLEAN, CreateService(s, t)
      PROVE  ApiTypeOK'
  <2>1. [NoObject EXCEPT !.exists = TRUE, !.lbType = t] \in SvcObject
    BY RecordTypes DEF SvcObject
  <2> QED BY <1>1, <1>2, <2>1 DEF CreateService, ApiTypeOK
<1>3. ASSUME NEW s \in Service, ChangeType(s) \/ DeleteService(s)
      PROVE  ApiTypeOK'
  <2>1. svc \in [Service -> SvcObject]
    BY DEF ApiTypeOK
  <2>2. ChangeType(s) => svc' \in [Service -> SvcObject]
    BY <2>1, SvcTypes DEF ChangeType
  <2>3. DeleteService(s) => svc' \in [Service -> SvcObject]
    BY <2>1, SvcTypes, RecordTypes DEF DeleteService
  <2> QED BY <1>1, <1>3, <2>2, <2>3 DEF ChangeType, DeleteService, ApiTypeOK
<1>4. EditKSC \/ DeleteKSC => ApiTypeOK'
  <2>1. EditKSC \/ DeleteKSC => ksc' \in KSC
    BY DEF EditKSC, DeleteKSC, ApiTypeOK, KSC
  <2> QED BY <1>1, <2>1 DEF EditKSC, DeleteKSC, ApiTypeOK
<1>5. DeleteHelmRelease => ApiTypeOK'
  BY <1>1 DEF DeleteHelmRelease, ApiTypeOK
<1> QED BY <1>1, <1>2, <1>3, <1>4, <1>5

\* ... and a reconcile that fails.
LEMMA ErrorTypes == TypeInv /\ ReconcileError => TypeInv'
<1>1. SRTypeOK /\ ReconcileError => SRTypeOK' /\ JobHolds'
  BY RecordTypes DEF ReconcileError, SRTypeOK, JobHolds, PC
<1> QED BY <1>1, CloudStays, ApiStays DEF TypeInv, ReconcileError

-----------------------------------------------------------------------------
(***************************************************************************)
(* CloudInv: the load balancers and floating IPs stay one to a Service,    *)
(* because one worker looks them up before it creates.                     *)
(***************************************************************************)
\* A live load balancer has an owner, and no other has the same.
OneLBEach ==
  /\ \A l \in LBId : LiveLB(l) => lb[l].svc \in Service
  /\ \A l, m \in LBId : LiveLB(l) /\ LiveLB(m) /\ lb[l].svc = lb[m].svc => l = m

\* An allocated floating IP is bound to a load balancer of the same Service
\* whose delete was not requested, ...
FipsFollowLBs ==
  \A f \in FipId : fip[f].state = "allocated" =>
    /\ fip[f].port \in LBId
    /\ LiveLB(fip[f].port)
    /\ lb[fip[f].port].svc = fip[f].svc
    /\ lb[fip[f].port].status # "PENDING_DELETE"

\* ... and shares it with no other.
OneFipEach ==
  \A f, g \in FipId :
    fip[f].state = "allocated" /\ fip[g].state = "allocated"
      /\ fip[f].port = fip[g].port => f = g

\* What the reconciler found out about its load balancer stays true.
JobLB ==
  /\ pc \in {"sync", "fip"} => lb[job.lb].svc = job.s /\ lb[job.lb].status = "ACTIVE"
  /\ pc = "cLB" => FipsOn(job.lb) = {}

CloudInv == OneLBEach /\ FipsFollowLBs /\ OneFipEach /\ JobLB

\* An empty project satisfies CloudInv.
LEMMA CloudInvInit == CloudInit /\ SRInit => CloudInv
BY DEF CloudInit, SRInit, CloudInv, OneLBEach, FipsFollowLBs, OneFipEach, JobLB, LiveLB

\* Steps that leave owner and status of the load balancers alone.
LEMMA CloudInvSame ==
  ASSUME TypeInv, CloudInv, UNCHANGED fip,
         \A l \in LBId : lb'[l].svc = lb[l].svc /\ lb'[l].status = lb[l].status,
         UNCHANGED <<pc, job>> \/ pc' \notin {"sync", "fip", "cLB"}
  PROVE  CloudInv'
<1>1. \A l \in LBId : LiveLB(l)' <=> LiveLB(l)
  BY DEF LiveLB
<1>2. OneLBEach' /\ FipsFollowLBs' /\ OneFipEach'
  BY <1>1 DEF CloudInv, OneLBEach, FipsFollowLBs, OneFipEach
<1>3. JobLB'
  BY DEF CloudInv, JobLB, TypeInv, JobHolds, FipsOn
<1> QED BY <1>2, <1>3 DEF CloudInv

\* A load balancer whose status alone changes, staying live and not being
\* deleted, or having no floating IP.
LEMMA CloudInvStatus ==
  ASSUME TypeInv, CloudInv, NEW l \in LBId, NEW st \in LBStatus,
         \A f \in FipId : IF fip[f].state = "allocated" THEN fip'[f] = fip[f]
                                                       ELSE fip'[f].state # "allocated",
         NEW n \in 0..SyncWork,
         lb' = [lb EXCEPT ![l].status = st, ![l].todo = n],
         LiveLB(l), st # "unused",
         st \in {"PENDING_DELETE", "gone"} => FipsOn(l) = {},
         \/ pc' \notin {"sync", "fip", "cLB"}
         \/ UNCHANGED <<pc, job>> /\ lb[l].status # "ACTIVE"
  PROVE  CloudInv'
<1>1. /\ lb'[l].svc = lb[l].svc /\ lb'[l].status = st
      /\ \A m \in LBId \ {l} : lb'[m] = lb[m]
  BY DEF TypeInv, CloudTypeOK
<1>2. \A m \in LBId : lb'[m].svc = lb[m].svc /\ (LiveLB(m)' => LiveLB(m))
  BY <1>1 DEF LiveLB
<1>3. OneLBEach'
  BY <1>2 DEF CloudInv, OneLBEach
<1>4. FipsFollowLBs'
  <2> SUFFICES ASSUME NEW f \in FipId, fip[f].state = "allocated"
               PROVE  /\ fip[f].port \in LBId
                      /\ lb'[fip[f].port].status \notin {"unused", "gone"}
                      /\ lb'[fip[f].port].svc = fip[f].svc
                      /\ lb'[fip[f].port].status # "PENDING_DELETE"
    BY DEF FipsFollowLBs, LiveLB
  <2>1. /\ fip[f].port \in LBId
        /\ LiveLB(fip[f].port)
        /\ lb[fip[f].port].svc = fip[f].svc
        /\ lb[fip[f].port].status # "PENDING_DELETE"
    BY DEF CloudInv, FipsFollowLBs
  <2>2. CASE fip[f].port = l
    <3>1. st \notin {"PENDING_DELETE", "gone"}
      BY <2>2 DEF FipsOn
    <3> QED BY <1>1, <2>1, <2>2, <3>1 DEF LiveLB
  <2>3. CASE fip[f].port # l
    BY <1>1, <2>1, <2>3 DEF LiveLB
  <2> QED BY <2>2, <2>3
<1>5. OneFipEach'
  BY DEF CloudInv, OneFipEach
<1>6. JobLB'
  <2>1. CASE pc' \notin {"sync", "fip", "cLB"}
    BY <2>1 DEF JobLB
  <2>2. CASE UNCHANGED <<pc, job>> /\ lb[l].status # "ACTIVE"
    <3>1. pc \in {"sync", "fip"} => job.lb \in LBId \ {l}
      BY <2>2 DEF CloudInv, JobLB, TypeInv, JobHolds
    <3>2. FipsOn(job.lb)' = FipsOn(job.lb)
      BY <2>2 DEF FipsOn
    <3> QED BY <1>1, <2>2, <3>1, <3>2 DEF CloudInv, JobLB
  <2> QED BY <2>1, <2>2
<1> QED BY <1>3, <1>4, <1>5, <1>6 DEF CloudInv

\* Steps that release floating IPs.
LEMMA CloudInvRelease ==
  ASSUME TypeInv, CloudInv, UNCHANGED lb, NEW F \in SUBSET FipId, fip' = Released(F),
         pc' \notin {"sync", "fip"}, pc' = "cLB" => FipsOn(job'.lb) \subseteq F
  PROVE  CloudInv'
<1>1. \A f \in FipId : fip'[f].state = "allocated" => f \notin F /\ fip'[f] = fip[f]
  BY DEF Released, TypeInv, CloudTypeOK
<1>2. OneLBEach' /\ FipsFollowLBs' /\ OneFipEach'
  BY <1>1 DEF CloudInv, OneLBEach, FipsFollowLBs, OneFipEach, LiveLB
<1>3. JobLB'
  BY <1>1 DEF CloudInv, JobLB, FipsOn
<1> QED BY <1>2, <1>3 DEF CloudInv

\* EnsureLB creates a load balancer only for a Service that has none.
LEMMA CloudInvEnsureLB == TypeInv /\ CloudInv /\ EnsureLB => CloudInv'
<1> SUFFICES ASSUME TypeInv, CloudInv, EnsureLB PROVE CloudInv'
  OBVIOUS
<1>1. job.s \in Service /\ lb \in [LBId -> LBRecord] /\ UNCHANGED fip
  BY DEF EnsureLB, TypeInv, CloudTypeOK, LBRecord, JobHolds
<1>2. CASE /\ LBsNamed(job.s) = {}
           /\ \E l \in LBId : FreshLB(l) /\ CreateLB(l, job.s)
           /\ Return
  <2> PICK l \in LBId : FreshLB(l) /\ CreateLB(l, job.s)
    BY <1>2
  <2>1. /\ lb'[l].svc = job.s /\ lb'[l].status = "PENDING_CREATE"
        /\ \A m \in LBId \ {l} : lb'[m] = lb[m]
        /\ lb[l].status = "unused"
    BY <1>1 DEF CreateLB, FreshLB
  <2>2. \A m \in LBId : LiveLB(m) => lb[m].svc # job.s
    BY <1>2 DEF LBsNamed
  <2>3. OneLBEach'
    BY <1>1, <2>1, <2>2 DEF CloudInv, OneLBEach, LiveLB
  <2>4. FipsFollowLBs' /\ OneFipEach'
    BY <1>1, <2>1 DEF CloudInv, FipsFollowLBs, OneFipEach, LiveLB
  <2>5. JobLB'
    BY <1>2 DEF Return, JobLB
  <2> QED BY <2>3, <2>4, <2>5 DEF CloudInv
<1>3. ASSUME NEW l \in LBsNamed(job.s), UNCHANGED lb,
             IF lb[l].status = "ACTIVE" THEN Proceed("sync", [job EXCEPT !.lb = l]) ELSE Return
      PROVE  CloudInv'
  <2>1. CASE lb[l].status = "ACTIVE"
    <3>1. job \in Job /\ l \in LBId /\ lb[l].svc = job.s
      BY DEF TypeInv, SRTypeOK, LBsNamed
    <3>2. pc' = "sync" /\ job'.lb = l /\ job'.s = job.s
      BY <1>3, <2>1, <3>1, JobTypes DEF Proceed
    <3>3. JobLB'
      BY <1>3, <2>1, <3>1, <3>2 DEF JobLB
    <3> QED BY <1>1, <1>3, <3>3 DEF CloudInv, OneLBEach, FipsFollowLBs, OneFipEach, LiveLB
  <2>2. CASE lb[l].status # "ACTIVE"
    BY <1>1, <1>3, <2>2, CloudInvSame DEF Return
  <2> QED BY <2>1, <2>2
<1> QED BY <1>2, <1>3 DEF EnsureLB

\* EnsureFloatingIP binds a new floating IP to the load balancer it found.
LEMMA CloudInvEnsureFip == TypeInv /\ CloudInv /\ EnsureFloatingIP => CloudInv'
<1> SUFFICES ASSUME TypeInv, CloudInv, EnsureFloatingIP PROVE CloudInv'
  OBVIOUS
<1>1. /\ job.s \in Service /\ job.lb \in LBId /\ fip \in [FipId -> FipRecord]
      /\ UNCHANGED lb /\ pc = "fip"
  BY DEF EnsureFloatingIP, TypeInv, CloudTypeOK, FipRecord, JobHolds
<1>2. pc' \in {"sg", "idle"}
  BY DEF EnsureFloatingIP, Proceed, Return
<1>3. CASE UNCHANGED fip
  BY <1>1, <1>2, <1>3, CloudInvSame
<1>4. ASSUME NEW f \in FipId, FipsOn(job.lb) = {}, CreateFip(f, job.s, job.lb)
      PROVE  CloudInv'
  <2>1. /\ fip'[f].svc = job.s /\ fip'[f].port = job.lb
        /\ \A g \in FipId \ {f} : fip'[g] = fip[g]
    BY <1>1, <1>4 DEF CreateFip
  <2>2. lb[job.lb].svc = job.s /\ lb[job.lb].status = "ACTIVE"
    BY <1>1 DEF CloudInv, JobLB
  <2>3. FipsFollowLBs'
    BY <1>1, <2>1, <2>2 DEF CloudInv, FipsFollowLBs, LiveLB
  <2>4. OneFipEach'
    BY <1>4, <2>1 DEF CloudInv, OneFipEach, FipsOn
  <2>5. OneLBEach' /\ JobLB'
    BY <1>1, <1>2 DEF CloudInv, OneLBEach, LiveLB, JobLB
  <2> QED BY <2>3, <2>4, <2>5 DEF CloudInv
<1> QED BY <1>3, <1>4 DEF EnsureFloatingIP

\* Which of the reconciler's steps touch load balancers and floating IPs.
LEMMA QuietSteps ==
  ReconcileStep =>
    \/ UNCHANGED <<lb, fip>> /\ pc' \notin {"sync", "fip", "cLB"}
    \/ EnsureLB \/ SyncListenersAndMembers \/ EnsureFloatingIP
    \/ DeleteLBFloatingIP \/ DeleteLB
<1> USE DEF Goto, Proceed, Return, cloudVars
<1>1. ASSUME NEW s \in Service, Get(s)
      PROVE  UNCHANGED <<lb, fip>> /\ pc' \notin {"sync", "fip", "cLB"}
  BY <1>1 DEF Get
<1>2. CASE Resolve
  BY <1>2 DEF Resolve
<1>3. CASE HRDeleteGuard
  <2>1. Dispatch \in {"cRules", "idle", "ensureLB", "addFin"}
    BY DEF Dispatch
  <2> QED BY <1>3, <2>1 DEF HRDeleteGuard
<1>4. CASE WipeOperatorRules \/ AddFinalizer \/ PatchStatus
  BY <1>4 DEF WipeOperatorRules, AddFinalizer, PatchStatus
<1>5. CASE EnsureClusterSecurityGroup \/ EnsureSGAttachedToWorkers
  BY <1>5 DEF EnsureClusterSecurityGroup, EnsureSGAttachedToWorkers
<1>6. CASE DetachDefaultSGFromWorkers \/ EnsureNodePortRules
  BY <1>6 DEF DetachDefaultSGFromWorkers, EnsureNodePortRules
<1>7. CASE CleanupRules \/ ClearStatusIngress \/ DropFinalizer
  BY <1>7 DEF CleanupRules, ClearStatusIngress, DropFinalizer
<1> QED BY <1>1, <1>2, <1>3, <1>4, <1>5, <1>6, <1>7 DEF ReconcileStep

\* Every call of the reconciler preserves CloudInv.
LEMMA CloudInvReconcile == TypeInv /\ CloudInv /\ ReconcileStep => CloudInv'
<1> SUFFICES ASSUME TypeInv, CloudInv, ReconcileStep PROVE CloudInv'
  OBVIOUS
<1>0. /\ lb \in [LBId -> LBRecord] /\ job \in Job
      /\ pc \in {"sync", "cLB"} => job.lb \in LBId
  BY DEF TypeInv, CloudTypeOK, LBRecord, SRTypeOK, JobHolds
<1>1. CASE UNCHANGED <<lb, fip>> /\ pc' \notin {"sync", "fip", "cLB"}
  BY <1>1, CloudInvSame
<1>2. CASE EnsureLB
  BY <1>2, CloudInvEnsureLB
<1>3. CASE SyncListenersAndMembers
  <2>1. CASE UNCHANGED lb /\ Return
    BY <1>3, <2>1, CloudInvSame DEF SyncListenersAndMembers, Return
  <2>2. CASE UNCHANGED lb /\ Proceed("fip", [job EXCEPT !.members = workers])
    <3>1. pc' = "fip" /\ job'.s = job.s /\ job'.lb = job.lb /\ pc = "sync"
      BY <1>0, <1>3, <2>2, JobTypes
         DEF Proceed, SyncListenersAndMembers, TypeInv, CloudTypeOK
    <3> QED BY <1>3, <2>2, <3>1 DEF SyncListenersAndMembers, CloudInv, OneLBEach,
                                    FipsFollowLBs, OneFipEach, JobLB, LiveLB
  <2>3. CASE /\ lb[job.lb].todo > 0 /\ lb[job.lb].status = "ACTIVE"
             /\ lb' = [lb EXCEPT ![job.lb].status = "PENDING_UPDATE",
                                 ![job.lb].todo = lb[job.lb].todo - 1]
             /\ Return
    <3>1. job.lb \in LBId /\ "PENDING_UPDATE" \in LBStatus
      BY <1>0, <1>3 DEF SyncListenersAndMembers, LBStatus, Pending
    <3>2. lb[job.lb].todo \in 0..SyncWork
      BY <1>0, <3>1 DEF LBRecord
    <3>3. lb[job.lb].todo - 1 \in 0..SyncWork
      BY <2>3, <3>2, OpenStackAssumption
    <3> QED BY <1>3, <2>3, <3>1, <3>3, CloudInvStatus
               DEF SyncListenersAndMembers, Return, LiveLB
  <2> QED BY <1>3, <2>1, <2>2, <2>3 DEF SyncListenersAndMembers
<1>4. CASE EnsureFloatingIP
  BY <1>4, CloudInvEnsureFip
<1>5. CASE DeleteLBFloatingIP
  <2>1. CASE LBsNamed(job.s) = {} /\ Goto("cClear") /\ UNCHANGED fip
    BY <1>5, <2>1, CloudInvSame DEF DeleteLBFloatingIP, Goto, Proceed
  <2>2. ASSUME NEW l \in LBsNamed(job.s), fip' = Released(FipsOn(l)),
               Return \/ Proceed("cLB", [job EXCEPT !.lb = l])
        PROVE  CloudInv'
    <3>1. /\ pc' \notin {"sync", "fip"}
          /\ pc' = "cLB" => job'.lb = l
      BY <1>0, <2>2, JobTypes DEF Return, Proceed, LBsNamed
    <3>2. FipsOn(l) \in SUBSET FipId
      BY DEF FipsOn
    <3> QED BY <1>5, <2>2, <3>1, <3>2, CloudInvRelease DEF DeleteLBFloatingIP
  <2> QED BY <1>5, <2>1, <2>2 DEF DeleteLBFloatingIP
<1>6. CASE DeleteLB
  <2>1. CASE ~Deletable(job.lb)
    BY <1>6, <2>1, CloudInvSame DEF DeleteLB, Return
  <2>2. CASE Deletable(job.lb)
    <3>1. job.lb \in LBId /\ "PENDING_DELETE" \in LBStatus /\ FipsOn(job.lb) = {}
      BY <1>0, <1>6 DEF DeleteLB, LBStatus, Pending, CloudInv, JobLB
    <3>2. /\ lb[job.lb].todo \in 0..SyncWork
          /\ lb' = [lb EXCEPT ![job.lb].status = "PENDING_DELETE",
                              ![job.lb].todo = lb[job.lb].todo]
      BY <1>0, <1>6, <2>2, <3>1 DEF DeleteLB, RequestDelete, LBRecord
    <3>3. LiveLB(job.lb) /\ pc' = "idle" /\ UNCHANGED fip
      BY <1>6, <2>2 DEF DeleteLB, Return, Deletable, LiveLB
    <3>4. \A f \in FipId : fip[f].state # "allocated" => fip'[f].state # "allocated"
      BY <3>3
    <3> QED BY <3>1, <3>2, <3>3, <3>4, CloudInvStatus
  <2> QED BY <2>1, <2>2
<1> QED BY <1>1, <1>2, <1>3, <1>4, <1>5, <1>6, QuietSteps

\* A step of a system in which only the reconciler asks for or deletes load
\* balancers and floating IPs: the reconciler's own, a step that leaves them
\* alone (and may end the reconcile), or a step of Octavia.
CloudMove ==
  \/ ReconcileStep
  \/ UNCHANGED <<lb, fip>> /\ (pc' = "idle" \/ UNCHANGED <<pc, job>>)
  \/ /\ UNCHANGED <<pc, job>>
     /\ \/ UNCHANGED fip /\ \E L \in SUBSET LBId : lb' = Outdated(L)
        \/ \E l \in LBId : Settle(l) \/ SettleError(l)

\* Such steps preserve CloudInv.
LEMMA CloudInvMove == TypeInv /\ CloudInv /\ CloudMove => CloudInv'
<1> SUFFICES ASSUME TypeInv, CloudInv, CloudMove PROVE CloudInv'
  OBVIOUS
<1>0. lb \in [LBId -> LBRecord] /\ fip \in [FipId -> FipRecord]
  BY DEF TypeInv, CloudTypeOK, LBRecord, FipRecord
<1>1. CASE ReconcileStep
  BY <1>1, CloudInvReconcile
<1>2. CASE UNCHANGED <<lb, fip>> /\ (pc' = "idle" \/ UNCHANGED <<pc, job>>)
  BY <1>2, CloudInvSame
<1>3. ASSUME NEW L \in SUBSET LBId, lb' = Outdated(L), UNCHANGED fip, UNCHANGED <<pc, job>>
      PROVE  CloudInv'
  <2>1. \A l \in LBId : lb'[l].svc = lb[l].svc /\ lb'[l].status = lb[l].status
    BY <1>0, <1>3 DEF Outdated, LBRecord
  <2> QED BY <1>3, <2>1, CloudInvSame
<1>4. ASSUME NEW l \in LBId, Settle(l) \/ SettleError(l), UNCHANGED <<pc, job>>
      PROVE  CloudInv'
  <2>1. /\ lb[l].status \in Pending
        /\ lb' = [lb EXCEPT ![l].status = lb'[l].status, ![l].todo = lb[l].todo]
        /\ lb'[l].status \in {"gone", "ACTIVE", "ERROR"}
        /\ lb'[l].status = "gone" => lb[l].status = "PENDING_DELETE"
        /\ lb[l].todo \in 0..SyncWork
    BY <1>0, <1>4 DEF Settle, SettleError, LBRecord
  <2>2. LiveLB(l) /\ lb[l].status # "ACTIVE" /\ lb'[l].status \in LBStatus
    BY <2>1 DEF LiveLB, Pending, LBStatus
  <2>3. lb[l].status = "PENDING_DELETE" => FipsOn(l) = {}
    BY DEF CloudInv, FipsFollowLBs, FipsOn
  <2>4. \A f \in FipId : IF fip[f].state = "allocated" THEN fip'[f] = fip[f]
                                                       ELSE fip'[f].state # "allocated"
    <3>1. CASE UNCHANGED fip
      BY <3>1
    <3>2. CASE lb[l].status = "PENDING_DELETE" /\ fip' = Stranded(l)
      BY <1>0, <2>3, <3>2 DEF Stranded, FipsOn, FipRecord
    <3> QED BY <1>4, <3>1, <3>2 DEF Settle, SettleError
  <2> QED BY <1>4, <2>1, <2>2, <2>3, <2>4, CloudInvStatus
<1> QED BY <1>1, <1>2, <1>3, <1>4 DEF CloudMove

-----------------------------------------------------------------------------
(***************************************************************************)
(* ClaimInv: what a live tenant's finalizer guards.                        *)
(***************************************************************************)
\* A finalizer seen by Get is still there; every path that provisions or
\* cleans up saw it.
SeenFinalizer ==
  /\ \A s \in Service : svc[s].fin => svc[s].exists
  /\ pc # "idle" /\ job.snap.fin => svc[job.s].fin
  /\ pc \in {"ensureLB", "sync", "fip", "cRules", "cFip", "cLB", "cClear"} => job.snap.fin

\* The finalizer is dropped only where nothing is left to guard.
NothingLeft(s) == LBsNamed(s) = {} /\ FipsTagged(s) = {}
SafeToDrop ==
  /\ pc = "wipe" => ~TenantLive
  /\ pc \in {"cClear", "dropFin"} => ~TenantLive \/ NothingLeft(job.s)

Owns(s) == LBsNamed(s) \cup FipsTagged(s) # {}
Guarded == TenantLive => \A s \in Service : Owns(s) => svc[s].fin

ClaimInv == ksc.secret /\ SeenFinalizer /\ SafeToDrop /\ Guarded

\* Only EnsureLB and EnsureFloatingIP give a Service something to guard.
LEMMA OnlyProvisioned ==
  ASSUME TypeInv, CloudMove, NEW s \in Service, Owns(s)'
  PROVE  Owns(s) \/ (s = job.s /\ pc \in {"ensureLB", "fip"})
<1>0. lb \in [LBId -> LBRecord] /\ fip \in [FipId -> FipRecord]
  BY DEF TypeInv, CloudTypeOK, LBRecord, FipRecord
<1>1. ASSUME \A l \in LBId : LiveLB(l)' => LiveLB(l) /\ lb'[l].svc = lb[l].svc,
             \A f \in FipId : fip'[f].state = "allocated" =>
                              fip[f].state = "allocated" /\ fip'[f].svc = fip[f].svc
      PROVE  Owns(s)
  BY <1>1 DEF Owns, LBsNamed, FipsTagged
<1>2. CASE UNCHANGED <<lb, fip>>
  BY <1>1, <1>2 DEF LiveLB
<1>3. CASE EnsureLB
  <2>1. UNCHANGED fip /\ pc = "ensureLB"
    BY <1>3 DEF EnsureLB
  <2>2. ASSUME s # job.s
        PROVE  \A l \in LBId : LiveLB(l)' /\ lb'[l].svc = s => LiveLB(l) /\ lb[l].svc = s
    <3>1. CASE UNCHANGED lb
      BY <3>1 DEF LiveLB
    <3>2. ASSUME NEW l \in LBId, CreateLB(l, job.s)
          PROVE  lb'[l].svc = job.s /\ \A m \in LBId \ {l} : lb'[m] = lb[m]
      BY <1>0, <3>2 DEF CreateLB
    <3> QED BY <1>3, <2>2, <3>1, <3>2 DEF EnsureLB, LiveLB
  <2> QED BY <2>1, <2>2 DEF Owns, LBsNamed, FipsTagged
<1>4. CASE SyncListenersAndMembers
  <2>1. UNCHANGED fip /\ \A l \in LBId : lb'[l].svc = lb[l].svc /\ (LiveLB(l)' => LiveLB(l))
    BY <1>0, <1>4 DEF SyncListenersAndMembers, LiveLB, LBRecord
  <2> QED BY <1>1, <2>1
<1>5. CASE EnsureFloatingIP
  <2>1. UNCHANGED lb /\ pc = "fip"
    BY <1>5 DEF EnsureFloatingIP
  <2>2. ASSUME s # job.s
        PROVE  \A f \in FipId : fip'[f].state = "allocated" /\ fip'[f].svc = s =>
                                fip[f].state = "allocated" /\ fip[f].svc = s
    <3>1. CASE UNCHANGED fip
      BY <3>1
    <3>2. ASSUME NEW f \in FipId, CreateFip(f, job.s, job.lb)
          PROVE  fip'[f].svc = job.s /\ \A g \in FipId \ {f} : fip'[g] = fip[g]
      BY <1>0, <3>2 DEF CreateFip
    <3> QED BY <1>5, <2>2, <3>1, <3>2 DEF EnsureFloatingIP
  <2> QED BY <2>1, <2>2 DEF Owns, LBsNamed, FipsTagged, LiveLB
<1>6. CASE DeleteLBFloatingIP
  <2>1. UNCHANGED lb
    BY <1>6 DEF DeleteLBFloatingIP
  <2>2. \A f \in FipId : fip'[f].state = "allocated" =>
                         fip[f].state = "allocated" /\ fip'[f].svc = fip[f].svc
    <3>1. CASE UNCHANGED fip
      BY <3>1
    <3>2. ASSUME NEW l \in LBId, fip' = Released(FipsOn(l))
          PROVE  \A f \in FipId : fip'[f].state = "allocated" => fip'[f] = fip[f]
      BY <1>0, <3>2 DEF Released, FipRecord
    <3> QED BY <1>6, <3>1, <3>2 DEF DeleteLBFloatingIP, LBsNamed
  <2> QED BY <1>1, <2>1, <2>2 DEF LiveLB
<1>7. CASE DeleteLB
  <2>1. UNCHANGED fip /\ \A l \in LBId : lb'[l].svc = lb[l].svc /\ (LiveLB(l)' => LiveLB(l))
    BY <1>0, <1>7 DEF DeleteLB, RequestDelete, Deletable, LiveLB, LBRecord
  <2> QED BY <1>1, <2>1
<1>8. ASSUME NEW L \in SUBSET LBId, lb' = Outdated(L), UNCHANGED fip
      PROVE  Owns(s)
  <2>1. \A l \in LBId : lb'[l].svc = lb[l].svc /\ lb'[l].status = lb[l].status
    BY <1>0, <1>8 DEF Outdated, LBRecord
  <2> QED BY <1>1, <1>8, <2>1 DEF LiveLB
<1>9. ASSUME NEW l \in LBId, Settle(l) \/ SettleError(l)
      PROVE  Owns(s)
  <2>1. \A m \in LBId : lb'[m].svc = lb[m].svc /\ (LiveLB(m)' => LiveLB(m))
    BY <1>0, <1>9 DEF Settle, SettleError, LiveLB, LBRecord, Pending
  <2>2. \A f \in FipId : fip'[f].state = fip[f].state /\ fip'[f].svc = fip[f].svc
    BY <1>0, <1>9 DEF Settle, SettleError, Stranded, FipRecord
  <2> QED BY <1>1, <2>1, <2>2
<1> QED BY <1>2, <1>3, <1>4, <1>5, <1>6, <1>7, <1>8, <1>9, QuietSteps DEF CloudMove

\* A step that writes no Service, or one of those that do.
SvcMove ==
  \/ UNCHANGED svc
  \/ AddFinalizer \/ PatchStatus \/ ClearStatusIngress \/ DropFinalizer
  \/ \E t \in Service : \/ ChangeType(t) \/ DeleteService(t)
                        \/ \E b \in BOOLEAN : CreateService(t, b)

\* The reconciler writes Services in four places.
LEMMA ReconcilerWrites == ReconcileStep \/ ReconcileError => SvcMove
BY DEF ReconcileStep, ReconcileError, Get, Resolve, HRDeleteGuard, WipeOperatorRules,
       EnsureLB, SyncListenersAndMembers, EnsureFloatingIP,
       EnsureClusterSecurityGroup, EnsureSGAttachedToWorkers,
       DetachDefaultSGFromWorkers, EnsureNodePortRules, CleanupRules,
       DeleteLBFloatingIP, DeleteLB, apiVars, SvcMove

\* Only DropFinalizer takes a finalizer away, and only an existing Service has
\* one.
LEMMA OnlyDropped ==
  ASSUME TypeInv, SvcMove, \A t \in Service : svc[t].fin => svc[t].exists,
         NEW s \in Service
  PROVE  /\ svc[s].fin => svc'[s].fin \/ (pc = "dropFin" /\ pc' = "idle" /\ s = job.s)
         /\ svc'[s].fin => svc'[s].exists
<1>0. svc \in [Service -> SvcObject]
  BY DEF TypeInv, ApiTypeOK
<1>1. CASE UNCHANGED svc
  BY <1>1
<1>2. CASE AddFinalizer
  BY <1>0, <1>2 DEF AddFinalizer, SetFinalizer, SvcObject
<1>3. CASE PatchStatus \/ ClearStatusIngress
  BY <1>0, <1>3 DEF PatchStatus, ClearStatusIngress, SetIngress, SvcObject
<1>4. CASE DropFinalizer
  BY <1>0, <1>4 DEF DropFinalizer, RemoveFinalizer, Return, SvcObject, NoObject
<1>5. ASSUME NEW t \in Service, ChangeType(t) \/ DeleteService(t)
      PROVE  (svc[s].fin => svc'[s].fin) /\ (svc'[s].fin => svc'[s].exists)
  BY <1>0, <1>5 DEF ChangeType, DeleteService, SvcObject, NoObject
<1>6. ASSUME NEW t \in Service, NEW b \in BOOLEAN, CreateService(t, b)
      PROVE  (svc[s].fin => svc'[s].fin) /\ (svc'[s].fin => svc'[s].exists)
  BY <1>0, <1>6 DEF CreateService, SvcObject, NoObject
<1> QED BY <1>1, <1>2, <1>3, <1>4, <1>5, <1>6 DEF SvcMove

\* A reconcile past Get keeps the Service it was called for and the object
\* it read.
LEMMA KeepsJob ==
  ASSUME TypeInv, ReconcileStep, pc' # "idle", pc # "idle"
  PROVE  job'.s = job.s /\ job'.snap = job.snap
<1>0. job \in Job
  BY DEF TypeInv, SRTypeOK
<1> USE DEF Goto, Proceed, Return
<1>1. CASE Resolve
  BY <1>0, <1>1 DEF Resolve, Job
<1>2. CASE HRDeleteGuard \/ WipeOperatorRules \/ AddFinalizer \/ PatchStatus
  BY <1>2 DEF HRDeleteGuard, WipeOperatorRules, AddFinalizer, PatchStatus
<1>3. CASE EnsureLB \/ DeleteLBFloatingIP \/ DeleteLB
  BY <1>0, <1>3 DEF EnsureLB, DeleteLBFloatingIP, DeleteLB, Job
<1>4. CASE SyncListenersAndMembers \/ EnsureFloatingIP
  BY <1>0, <1>4 DEF SyncListenersAndMembers, EnsureFloatingIP, Job
<1>5. CASE EnsureClusterSecurityGroup \/ EnsureSGAttachedToWorkers
  BY <1>5 DEF EnsureClusterSecurityGroup, EnsureSGAttachedToWorkers
<1>6. CASE DetachDefaultSGFromWorkers \/ EnsureNodePortRules
  BY <1>6 DEF DetachDefaultSGFromWorkers, EnsureNodePortRules
<1>7. CASE CleanupRules \/ ClearStatusIngress \/ DropFinalizer
  BY <1>7 DEF CleanupRules, ClearStatusIngress, DropFinalizer
<1> QED BY <1>1, <1>2, <1>3, <1>4, <1>5, <1>6, <1>7 DEF ReconcileStep, Get

\* How a reconcile gets to where it provisions, cleans up or drops.
LEMMA Entries ==
  ASSUME TypeInv, ReconcileStep
  PROVE  /\ pc' \in {"ensureLB", "cRules"} => pc = "guard" /\ job.snap.fin
         /\ pc' = "sync" => pc = "ensureLB"
         /\ pc' = "fip" => pc = "sync"
         /\ pc' = "cFip" => pc = "cRules"
         /\ pc' = "cLB" => pc = "cFip"
         /\ pc' = "cClear" => pc = "cFip" /\ LBsNamed(job.s) = {}
         /\ pc' = "wipe" => pc = "guard" /\ ~TenantLive
         /\ pc' = "dropFin" => \/ pc = "resolve" /\ (~TenantLive \/ ~ksc.secret)
                               \/ pc = "guard" /\ ~TenantLive
                               \/ pc \in {"wipe", "cClear"}
<1> USE DEF Goto, Proceed, Return
<1>1. CASE \E s \in Service : Get(s)
  BY <1>1 DEF Get
<1>2. CASE Resolve
  <2>1. pc = "resolve" /\ pc' \in {"guard", "dropFin"}
    BY <1>2 DEF Resolve
  <2>2. pc' = "dropFin" => ~ksc.present \/ ~ksc.secret
    BY <1>2 DEF Resolve, ResolveNotFound
  <2> QED BY <2>1, <2>2 DEF TenantLive
<1>3. CASE HRDeleteGuard
  <2>1. CASE hr # "live"
    BY <1>3, <2>1 DEF HRDeleteGuard, TenantLive
  <2>2. CASE hr = "live"
    <3>1. pc = "guard" /\ (pc' = "idle" \/ pc' = Dispatch)
      BY <1>3, <2>2 DEF HRDeleteGuard
    <3>2. /\ Dispatch \in {"cRules", "idle", "ensureLB", "addFin"}
          /\ Dispatch \in {"cRules", "ensureLB"} => job.snap.fin
      BY DEF Dispatch
    <3> QED BY <3>1, <3>2
  <2> QED BY <2>1, <2>2
<1>4. CASE WipeOperatorRules \/ AddFinalizer \/ PatchStatus
  BY <1>4 DEF WipeOperatorRules, AddFinalizer, PatchStatus
<1>5. CASE EnsureLB
  BY <1>5 DEF EnsureLB
<1>6. CASE SyncListenersAndMembers \/ EnsureFloatingIP
  BY <1>6 DEF SyncListenersAndMembers, EnsureFloatingIP
<1>7. CASE DeleteLBFloatingIP \/ DeleteLB
  BY <1>7 DEF DeleteLBFloatingIP, DeleteLB
<1>8. CASE EnsureClusterSecurityGroup \/ EnsureSGAttachedToWorkers
  BY <1>8 DEF EnsureClusterSecurityGroup, EnsureSGAttachedToWorkers
<1>9. CASE DetachDefaultSGFromWorkers \/ EnsureNodePortRules
  BY <1>9 DEF DetachDefaultSGFromWorkers, EnsureNodePortRules
<1>10. CASE CleanupRules \/ ClearStatusIngress \/ DropFinalizer
  BY <1>10 DEF CleanupRules, ClearStatusIngress, DropFinalizer
<1> QED BY <1>1, <1>2, <1>3, <1>4, <1>5, <1>6, <1>7, <1>8, <1>9, <1>10 DEF ReconcileStep

\* Where the reconciler stands decides its step.
LEMMA StepAt ==
  ReconcileStep => /\ pc = "idle" => \E s \in Service : Get(s)
                   /\ pc = "cRules" => CleanupRules
                   /\ pc = "cClear" => ClearStatusIngress
BY DEF ReconcileStep, Get, Resolve, HRDeleteGuard, WipeOperatorRules, AddFinalizer,
       EnsureLB, SyncListenersAndMembers, EnsureFloatingIP,
       EnsureClusterSecurityGroup, EnsureSGAttachedToWorkers,
       DetachDefaultSGFromWorkers, EnsureNodePortRules, PatchStatus,
       CleanupRules, DeleteLBFloatingIP, DeleteLB, ClearStatusIngress, DropFinalizer

\* Every step is the reconciler's, ends a reconcile, or leaves it where it is.
LEMMA WhoMoves == CloudMove => ReconcileStep \/ pc' = "idle" \/ UNCHANGED <<pc, job>>
BY DEF CloudMove

\* With fresh reads and the credentials Secret in place a live tenant's
\* Services stay claimed as long as they own anything.
LEMMA ClaimInvMove ==
  ASSUME ~StaleReads, TypeInv, CloudInv, ClaimInv, CloudMove, SvcMove,
         TenantLive' => TenantLive, ksc'.secret
  PROVE  ClaimInv'
<1>0. /\ ksc.secret /\ SeenFinalizer /\ SafeToDrop /\ Guarded
      /\ pc # "idle" => job.s \in Service
      /\ \A s \in Service : svc[s].fin => svc[s].exists
  BY DEF ClaimInv, TypeInv, JobHolds, SeenFinalizer
<1>1. Guarded'
  <2> SUFFICES ASSUME TenantLive', NEW s \in Service, Owns(s)'
               PROVE  svc'[s].fin
    BY DEF Guarded
  <2>1. TenantLive
    OBVIOUS
  <2>2. svc[s].fin
    <3>1. CASE Owns(s)
      BY <1>0, <2>1, <3>1 DEF Guarded
    <3>2. CASE s = job.s /\ pc \in {"ensureLB", "fip"}
      BY <1>0, <3>2 DEF SeenFinalizer
    <3> QED BY <3>1, <3>2, OnlyProvisioned
  <2>3. ~(pc = "dropFin" /\ s = job.s)
    <3> SUFFICES ASSUME pc = "dropFin", s = job.s PROVE FALSE
      OBVIOUS
    <3>1. ~Owns(s)
      BY <1>0, <2>1 DEF SafeToDrop, NothingLeft, Owns
    <3> QED BY <3>1, OnlyProvisioned
  <2> QED BY <1>0, <2>2, <2>3, OnlyDropped
<1>2. SeenFinalizer'
  <2>1. \A s \in Service : svc'[s].fin => svc'[s].exists
    BY <1>0, OnlyDropped
  <2>2. ASSUME pc' # "idle", job'.snap.fin
        PROVE  svc'[job'.s].fin
    <3>1. CASE pc # "idle" /\ job'.s = job.s /\ job'.snap = job.snap
      BY <1>0, <2>2, <3>1, OnlyDropped DEF SeenFinalizer
    <3>2. ASSUME NEW s \in Service, Get(s)
          PROVE  svc'[job'.s].fin
      <4>1. UNCHANGED svc /\ job'.s = s /\ job'.snap = svc[s]
        BY <3>2 DEF Get, Read, apiVars, NoJob
      <4> QED BY <2>2, <4>1
    <3> QED BY <2>2, <3>1, <3>2, WhoMoves, StepAt, KeepsJob
  <2>3. pc' \in {"ensureLB", "sync", "fip", "cRules", "cFip", "cLB", "cClear"}
          => job'.snap.fin
    <3>1. CASE UNCHANGED <<pc, job>>
      BY <1>0, <3>1 DEF SeenFinalizer
    <3>2. CASE ReconcileStep
      BY <1>0, <3>2, Entries, KeepsJob DEF SeenFinalizer
    <3> QED BY <3>1, <3>2, WhoMoves
  <2> QED BY <2>1, <2>2, <2>3 DEF SeenFinalizer
<1>3. SafeToDrop'
  <2>1. ~TenantLive => ~TenantLive'
    OBVIOUS
  <2>2. ASSUME NEW s \in Service, NothingLeft(s), pc \notin {"ensureLB", "fip"}
        PROVE  NothingLeft(s)'
    BY <2>2, OnlyProvisioned DEF NothingLeft, Owns
  <2>3. CASE UNCHANGED <<pc, job>>
    <3>1. pc = "wipe" => ~TenantLive'
      BY <1>0, <2>1 DEF SafeToDrop
    <3>2. pc \in {"cClear", "dropFin"} => ~TenantLive' \/ NothingLeft(job.s)'
      BY <1>0, <2>1, <2>2, <2>3 DEF SafeToDrop
    <3> QED BY <2>3, <3>1, <3>2 DEF SafeToDrop
  <2>4. CASE ReconcileStep
    <3>1. pc' = "wipe" => ~TenantLive'
      BY <2>1, <2>4, Entries
    <3>2. ASSUME pc' \in {"cClear", "dropFin"}, TenantLive'
          PROVE  NothingLeft(job.s)' /\ job'.s = job.s
      <4>1. TenantLive /\ pc \in {"cFip", "wipe", "cClear"}
        BY <1>0, <2>1, <2>4, <3>2, Entries
      <4>2. pc = "cFip" => NothingLeft(job.s)
        BY <2>4, <3>2, Entries
           DEF NothingLeft, FipsTagged, LBsNamed, CloudInv, FipsFollowLBs
      <4>3. NothingLeft(job.s)
        BY <1>0, <4>1, <4>2 DEF SafeToDrop
      <4> QED BY <1>0, <2>2, <2>4, <3>2, <4>1, <4>3, KeepsJob
    <3> QED BY <3>1, <3>2 DEF SafeToDrop
  <2>5. CASE pc' = "idle"
    BY <2>5 DEF SafeToDrop
  <2> QED BY <2>3, <2>4, <2>5, WhoMoves
<1> QED BY <1>1, <1>2, <1>3 DEF ClaimInv
=============================================================================
