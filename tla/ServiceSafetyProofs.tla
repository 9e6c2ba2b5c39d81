------------------------- MODULE ServiceSafetyProofs -------------------------
(***************************************************************************)
(* The safety of the service controller's finalizer, of its idempotent     *)
(* provisioning and of its group swap, proved for ServiceLifecycle.        *)
(*                                                                         *)
(* CloudInv holds whatever the informer cache shows: the load balancers    *)
(* and floating IPs stay one to a Service because one worker looks them up *)
(* before it creates.  ClaimInv needs fresh reads of the Service and the   *)
(* credentials Secret in place: the run MissingSecret shows that it fails  *)
(* without the Secret.                                                     *)
(***************************************************************************)
EXTENDS ServiceLifecycleProofs

\* Among users, operators, the informer and failing calls, only the reconciler
\* asks for and deletes load balancers and floating IPs, and it shares the
\* writing of Services with their users.
LEMMA Moves == [Next]_vars => CloudMove /\ SvcMove
<1> SUFFICES ASSUME [Next]_vars PROVE CloudMove /\ SvcMove
  OBVIOUS
<1>1. CASE ReconcileStep \/ ReconcileError
  BY <1>1, ReconcilerWrites DEF ReconcileError, cloudVars, CloudMove
<1>2. CASE UserStep /\ UNCHANGED <<cloudVars, srVars>>
  <2>1. CloudMove
    BY <1>2 DEF cloudVars, srVars, CloudMove
  <2>2. SvcMove
    BY <1>2 DEF UserStep, EditKSC, DeleteKSC, DeleteHelmRelease, HelmReleaseGone, SvcMove
  <2> QED BY <2>1, <2>2
<1>3. CASE (\E s \in Service : EditPorts(s)) /\ UNCHANGED srVars
  BY <1>3 DEF EditPorts, LBsNamed, srVars, CloudMove, SvcMove
<1>4. CASE (\E s \in Service : CacheSync(s)) /\ UNCHANGED <<cloudVars, srVars>>
  BY <1>4 DEF CacheSync, cloudVars, srVars, CloudMove, SvcMove
<1>5. CASE ScaleWorkers /\ UNCHANGED <<svc, srVars>>
  <2>1. {l \in LBId : LiveLB(l)} \in SUBSET LBId
    OBVIOUS
  <2> QED BY <1>5, <2>1 DEF ScaleWorkers, srVars, CloudMove, SvcMove
<1>6. CASE CloudStep /\ UNCHANGED <<apiVars, srVars>>
  BY <1>6 DEF CloudStep, apiVars, srVars, CloudMove, SvcMove
<1>7. CASE UNCHANGED vars
  BY <1>7 DEF vars, cloudVars, apiVars, srVars, CloudMove, SvcMove
<1> QED BY <1>1, <1>2, <1>3, <1>4, <1>5, <1>6, <1>7 DEF Next

\* CloudInv is an invariant.
LEMMA CloudInvariant == Spec => []CloudInv
<1>1. Init => CloudInv
  BY CloudInvInit DEF Init
<1>2. TypeInv /\ CloudInv /\ [Next]_vars => CloudInv'
  BY CloudInvMove, Moves
<1> QED BY <1>1, <1>2, TypeInvariant, PTL DEF Spec

-----------------------------------------------------------------------------
\* EnsureLB and EnsureFloatingIP never give a Service a second load balancer
\* or floating IP, whatever calls fail or are repeated and however stale the
\* Services the reconciler reads.
THEOREM Idempotent == Spec => []NoDuplicates
<1>1. CloudInv => NoDuplicates
  BY DEF CloudInv, OneLBEach, FipsFollowLBs, OneFipEach, NoDuplicates, LBsNamed, FipsTagged
<1> QED BY <1>1, CloudInvariant, PTL

\* DeleteLB never leaves a floating IP bound to nothing.
THEOREM NoFipStranded == Spec => []NoStrandedFip
<1>1. CloudInv => NoStrandedFip
  <2>1. 0 \notin LBId
    BY OpenStackAssumption
  <2> QED BY <2>1 DEF CloudInv, FipsFollowLBs, NoStrandedFip, NoPort
<1> QED BY <1>1, CloudInvariant, PTL

-----------------------------------------------------------------------------
(***************************************************************************)
(* ClaimInv.                                                               *)
(***************************************************************************)
\* A tenant that is not live stays so, and what the operator may not edit of
\* the CR stays.
LEMMA TenantOnlyDies ==
  ASSUME [Next]_vars
  PROVE  /\ TenantLive' => TenantLive
         /\ "secret" \notin OperatorOps /\ TypeInv /\ ksc.secret => ksc'.secret
         /\ "pin" \notin OperatorOps /\ TypeInv => ksc'.pinned = ksc.pinned
<1>1. CASE UNCHANGED <<ksc, hr>>
  BY <1>1 DEF TenantLive
<1>2. CASE EditKSC
  BY <1>2 DEF EditKSC, TenantLive, TypeInv, TypeOK, ApiTypeOK, KSC
<1>3. CASE DeleteKSC
  BY <1>3 DEF DeleteKSC, TenantLive, TypeInv, TypeOK, ApiTypeOK, KSC
<1>4. CASE DeleteHelmRelease \/ HelmReleaseGone
  BY <1>4 DEF DeleteHelmRelease, HelmReleaseGone, TenantLive
<1> QED
  <2>1. ReconcileStep \/ ReconcileError => UNCHANGED <<ksc, hr>>
    BY DEF ReconcileStep, ReconcileError, Get, Resolve, HRDeleteGuard, WipeOperatorRules,
           AddFinalizer, EnsureLB, SyncListenersAndMembers, EnsureFloatingIP,
           EnsureClusterSecurityGroup, EnsureSGAttachedToWorkers,
           DetachDefaultSGFromWorkers, EnsureNodePortRules, PatchStatus, CleanupRules,
           DeleteLBFloatingIP, DeleteLB, ClearStatusIngress, DropFinalizer, apiVars
  <2>2. UserStep => \/ UNCHANGED <<ksc, hr>> \/ EditKSC \/ DeleteKSC
                    \/ DeleteHelmRelease \/ HelmReleaseGone
    BY DEF UserStep, CreateService, ChangeType, DeleteService
  <2> QED BY <1>1, <1>2, <1>3, <1>4, <2>1, <2>2
             DEF Next, EditPorts, CacheSync, vars, apiVars

\* Nothing is claimed or owned at first.
LEMMA ClaimInvInit == Init => ClaimInv
<1> SUFFICES ASSUME Init PROVE ClaimInv
  OBVIOUS
<1>1. ksc.secret
  BY DEF Init, ApiInit
<1>2. SeenFinalizer /\ SafeToDrop
  BY DEF Init, ApiInit, SRInit, SeenFinalizer, SafeToDrop, NoObject
<1>3. Guarded
  BY DEF Init, CloudInit, Guarded, Owns, LBsNamed, FipsTagged, LiveLB
<1> QED BY <1>1, <1>2, <1>3 DEF ClaimInv

\* ClaimInv is inductive, given TypeInv and CloudInv.
LEMMA ClaimInvNext ==
  ASSUME ~StaleReads, "secret" \notin OperatorOps, TypeInv, CloudInv, ClaimInv, [Next]_vars
  PROVE  ClaimInv'
<1>1. (TenantLive' => TenantLive) /\ ksc'.secret
  BY TenantOnlyDies DEF ClaimInv
<1> QED BY <1>1, Moves, ClaimInvMove

\* The finalizer's contract, for any number of Services: with fresh reads and
\* the credentials Secret in place, no load balancer or floating IP of a live
\* tenant outlives the finalizer of its Service.
THEOREM FinalizerContract ==
  ASSUME ~StaleReads, "secret" \notin OperatorOps
  PROVE  Spec => []FinalizerGuardsLB
<1>1. TypeInv /\ CloudInv /\ ClaimInv /\ [Next]_vars => ClaimInv'
  BY ClaimInvNext
<1>2. ClaimInv => FinalizerGuardsLB
  BY DEF ClaimInv, Guarded, Owns, FinalizerGuardsLB
<1> QED BY <1>1, <1>2, TypeInvariant, CloudInvariant, ClaimInvInit, PTL DEF Spec

-----------------------------------------------------------------------------
\* Swapping the default group for the cluster's never leaves a worker port
\* without one, though workers come and go between the two calls.
THEOREM PortsKeepAGroup == Spec => []NoBarePort
<1>1. Init => NoBarePort
  BY DEF Init, CloudInit, NoBarePort
<1>2. TypeInv /\ NoBarePort /\ [Next]_vars => NoBarePort'
  <2> SUFFICES ASSUME TypeInv, NoBarePort, [Next]_vars PROVE NoBarePort'
    OBVIOUS
  <2>1. CASE UNCHANGED <<workers, portSGs>>
    BY <2>1 DEF NoBarePort
  <2>2. CASE EnsureSGAttachedToWorkers
    BY <2>2 DEF EnsureSGAttachedToWorkers, NoBarePort
  <2>3. CASE DetachDefaultSGFromWorkers
    <3>1. portSGs \subseteq {"default", "cluster"}
      BY DEF TypeInv, TypeOK, CloudTypeOK
    <3>2. portSGs # {} /\ portSGs # {"default"} => "cluster" \in portSGs
      BY <3>1
    <3> QED BY <2>3, <3>2 DEF DetachDefaultSGFromWorkers, NoBarePort
  <2>4. CASE ScaleWorkers
    BY <2>4 DEF ScaleWorkers, NoBarePort
  <2> QED
    <3>1. ReconcileStep \/ ReconcileError =>
            \/ UNCHANGED <<workers, portSGs>>
            \/ EnsureSGAttachedToWorkers \/ DetachDefaultSGFromWorkers
      BY DEF ReconcileStep, ReconcileError, Get, Resolve, HRDeleteGuard,
             WipeOperatorRules, AddFinalizer, EnsureLB, SyncListenersAndMembers,
             EnsureFloatingIP, EnsureClusterSecurityGroup, EnsureNodePortRules,
             PatchStatus, CleanupRules, DeleteLBFloatingIP, DeleteLB,
             ClearStatusIngress, DropFinalizer, cloudVars
    <3>2. CloudStep => UNCHANGED <<workers, portSGs>>
      BY DEF CloudStep, Settle, SettleError
    <3> QED BY <2>1, <2>2, <2>3, <2>4, <3>1, <3>2
               DEF Next, EditPorts, vars, cloudVars
<1> QED BY <1>1, <1>2, TypeInvariant, PTL DEF Spec
=============================================================================
