------------------------ MODULE TenantTeardownProofs ------------------------
(***************************************************************************)
(* Proofs about TenantTeardown, for any set of Services and any bounds:    *)
(* types, what the HelmRelease's finalizer holds back, and that the orphan *)
(* sweeper condemns nothing of a live tenant's.                            *)
(***************************************************************************)
EXTENDS TenantTeardown, ServiceReconcilerProofs

TeardownTypes ==
  /\ TypeInv /\ CRTypeOK /\ SWTypeOK
  /\ generation \in 0..Recreations /\ late \subseteq LBId

\* The sweep behind the HelmRelease's finalizer.  Until the tenant is created
\* again, what the sweep did not list or has dealt with is deleted, but for
\* load balancers created since the HelmRelease began to go; and the finalizer
\* is off only after a complete sweep.
SweepInv ==
  Sibling /\ generation = 0 =>
    /\ hr = "live" => hrFin /\ cpc = "idle"
    /\ hr = "gone" => ~hrFin
    /\ cpc \in {"sg", "swept"} => ctodo = {}
    /\ cpc \in {"fip", "lb", "sg", "swept"} =>
         \A l \in LBId \ (late \cup ctodo) : Deleted(l)
    /\ ~hrFin => \A l \in LBId \ late : Deleted(l)

\* The tenant lives and was created once.
FirstLife == generation = 0 /\ TenantLive

\* Neither sweep does anything there: the cluster's has not begun, and the
\* orphan sweeper knows the cluster and saw no Service of it missing.
SweepersAtRest ==
  /\ cpc = "idle"
  /\ spc # "idle" => known
  /\ spc \notin {"list", "fip", "lb", "sg", "swept"}
  /\ slbs = {} /\ sfips = {} /\ stodo = {}
  /\ \A s \in Service : seen[s] # {FALSE}

LifeInv == FirstLife => CloudInv /\ ClaimInv /\ SweepersAtRest

-----------------------------------------------------------------------------
(***************************************************************************)
(* SweepClusterResources, for either of the two goroutines that run it: p, *)
(* q are the caller's program counter before and after the step, T, U the  *)
(* load balancers still to delete.                                         *)
(***************************************************************************)
SweepMove(p, q, T, U) ==
  \/ /\ p = "list"
     /\ U = {l \in LBId : LiveLB(l)}
     /\ q = IF U = {} THEN "sg" ELSE "fip"
     /\ UNCHANGED cloudVars
  \/ /\ p = "fip" /\ q = "lb" /\ U = T
     /\ \E F \in SUBSET FipId : fip' = Released(F)
     /\ UNCHANGED <<lb, clusterSG, rules, workers, portSGs>>
  \/ /\ p = "lb"
     /\ \E l \in LBId \cap T : Deletable(l) /\ RequestDelete(l) /\ U = T \ {l}
     /\ q = IF U = {} THEN "sg" ELSE "fip"
     /\ UNCHANGED <<fip, clusterSG, rules, workers, portSGs>>
  \/ /\ p = "lb" /\ q = "idle" /\ U = {}
     /\ UNCHANGED cloudVars
  \/ /\ p = "sg" /\ q = "swept" /\ U = T
     /\ clusterSG' \in BOOLEAN /\ rules' \subseteq rules
     /\ UNCHANGED <<lb, fip, workers, portSGs>>

\* The cluster reconciler's sweep takes such steps, ...
LEMMA ClusterSweepMoves == CSweep!SweepStep => SweepMove(cpc, cpc', ctodo, ctodo')
<1>1. /\ \A l : CSweep!LiveLB(l) <=> LiveLB(l)
      /\ \A l : CSweep!FipsOn(l) = FipsOn(l)
      /\ \A F : CSweep!Released(F) = Released(F)
      /\ \A l : CSweep!Deletable(l) <=> Deletable(l)
      /\ \A l : CSweep!RequestDelete(l) <=> RequestDelete(l)
      /\ CSweep!SGInUse <=> SGInUse
      /\ \A l : FipsOn(l) \in SUBSET FipId
  BY DEF CSweep!LiveLB, LiveLB, CSweep!FipsOn, FipsOn, CSweep!Released, Released,
         CSweep!NoPort, CSweep!Deletable, Deletable, CSweep!RequestDelete, RequestDelete,
         CSweep!SGInUse, SGInUse, NoPort
<1>2. CASE CSweep!SweepList
  BY <1>1, <1>2 DEF CSweep!SweepList, CSweep!cloudVars, cloudVars, SweepMove
<1>3. CASE CSweep!SweepFloatingIP
  BY <1>1, <1>3 DEF CSweep!SweepFloatingIP, SweepMove
<1>4. CASE CSweep!SweepLB
  BY <1>1, <1>4 DEF CSweep!SweepLB, CSweep!First, cloudVars, SweepMove
<1>5. CASE CSweep!SweepSG
  BY <1>1, <1>5 DEF CSweep!SweepSG, SweepMove
<1> QED BY <1>2, <1>3, <1>4, <1>5 DEF CSweep!SweepStep

\* ... and so does the orphan sweeper's.
LEMMA OrphanSweepMoves == OSweep!SweepStep => SweepMove(spc, spc', stodo, stodo')
<1>1. /\ \A l : OSweep!LiveLB(l) <=> LiveLB(l)
      /\ \A l : OSweep!FipsOn(l) = FipsOn(l)
      /\ \A F : OSweep!Released(F) = Released(F)
      /\ \A l : OSweep!Deletable(l) <=> Deletable(l)
      /\ \A l : OSweep!RequestDelete(l) <=> RequestDelete(l)
      /\ OSweep!SGInUse <=> SGInUse
      /\ \A l : FipsOn(l) \in SUBSET FipId
  BY DEF OSweep!LiveLB, LiveLB, OSweep!FipsOn, FipsOn, OSweep!Released, Released,
         OSweep!NoPort, OSweep!Deletable, Deletable, OSweep!RequestDelete, RequestDelete,
         OSweep!SGInUse, SGInUse, NoPort
<1>2. CASE OSweep!SweepList
  BY <1>1, <1>2 DEF OSweep!SweepList, OSweep!cloudVars, cloudVars, SweepMove
<1>3. CASE OSweep!SweepFloatingIP
  BY <1>1, <1>3 DEF OSweep!SweepFloatingIP, SweepMove
<1>4. CASE OSweep!SweepLB
  BY <1>1, <1>4 DEF OSweep!SweepLB, OSweep!First, cloudVars, SweepMove
<1>5. CASE OSweep!SweepSG
  BY <1>1, <1>5 DEF OSweep!SweepSG, SweepMove
<1> QED BY <1>2, <1>3, <1>4, <1>5 DEF OSweep!SweepStep

\* A sweep preserves types.
LEMMA SweepTypes ==
  ASSUME CloudTypeOK, NEW p, NEW q, NEW T \in SUBSET LBId, NEW U, SweepMove(p, q, T, U)
  PROVE  /\ CloudTypeOK' /\ U \in SUBSET LBId
         /\ q \in {"idle", "fip", "lb", "sg", "swept"}
<1>0. /\ lb \in [LBId -> LBRecord] /\ fip \in [FipId -> FipRecord]
      /\ "PENDING_DELETE" \in LBStatus
  BY DEF CloudTypeOK, LBRecord, FipRecord, LBStatus, Pending
<1>1. lb' \in [LBId -> LBRecord]
  BY <1>0, LBTypes DEF SweepMove, RequestDelete, cloudVars
<1>2. fip' \in [FipId -> FipRecord]
  BY <1>0, FipTypes DEF SweepMove, cloudVars
<1>3. /\ clusterSG' \in BOOLEAN /\ rules' \subseteq Group \X Service
      /\ UNCHANGED <<workers, portSGs>>
  BY DEF SweepMove, cloudVars, CloudTypeOK
<1>4. CloudTypeOK'
  BY <1>1, <1>2, <1>3 DEF CloudTypeOK, LBRecord, FipRecord
<1> QED BY <1>4 DEF SweepMove

-----------------------------------------------------------------------------
(***************************************************************************)
(* Type correctness.                                                       *)
(***************************************************************************)
\* The initial states are well typed.
LEMMA TypeInit == Init => TeardownTypes
<1> SUFFICES ASSUME Init PROVE TeardownTypes
  OBVIOUS
<1>1. svc \in [Service -> SvcObject] /\ view \in [Service -> SvcObject]
  <2>1. [NoObject EXCEPT !.exists = TRUE, !.lbType = TRUE] \in SvcObject
    BY RecordTypes DEF SvcObject
  <2> QED BY <2>1 DEF Init
<1>2. ksc \in KSC
  BY DEF Init, KSC
<1>3. hr \in {"live", "terminating", "gone"} /\ ops \in 0..MaxOps
  BY ControlPlaneAssumption DEF Init
<1>4. TypeInv
  BY <1>1, <1>2, <1>3, StartTypes DEF Init, ApiTypeOK, TypeInv
<1>5. CRTypeOK
  BY DEF Init, CRInit, CRTypeOK
<1>6. SWTypeOK
  BY DEF Init, SWInit, Unseen, SWTypeOK
<1>7. generation \in 0..Recreations /\ late \subseteq LBId
  BY TeardownAssumption DEF Init
<1> QED BY <1>4, <1>5, <1>6, <1>7 DEF TeardownTypes

\* A verdict on a Service, once there is one, is either that it exists or that
\* it does not.
LEMMA CheckedTypes ==
  ASSUME ApiTypeOK, SWTypeOK, NEW S, NEW inconclusive
  PROVE  Checked(S, inconclusive) \in [Service -> {{}, {TRUE}, {FALSE}}]
<1>1. \A s \in Service : (~session \/ s \in inconclusive \/ Read(s).exists) \in BOOLEAN
  OBVIOUS
<1> QED BY <1>1 DEF Checked, SWTypeOK

\* The cluster reconciler's steps preserve types.
LEMMA ClusterTypes ==
  CloudTypeOK /\ ApiTypeOK /\ CRTypeOK /\ (CRStep \/ CRError)
    => CloudTypeOK' /\ ApiTypeOK' /\ CRTypeOK'
<1> SUFFICES ASSUME CloudTypeOK, ApiTypeOK, CRTypeOK, CRStep \/ CRError
             PROVE  CloudTypeOK' /\ ApiTypeOK' /\ CRTypeOK'
  OBVIOUS
<1>1. CASE CRGet
  BY <1>1, CloudStays, ApiStays DEF CRGet, CRTypeOK
<1>2. CASE CRResolve
  BY <1>2, CloudStays, ApiStays DEF CRResolve, CRTypeOK
<1>3. CASE CRSweep
  <2>1. ctodo \in SUBSET LBId
    BY DEF CRTypeOK
  <2>2. CloudTypeOK' /\ ctodo' \in SUBSET LBId /\ cpc' \in {"idle", "fip", "lb", "sg", "swept"}
    BY <1>3, <2>1, ClusterSweepMoves, SweepTypes DEF CRSweep
  <2> QED BY <1>3, <2>2, ApiStays DEF CRSweep, CRTypeOK
<1>4. CASE DropClusterFinalizer
  BY <1>4, CloudStays, ApiStays DEF DropClusterFinalizer, CRTypeOK
<1>5. CASE CRError
  BY <1>5, CloudStays, ApiStays DEF CRError, CRTypeOK
<1> QED BY <1>1, <1>2, <1>3, <1>4, <1>5 DEF CRStep

\* A cycle that ends forgets what it listed.
LEMMA CycleEnds == SWTypeOK /\ EndCycle /\ session' \in BOOLEAN => SWTypeOK'
BY DEF SWTypeOK, EndCycle, Unseen

\* The orphan sweeper's steps preserve types.
LEMMA SweeperTypes ==
  CloudTypeOK /\ ApiTypeOK /\ SWTypeOK /\ (SWStep \/ SWError)
    => CloudTypeOK' /\ ApiTypeOK' /\ SWTypeOK'
<1> SUFFICES ASSUME CloudTypeOK, ApiTypeOK, SWTypeOK, SWStep \/ SWError
             PROVE  CloudTypeOK' /\ ApiTypeOK' /\ SWTypeOK'
  OBVIOUS
<1>0. /\ lb \in [LBId -> LBRecord] /\ fip \in [FipId -> FipRecord]
      /\ "PENDING_DELETE" \in LBStatus
  BY DEF CloudTypeOK, LBRecord, FipRecord, LBStatus, Pending
<1>1. CASE Tick
  BY <1>1, CloudStays, ApiStays DEF Tick, SWTypeOK
<1>2. CASE SweepNova
  <2>1. CloudTypeOK'
    BY <1>2 DEF SweepNova, CloudTypeOK
  <2> QED BY <1>2, <2>1, ApiStays DEF SweepNova, cycleVars, SWTypeOK
<1>3. CASE ListLBs
  <2>1. /\ seen' \in [Service -> {{}, {TRUE}, {FALSE}}]
        /\ slbs' \subseteq LBId /\ stodo' \subseteq LBId
    <3>1. CASE known
      <4>1. PICK S, I : seen' = Checked(S, I)
        BY <1>3, <3>1 DEF ListLBs
      <4>2. slbs' \subseteq {l \in LBId : LiveLB(l)} /\ UNCHANGED stodo
        BY <1>3, <3>1 DEF ListLBs
      <4>3. seen' \in [Service -> {{}, {TRUE}, {FALSE}}]
        BY <4>1, CheckedTypes
      <4> QED BY <4>2, <4>3 DEF SWTypeOK
    <3>2. CASE ~known
      BY <1>3, <3>2 DEF ListLBs, SWTypeOK
    <3> QED BY <3>1, <3>2
  <2> QED BY <1>3, <2>1, CloudStays, ApiStays DEF ListLBs, SWTypeOK
<1>4. CASE DeleteOrphanLB
  <2>1. lb' \in [LBId -> LBRecord]
    <3>1. slbs \subseteq LBId
      BY DEF SWTypeOK
    <3> QED BY <1>0, <1>4, <3>1, LBTypes DEF DeleteOrphanLB, RequestDelete
  <2>2. CloudTypeOK' /\ ApiTypeOK'
    BY <1>4, <2>1, ApiStays DEF DeleteOrphanLB, CloudTypeOK, LBRecord
  <2>3. SWTypeOK'
    <3>1. EndCycle \/ (/\ UNCHANGED <<known, seen, sfips, stodo>>
                       /\ slbs' \subseteq slbs
                       /\ spc' \in {spc, "fips"})
      BY <1>4 DEF DeleteOrphanLB, cycleVars
    <3>2. session' \in BOOLEAN
      BY <1>4 DEF DeleteOrphanLB, SWTypeOK
    <3> QED BY <1>4, <3>1, <3>2, CycleEnds DEF DeleteOrphanLB, SWTypeOK
  <2> QED BY <2>2, <2>3
<1>5. CASE ListFips
  <2>1. seen' \in [Service -> {{}, {TRUE}, {FALSE}}] /\ sfips' \subseteq FipId
    <3>1. CASE known
      <4>1. PICK S, I : seen' = Checked(S, I)
        BY <1>5, <3>1 DEF ListFips
      <4>2. sfips' \subseteq {f \in FipId : fip[f].state = "allocated"}
        BY <1>5, <3>1 DEF ListFips
      <4>3. seen' \in [Service -> {{}, {TRUE}, {FALSE}}]
        BY <4>1, CheckedTypes
      <4> QED BY <4>2, <4>3
    <3>2. CASE ~known
      BY <1>5, <3>2 DEF ListFips, SWTypeOK
    <3> QED BY <3>1, <3>2
  <2> QED BY <1>5, <2>1, CloudStays, ApiStays DEF ListFips, SWTypeOK
<1>6. CASE DeleteOrphanFip
  <2>1. fip' \in [FipId -> FipRecord]
    <3>1. \A f \in sfips : {f} \in SUBSET FipId
      BY DEF SWTypeOK
    <3> QED BY <1>0, <1>6, <3>1, FipTypes DEF DeleteOrphanFip
  <2>2. CloudTypeOK' /\ ApiTypeOK'
    BY <1>6, <2>1, ApiStays DEF DeleteOrphanFip, CloudTypeOK, FipRecord
  <2>3. SWTypeOK'
    <3>1. EndCycle \/ (/\ UNCHANGED <<known, seen, slbs, stodo>>
                       /\ sfips' \subseteq sfips
                       /\ spc' \in {spc, "cluster"})
      BY <1>6 DEF DeleteOrphanFip, cycleVars
    <3>2. session' \in BOOLEAN
      BY <1>6 DEF DeleteOrphanFip, SWTypeOK
    <3> QED BY <1>6, <3>1, <3>2, CycleEnds DEF DeleteOrphanFip, SWTypeOK
  <2> QED BY <2>2, <2>3
<1>7. CASE SweepCluster
  BY <1>7, CloudStays, ApiStays DEF SweepCluster, SWTypeOK
<1>8. CASE SWSweep
  <2>1. stodo \in SUBSET LBId
    BY DEF SWTypeOK
  <2>2. CloudTypeOK' /\ stodo' \in SUBSET LBId /\ spc' \in {"idle", "fip", "lb", "sg", "swept"}
    BY <1>8, <2>1, OrphanSweepMoves, SweepTypes DEF SWSweep
  <2> QED BY <1>8, <2>2, ApiStays DEF SWSweep, SWTypeOK
<1>9. CASE AfterClusterSweep
  BY <1>9, CloudStays, ApiStays DEF AfterClusterSweep, cycleVars, SWTypeOK
<1>10. CASE SweepOrphanSG
  <2>1. CloudTypeOK'
    BY <1>10 DEF SweepOrphanSG, CloudTypeOK
  <2>2. EndCycle \/ (spc' = "secrets" /\ UNCHANGED cycleVars)
    BY <1>10 DEF SweepOrphanSG
  <2>3. SWTypeOK'
    BY <1>10, <2>2, CycleEnds DEF SweepOrphanSG, cycleVars, SWTypeOK
  <2> QED BY <1>10, <2>1, <2>3, ApiStays DEF SweepOrphanSG
<1>11. CASE SweepSecrets
  <2>1. session' \in BOOLEAN
    BY <1>11 DEF SweepSecrets, SWTypeOK
  <2> QED BY <1>11, <2>1, CycleEnds, CloudStays, ApiStays DEF SweepSecrets
<1>12. CASE SWError
  <2>1. session' \in BOOLEAN
    BY <1>12 DEF SWError, SWTypeOK
  <2> QED BY <1>12, <2>1, CycleEnds, CloudStays, ApiStays DEF SWError
<1> QED BY <1>1, <1>2, <1>3, <1>4, <1>5, <1>6, <1>7, <1>8, <1>9, <1>10, <1>11, <1>12
           DEF SWStep

\* What no step of an actor touches stays well typed.
LEMMA OthersStay ==
  /\ SRTypeOK /\ JobHolds /\ UNCHANGED srVars => SRTypeOK' /\ JobHolds'
  /\ CRTypeOK /\ UNCHANGED crVars => CRTypeOK'
  /\ SWTypeOK /\ UNCHANGED swVars => SWTypeOK'
BY DEF srVars, SRTypeOK, JobHolds, crVars, CRTypeOK, swVars, cycleVars, SWTypeOK

\* A Session that the Manager stops takes its reconcile with it.
LEMMA StopTypes ==
  ASSUME SRTypeOK, JobHolds, NEW b, StopIf(b)
  PROVE  SRTypeOK' /\ JobHolds'
BY RecordTypes, OthersStay DEF StopIf, SRTypeOK, JobHolds, PC

\* Every step preserves types.
LEMMA TypeNext == TeardownTypes /\ [Next]_vars => TeardownTypes'
<1> SUFFICES ASSUME TeardownTypes, [Next]_vars PROVE TeardownTypes'
  OBVIOUS
<1> USE DEF TeardownTypes
<1>0. /\ CloudTypeOK /\ ApiTypeOK /\ SRTypeOK /\ JobHolds
      /\ UNCHANGED envVars => generation' \in 0..Recreations /\ late' \subseteq LBId
  BY DEF TypeInv, envVars
<1>1. CASE SRWork
  <2>1. TypeInv'
    BY <1>1, TypeReconcile DEF SRWork
  <2> QED BY <1>1, <2>1, OthersStay DEF SRWork
<1>2. CASE CRWork
  BY <1>0, <1>2, ClusterTypes, OthersStay DEF CRWork, TypeInv
<1>3. CASE SWWork
  BY <1>0, <1>3, SweeperTypes, OthersStay, StopTypes DEF SWWork, TypeInv
<1>4. CASE Failure
  <2>1. CASE ReconcileError /\ UNCHANGED <<crVars, swVars, envVars>>
    BY <1>0, <2>1, ErrorTypes, OthersStay
  <2>2. CASE CRError /\ UNCHANGED <<srVars, swVars, envVars>>
    BY <1>0, <2>2, ClusterTypes, OthersStay DEF TypeInv
  <2>3. CASE SWError /\ UNCHANGED <<srVars, crVars, envVars>>
    BY <1>0, <2>3, SweeperTypes, OthersStay DEF TypeInv
  <2> QED BY <1>4, <2>1, <2>2, <2>3 DEF Failure
<1>5. CASE UserStep
  <2>1. ApiTypeOK'
    BY <1>0, <1>5, EditTypes DEF UserStep
  <2> QED BY <1>0, <1>5, <2>1, CloudStays, OthersStay DEF UserStep, TypeInv
<1>6. CASE HelmReleaseGone
  <2>1. ApiTypeOK'
    BY <1>0, <1>6 DEF HelmReleaseGone, ApiTypeOK
  <2> QED BY <1>0, <1>6, <2>1, CloudStays, OthersStay DEF HelmReleaseGone, TypeInv
<1>7. CASE TenantDown
  <2>1. ApiTypeOK'
    BY <1>0, <1>7, RecordTypes DEF TenantDown, ApiTypeOK
  <2>2. SWTypeOK'
    BY <1>7 DEF TenantDown, cycleVars, SWTypeOK
  <2> QED BY <1>0, <1>7, <2>1, <2>2, CloudStays, OthersStay, StopTypes DEF TenantDown, TypeInv
<1>8. CASE WorkersDown
  <2>1. CloudTypeOK'
    BY <1>0, <1>8 DEF WorkersDown, CloudTypeOK
  <2> QED BY <1>0, <1>8, <2>1, ApiStays, OthersStay DEF WorkersDown, TypeInv
<1>9. CASE Recreate
  <2>1. ApiTypeOK'
    BY <1>0, <1>9 DEF Recreate, ApiTypeOK, KSC
  <2>2. generation' \in 0..Recreations /\ late' \subseteq LBId
    BY <1>9, TeardownAssumption DEF Recreate
  <2> QED BY <1>0, <1>9, <2>1, <2>2, CloudStays, OthersStay DEF Recreate, TypeInv
<1>10. CASE SessionUp
  <2>1. SWTypeOK'
    BY <1>10 DEF SessionUp, cycleVars, SWTypeOK
  <2> QED BY <1>0, <1>10, <2>1, CloudStays, ApiStays, OthersStay DEF SessionUp, TypeInv
<1>11. CASE CloudStep
  <2>1. CloudTypeOK'
    BY <1>0, <1>11, SettleTypes DEF CloudStep
  <2> QED BY <1>0, <1>11, <2>1, ApiStays, OthersStay DEF CloudStep, TypeInv
<1>12. CASE UNCHANGED vars
  BY <1>0, <1>12, CloudStays, ApiStays, OthersStay DEF vars, TypeInv
<1> QED BY <1>1, <1>2, <1>3, <1>4, <1>5, <1>6, <1>7, <1>8, <1>9, <1>10, <1>11, <1>12 DEF Next

\* TeardownTypes is an invariant.
LEMMA TypeInvariant == Spec => []TeardownTypes
BY TypeInit, TypeNext, PTL DEF Spec

\* Every state the three actors, the tenant's owner and the cloud reach is
\* well typed, whatever fails and however often the tenant is created again.
THEOREM TypeCorrect == Spec => []TypeOK
<1>1. TeardownTypes => TypeOK
  BY DEF TeardownTypes, TypeInv, TypeOK
<1> QED BY <1>1, TypeInvariant, PTL

-----------------------------------------------------------------------------
(***************************************************************************)
(* What the HelmRelease's finalizer holds back.  Nobody undoes a delete    *)
(* that was accepted: all a step can add, while the HelmRelease is not     *)
(* live, is a load balancer created late.                                  *)
(***************************************************************************)
\* A sweep undoes no delete, and deletes what it takes off its list.
LEMMA SweepDeletes ==
  ASSUME CloudTypeOK, NEW p, NEW q, NEW T, NEW U, SweepMove(p, q, T, U)
  PROVE  /\ \A l \in LBId : Deleted(l) => Deleted(l)'
         /\ p = "list" => \A l \in LBId \ U : Deleted(l)'
         /\ p # "list" /\ q # "idle" => \A l \in T \ U : l \in LBId => Deleted(l)'
<1>0. lb \in [LBId -> LBRecord]
  BY DEF CloudTypeOK, LBRecord
<1>1. CASE UNCHANGED lb
  <2>1. p = "list" => U = {l \in LBId : LiveLB(l)}
    BY DEF SweepMove
  <2>2. p # "list" /\ q # "idle" => T \subseteq U
    <3>1. ASSUME NEW l \in LBId, Deletable(l), RequestDelete(l) PROVE FALSE
      BY <1>0, <1>1, <3>1 DEF Deletable, RequestDelete, LBRecord
    <3> QED BY <3>1 DEF SweepMove
  <2> QED BY <1>1, <2>1, <2>2 DEF Deleted, LiveLB
<1>2. ASSUME NEW l \in LBId \cap T, RequestDelete(l), U = T \ {l}, p = "lb"
      PROVE  /\ \A m \in LBId : Deleted(m) => Deleted(m)'
             /\ Deleted(l)'
  BY <1>0, <1>2 DEF RequestDelete, Deleted, LBRecord
<1> QED BY <1>1, <1>2 DEF SweepMove, cloudVars

\* A step that is the reconciler's, Octavia's or the orphan sweeper's undoes
\* no delete either, but for what the reconciler creates.
LEMMA DeletedStays ==
  ASSUME TeardownTypes, [Next]_vars, hr # "live"
  PROVE  /\ late \subseteq late'
         /\ \A l \in LBId : Deleted(l) => Deleted(l)' \/ l \in late'
<1>0. /\ lb \in [LBId -> LBRecord] /\ CloudTypeOK
      /\ pc \in {"sync", "fip", "cLB"} => job.lb \in LBId
      /\ slbs \subseteq LBId
  BY DEF TeardownTypes, TypeInv, CloudTypeOK, LBRecord, JobHolds, SWTypeOK
<1>1. CASE SRWork
  <2>1. late' = late \cup {l \in LBId : lb[l].status = "unused" /\ lb'[l].status # "unused"}
    BY <1>1 DEF SRWork
  <2>2. ASSUME NEW l \in LBId, Deleted(l), lb[l].status # "unused" PROVE Deleted(l)'
    <3>1. CASE UNCHANGED lb
      BY <2>2, <3>1 DEF Deleted
    <3>2. CASE EnsureLB
      BY <1>0, <2>2, <3>2 DEF EnsureLB, FreshLB, CreateLB, Deleted, LBRecord
    <3>3. CASE SyncListenersAndMembers
      BY <1>0, <2>2, <3>3 DEF SyncListenersAndMembers, Deleted, LBRecord
    <3>4. CASE DeleteLB
      BY <1>0, <2>2, <3>4 DEF DeleteLB, RequestDelete, Deleted, LBRecord
    <3>5. EnsureFloatingIP \/ DeleteLBFloatingIP => UNCHANGED lb
      BY DEF EnsureFloatingIP, DeleteLBFloatingIP
    <3> QED BY <1>1, <3>1, <3>2, <3>3, <3>4, <3>5, QuietSteps DEF SRWork
  <2> QED BY <2>1, <2>2 DEF Deleted
<1>2. CASE CRSweep /\ UNCHANGED envVars
  BY <1>0, <1>2, ClusterSweepMoves, SweepDeletes DEF CRSweep, envVars
<1>3. CASE SWSweep /\ UNCHANGED envVars
  BY <1>0, <1>3, OrphanSweepMoves, SweepDeletes DEF SWSweep, envVars
<1>4. CASE DeleteOrphanLB /\ UNCHANGED envVars
  BY <1>0, <1>4 DEF DeleteOrphanLB, RequestDelete, Deleted, LBRecord, envVars
<1>5. ASSUME NEW l \in LBId, Settle(l) \/ SettleError(l), UNCHANGED envVars
      PROVE  late \subseteq late' /\ \A m \in LBId : Deleted(m) => Deleted(m)'
  BY <1>0, <1>5 DEF Settle, SettleError, Deleted, LBRecord, Pending, envVars
<1>6. CASE UNCHANGED <<lb, late>>
  BY <1>6 DEF Deleted
<1>7. \/ SRWork
      \/ (CRSweep \/ SWSweep \/ DeleteOrphanLB) /\ UNCHANGED envVars
      \/ \E l \in LBId : (Settle(l) \/ SettleError(l)) /\ UNCHANGED envVars
      \/ UNCHANGED <<lb, late>>
  <2>1. CRWork => (CRSweep /\ UNCHANGED envVars) \/ UNCHANGED <<lb, late>>
    BY DEF CRWork, CRStep, CRGet, CRResolve, DropClusterFinalizer, cloudVars, envVars
  <2>2. SWWork => \/ (SWSweep \/ DeleteOrphanLB) /\ UNCHANGED envVars
                  \/ UNCHANGED <<lb, late>>
    BY DEF SWWork, SWStep, Tick, SweepNova, ListLBs, ListFips, DeleteOrphanFip, SweepCluster,
           AfterClusterSweep, SweepOrphanSG, SweepSecrets, cloudVars, envVars
  <2>3. Failure => UNCHANGED <<lb, late>>
    BY DEF Failure, ReconcileError, CRError, SWError, cloudVars, envVars
  <2>4. UserStep \/ HelmReleaseGone \/ TenantDown \/ WorkersDown \/ Recreate \/ SessionUp
          => UNCHANGED <<lb, late>>
    BY DEF UserStep, HelmReleaseGone, TenantDown, WorkersDown, Recreate, SessionUp,
           cloudVars, envVars
  <2>5. CloudStep => \E l \in LBId : (Settle(l) \/ SettleError(l)) /\ UNCHANGED envVars
    BY DEF CloudStep
  <2> QED BY <2>1, <2>2, <2>3, <2>4, <2>5 DEF Next, vars, cloudVars, envVars
<1> QED BY <1>1, <1>2, <1>3, <1>4, <1>5, <1>6, <1>7

\* Who moves the cluster reconciler, and who the HelmRelease.
LEMMA ClusterMoves ==
  [Next]_vars =>
    /\ CRWork \/ CRError \/ UNCHANGED crVars
    /\ \/ UNCHANGED hr
       \/ hr = "live" /\ hr' = "terminating" /\ UNCHANGED crVars
       \/ Recreate
       \/ hr # "live" /\ HelmReleaseGone
<1> SUFFICES ASSUME [Next]_vars
             PROVE  /\ CRWork \/ CRError \/ UNCHANGED crVars
                    /\ \/ UNCHANGED hr
                       \/ hr = "live" /\ hr' = "terminating" /\ UNCHANGED crVars
                       \/ Recreate
                       \/ hr # "live" /\ HelmReleaseGone
  OBVIOUS
<1>1. SRWork => UNCHANGED <<hr, crVars>>
  BY DEF SRWork, ReconcileStep, Get, Resolve, HRDeleteGuard, WipeOperatorRules,
         AddFinalizer, EnsureLB, SyncListenersAndMembers, EnsureFloatingIP,
         EnsureClusterSecurityGroup, EnsureSGAttachedToWorkers,
         DetachDefaultSGFromWorkers, EnsureNodePortRules, PatchStatus, CleanupRules,
         DeleteLBFloatingIP, DeleteLB, ClearStatusIngress, DropFinalizer, apiVars
<1>2. CRWork => UNCHANGED hr
  BY DEF CRWork, CRStep, CRGet, CRResolve, CRSweep, DropClusterFinalizer, apiVars
<1>3. SWWork => UNCHANGED <<hr, crVars>>
  BY DEF SWWork, SWStep, Tick, SweepNova, ListLBs, DeleteOrphanLB, ListFips, DeleteOrphanFip,
         SweepCluster, SWSweep, AfterClusterSweep, SweepOrphanSG, SweepSecrets, apiVars
<1>4. Failure => UNCHANGED hr /\ (CRError \/ UNCHANGED crVars)
  BY DEF Failure, ReconcileError, CRError, SWError, apiVars
<1>5. UserStep => /\ UNCHANGED crVars
                  /\ UNCHANGED hr \/ (hr = "live" /\ hr' = "terminating")
  BY DEF UserStep, CreateService, DeleteService, DeleteKSC, DeleteHelmRelease
<1>6. HelmReleaseGone \/ Recreate \/ TenantDown \/ WorkersDown \/ SessionUp \/ CloudStep
        => UNCHANGED crVars
  BY DEF HelmReleaseGone, Recreate, TenantDown, WorkersDown, SessionUp, CloudStep
<1>7. TenantDown \/ WorkersDown \/ SessionUp \/ CloudStep => UNCHANGED hr
  BY DEF TenantDown, WorkersDown, SessionUp, CloudStep, apiVars
<1>8. HelmReleaseGone => hr # "live"
  BY DEF HelmReleaseGone
<1> QED BY <1>1, <1>2, <1>3, <1>4, <1>5, <1>6, <1>7, <1>8 DEF Next, vars, apiVars

\* SweepInv is inductive, given the types.
LEMMA SweepInvNext == TeardownTypes /\ SweepInv /\ [Next]_vars => SweepInv'
<1> SUFFICES ASSUME TeardownTypes, SweepInv, [Next]_vars, Sibling, generation' = 0
             PROVE  SweepInv'
  BY DEF SweepInv
<1>1. generation = 0 /\ ~Recreate
  <2>1. generation \in Nat
    BY TeardownAssumption DEF TeardownTypes
  <2>2. /\ UNCHANGED generation \/ Recreate
        /\ Recreate => generation' = generation + 1
    BY DEF Next, SRWork, CRWork, SWWork, Failure, UserStep, HelmReleaseGone, TenantDown,
           WorkersDown, Recreate, SessionUp, CloudStep, vars, envVars
  <2> QED BY <2>1, <2>2
<1>2. /\ hr = "live" => hrFin /\ cpc = "idle"
      /\ hr = "gone" => ~hrFin
      /\ cpc \in {"sg", "swept"} => ctodo = {}
      /\ cpc \in {"fip", "lb", "sg", "swept"} =>
           \A l \in LBId \ (late \cup ctodo) : Deleted(l)
      /\ ~hrFin => \A l \in LBId \ late : Deleted(l)
      /\ hr \in {"live", "terminating", "gone"}
      /\ CloudTypeOK
  BY <1>1 DEF SweepInv, TeardownTypes, TypeInv, ApiTypeOK
<1>3. CASE hr = "live"
  <2>1. UNCHANGED crVars /\ hr' # "gone"
    BY <1>1, <1>2, <1>3, ClusterMoves
       DEF CRWork, CRStep, CRGet, CRResolve, CRSweep, DropClusterFinalizer, CRError,
           CSweep!SweepStep, CSweep!SweepList, CSweep!SweepFloatingIP, CSweep!SweepLB,
           CSweep!SweepSG, HelmReleaseGone
  <2> QED BY <1>2, <1>3, <2>1 DEF SweepInv, crVars
<1>4. CASE hr # "live"
  <2>0. /\ late \subseteq late'
        /\ \A l \in LBId : Deleted(l) => Deleted(l)' \/ l \in late'
        /\ hr' # "live"
        /\ hr' = "gone" => ~hrFin
        /\ CRWork => UNCHANGED hr
    BY <1>1, <1>2, <1>4, DeletedStays, ClusterMoves
       DEF HelmReleaseGone, CRWork, CRStep, CRGet, CRResolve, CRSweep, DropClusterFinalizer,
           apiVars
  <2>1. CASE UNCHANGED crVars
    BY <1>2, <2>0, <2>1 DEF SweepInv, crVars
  <2>2. CASE CRError
    BY <1>2, <2>0, <2>2 DEF SweepInv, CRError
  <2>3. CASE CRGet
    BY <1>2, <1>4, <2>0, <2>3 DEF SweepInv, CRGet
  <2>4. CASE CRResolve
    BY <1>2, <2>0, <2>4 DEF SweepInv, CRResolve
  <2>5. CASE DropClusterFinalizer
    BY <1>2, <2>0, <2>5 DEF SweepInv, DropClusterFinalizer
  <2>6. CASE CRSweep
    <3>1. SweepMove(cpc, cpc', ctodo, ctodo') /\ UNCHANGED hrFin
      BY <2>6, ClusterSweepMoves DEF CRSweep
    <3>2. cpc' \in {"sg", "swept"} => ctodo' = {}
      BY <1>2, <3>1 DEF SweepMove
    <3>3. ASSUME cpc' \in {"fip", "lb", "sg", "swept"}, NEW l \in LBId \ (late' \cup ctodo')
          PROVE  Deleted(l)'
      <4>1. CASE cpc = "list"
        BY <1>2, <3>1, <3>3, <4>1, SweepDeletes
      <4>2. CASE cpc # "list" /\ l \in ctodo
        BY <1>2, <3>1, <3>3, <4>2, SweepDeletes
      <4>3. CASE cpc # "list" /\ l \notin ctodo
        <5>1. cpc \in {"fip", "lb", "sg", "swept"}
          BY <3>1, <4>3 DEF SweepMove
        <5> QED BY <1>2, <2>0, <3>3, <4>3, <5>1
      <4> QED BY <4>1, <4>2, <4>3
    <3> QED BY <1>2, <2>0, <3>1, <3>2, <3>3 DEF SweepInv
  <2> QED BY <2>1, <2>2, <2>3, <2>4, <2>5, <2>6, ClusterMoves DEF CRWork, CRStep
<1> QED BY <1>3, <1>4

\* The finalizer on the HelmRelease does its work, for any number of Services
\* and load balancers, whatever calls of the three actors fail: where
\* credentials can be found, a HelmRelease is not released before the delete
\* of every load balancer it left behind was accepted.
THEOREM SweepBeforeRelease == Spec => []SweptBeforeGone
<1>1. Init => SweepInv
  BY DEF Init, CRInit, SweepInv
<1>2. SweepInv => SweptBeforeGone
  BY DEF SweepInv, SweptBeforeGone
<1> QED BY <1>1, <1>2, SweepInvNext, TypeInvariant, PTL DEF Spec

-----------------------------------------------------------------------------
(***************************************************************************)
(* The sweeper in a live tenant.  As long as the tenant lives and was      *)
(* created once, the cluster's sweep has not begun and the orphan sweeper  *)
(* finds a Service for all it lists, so that the reconciler alone asks for *)
(* and deletes load balancers: CloudInv and ClaimInv hold as they do       *)
(* without the sweepers, and they in turn give the sweeper its Service.    *)
(***************************************************************************)
\* A tenant in its first life was always so.
LEMMA FirstLifeOnly ==
  ASSUME TeardownTypes, [Next]_vars, FirstLife'
  PROVE  FirstLife /\ ksc'.secret = ksc.secret
<1>1. generation \in Nat /\ ksc \in KSC
  BY TeardownAssumption DEF TeardownTypes, TypeInv, ApiTypeOK
<1>2. UNCHANGED <<generation, ksc, hr>> => FirstLife /\ ksc'.secret = ksc.secret
  BY DEF FirstLife, TenantLive
<1>3. ~Recreate
  BY <1>1 DEF Recreate, FirstLife
<1>4. SRWork => UNCHANGED <<generation, ksc, hr>>
  BY DEF SRWork, ReconcileStep, Get, Resolve, HRDeleteGuard, WipeOperatorRules,
         AddFinalizer, EnsureLB, SyncListenersAndMembers, EnsureFloatingIP,
         EnsureClusterSecurityGroup, EnsureSGAttachedToWorkers,
         DetachDefaultSGFromWorkers, EnsureNodePortRules, PatchStatus, CleanupRules,
         DeleteLBFloatingIP, DeleteLB, ClearStatusIngress, DropFinalizer, apiVars
<1>5. CRWork => UNCHANGED <<generation, ksc, hr>>
  BY DEF CRWork, CRStep, CRGet, CRResolve, CRSweep, DropClusterFinalizer, apiVars, envVars
<1>6. SWWork => UNCHANGED <<generation, ksc, hr>>
  BY DEF SWWork, SWStep, Tick, SweepNova, ListLBs, DeleteOrphanLB, ListFips, DeleteOrphanFip,
         SweepCluster, SWSweep, AfterClusterSweep, SweepOrphanSG, SweepSecrets, apiVars, envVars
<1>7. Failure => UNCHANGED <<generation, ksc, hr>>
  BY DEF Failure, ReconcileError, CRError, SWError, apiVars, envVars
<1>8. UserStep => FirstLife /\ ksc'.secret = ksc.secret
  BY <1>1 DEF UserStep, CreateService, DeleteService, DeleteKSC, DeleteHelmRelease, envVars,
              FirstLife, TenantLive, KSC
<1>9. ~HelmReleaseGone
  BY DEF HelmReleaseGone, FirstLife, TenantLive
<1>10. TenantDown \/ WorkersDown \/ SessionUp \/ CloudStep => UNCHANGED <<generation, ksc, hr>>
  BY DEF TenantDown, WorkersDown, SessionUp, CloudStep, apiVars, envVars
<1>11. UNCHANGED vars => UNCHANGED <<generation, ksc, hr>>
  BY DEF vars, apiVars, envVars
<1> QED BY <1>2, <1>3, <1>4, <1>5, <1>6, <1>7, <1>8, <1>9, <1>10, <1>11 DEF Next

\* What the sweeper checks exists: a Service that owns something carries the
\* finalizer, and so the apiserver keeps it.
LEMMA CheckedExist ==
  ASSUME ~StaleReads, TeardownTypes, FirstLife, ClaimInv,
         \A s \in Service : seen[s] # {FALSE},
         NEW S, NEW I, \A s \in S \cap Service : Owns(s)
  PROVE  \A s \in Service : Checked(S, I)[s] # {FALSE}
<1> SUFFICES ASSUME NEW s \in Service, s \in S, seen[s] = {}
             PROVE  {~session \/ s \in I \/ Read(s).exists} # {FALSE}
  BY DEF Checked
<1>1. svc[s].fin
  BY DEF ClaimInv, Guarded, FirstLife
<1>2. Read(s).exists
  BY <1>1 DEF Read, ClaimInv, SeenFinalizer
<1> QED BY <1>2

\* In its first life a live tenant's load balancers and floating IPs move only
\* as the reconciler and Octavia move them, ...
LEMMA LifeMoves ==
  ASSUME TeardownTypes, FirstLife, SweepersAtRest, [Next]_vars
  PROVE  CloudMove /\ SvcMove
<1>1. CASE SRWork
  BY <1>1, ReconcilerWrites DEF SRWork, CloudMove
<1>2. CASE CRWork
  <2>1. UNCHANGED <<cloudVars, apiVars, srVars>>
    BY <1>2 DEF CRWork, CRStep, CRGet, CRResolve, CRSweep, DropClusterFinalizer,
           CSweep!SweepStep, CSweep!SweepList, CSweep!SweepFloatingIP, CSweep!SweepLB,
           CSweep!SweepSG, SweepersAtRest
  <2> QED BY <2>1 DEF cloudVars, apiVars, srVars, CloudMove, SvcMove
<1>3. CASE SWWork
  <2>1. ~SWSweep /\ ~AfterClusterSweep
    BY DEF SWSweep, AfterClusterSweep, OSweep!SweepStep, OSweep!SweepList,
           OSweep!SweepFloatingIP, OSweep!SweepLB, OSweep!SweepSG, SweepersAtRest
  <2>2. UNCHANGED <<lb, fip, svc>>
    BY <1>3, <2>1 DEF SWWork, SWStep, Tick, SweepNova, ListLBs, DeleteOrphanLB, ListFips,
           DeleteOrphanFip, SweepCluster, SweepOrphanSG, SweepSecrets, cloudVars, apiVars,
           SweepersAtRest
  <2>3. pc' = "idle" \/ UNCHANGED <<pc, job>>
    BY <1>3 DEF SWWork, StopIf, srVars
  <2> QED BY <2>2, <2>3 DEF CloudMove, SvcMove
<1>4. CASE Failure
  BY <1>4 DEF Failure, ReconcileError, CRError, SWError, cloudVars, apiVars, srVars,
              CloudMove, SvcMove
<1>5. CASE UserStep
  <2>1. CloudMove
    BY <1>5 DEF UserStep, cloudVars, srVars, CloudMove
  <2>2. SvcMove
    BY <1>5 DEF UserStep, DeleteKSC, DeleteHelmRelease, SvcMove
  <2> QED BY <2>1, <2>2
<1>6. ~HelmReleaseGone /\ ~TenantDown /\ ~WorkersDown /\ ~Recreate
  BY DEF HelmReleaseGone, TenantDown, WorkersDown, Recreate, FirstLife, TenantLive
<1>7. CASE SessionUp \/ UNCHANGED vars
  BY <1>7 DEF SessionUp, vars, cloudVars, apiVars, srVars, CloudMove, SvcMove
<1>8. CASE CloudStep
  BY <1>8 DEF CloudStep, apiVars, srVars, CloudMove, SvcMove
<1> QED BY <1>1, <1>2, <1>3, <1>4, <1>5, <1>6, <1>7, <1>8 DEF Next

\* ... and the sweepers find nothing to do.
LEMMA LifeRests ==
  ASSUME ~StaleReads, TeardownTypes, FirstLife, CloudInv, ClaimInv, SweepersAtRest, [Next]_vars
  PROVE  SweepersAtRest'
<1>0. /\ cpc = "idle" /\ (spc # "idle" => known)
      /\ spc \notin {"list", "fip", "lb", "sg", "swept"}
      /\ slbs = {} /\ sfips = {} /\ stodo = {}
      /\ \A s \in Service : seen[s] # {FALSE}
      /\ hr = "live"
  BY DEF SweepersAtRest, FirstLife, TenantLive
<1>1. CASE UNCHANGED <<crVars, spc, cycleVars>>
  BY <1>0, <1>1 DEF crVars, cycleVars, SweepersAtRest
<1>2. CASE CRStep /\ UNCHANGED swVars
  <2>1. cpc' = "idle"
    BY <1>0, <1>2 DEF CRStep, CRGet, CRResolve, CRSweep, DropClusterFinalizer,
           CSweep!SweepStep, CSweep!SweepList, CSweep!SweepFloatingIP, CSweep!SweepLB,
           CSweep!SweepSG
  <2> QED BY <1>0, <1>2, <2>1 DEF swVars, cycleVars, SweepersAtRest
<1>3. CASE CRError
  BY <1>0, <1>3 DEF CRError
<1>4. CASE EndCycle /\ UNCHANGED crVars
  BY <1>0, <1>4 DEF EndCycle, Unseen, crVars, SweepersAtRest
<1>5. CASE SWStep /\ UNCHANGED crVars
  <2>0. UNCHANGED cpc
    BY <1>5 DEF crVars
  <2>1. CASE Tick
    BY <1>0, <2>0, <2>1 DEF Tick, SweepersAtRest
  <2>2. CASE SweepNova \/ SweepCluster
    BY <1>0, <2>0, <2>2 DEF SweepNova, SweepCluster, cycleVars, SweepersAtRest
  <2>3. CASE ListLBs
    <3>1. known
      BY <1>0, <2>3 DEF ListLBs
    <3> DEFINE live == {l \in LBId : LiveLB(l)}
               owners == {lb[l].svc : l \in live}
    <3>2. \A s \in owners \cap Service : Owns(s)
      BY DEF Owns, LBsNamed
    <3>3. PICK I : seen' = Checked(owners, I)
      BY <2>3, <3>1 DEF ListLBs
    <3>4. \A s \in Service : seen'[s] # {FALSE}
      BY <1>0, <3>2, <3>3, CheckedExist
    <3>5. \A l \in live : lb[l].svc \in Service
      BY DEF CloudInv, OneLBEach
    <3>6. slbs' = {}
      BY <2>3, <3>1, <3>4, <3>5 DEF ListLBs
    <3> QED BY <1>0, <2>0, <2>3, <3>1, <3>4, <3>6 DEF ListLBs, SweepersAtRest
  <2>4. CASE DeleteOrphanLB \/ DeleteOrphanFip
    BY <1>0, <2>0, <2>4 DEF DeleteOrphanLB, DeleteOrphanFip, cycleVars, SweepersAtRest
  <2>5. CASE ListFips
    <3>1. known
      BY <1>0, <2>5 DEF ListFips
    <3> DEFINE tagged == {f \in FipId : fip[f].state = "allocated"}
               owners == {fip[f].svc : f \in tagged}
    <3>2. \A s \in owners \cap Service : Owns(s)
      BY DEF Owns, FipsTagged
    <3>3. PICK I : seen' = Checked(owners, I)
      BY <2>5, <3>1 DEF ListFips
    <3>4. \A s \in Service : seen'[s] # {FALSE}
      BY <1>0, <3>2, <3>3, CheckedExist
    <3>5. \A f \in tagged : fip[f].svc \in Service
      BY DEF CloudInv, OneLBEach, FipsFollowLBs
    <3>6. sfips' = {}
      BY <2>5, <3>1, <3>4, <3>5 DEF ListFips
    <3> QED BY <1>0, <2>0, <2>5, <3>1, <3>4, <3>6 DEF ListFips, SweepersAtRest
  <2>6. ~SWSweep /\ ~AfterClusterSweep
    BY <1>0 DEF SWSweep, AfterClusterSweep, OSweep!SweepStep, OSweep!SweepList,
           OSweep!SweepFloatingIP, OSweep!SweepLB, OSweep!SweepSG
  <2>7. CASE SweepOrphanSG
    BY <1>0, <2>0, <2>7 DEF SweepOrphanSG, cycleVars, SweepersAtRest
  <2>8. CASE SweepSecrets
    BY <1>4, <1>5, <2>8 DEF SweepSecrets
  <2> QED BY <1>5, <2>1, <2>2, <2>3, <2>4, <2>5, <2>6, <2>7, <2>8 DEF SWStep
<1> QED
  <2>1. SRWork \/ UserStep \/ HelmReleaseGone \/ TenantDown \/ WorkersDown \/ Recreate
          \/ SessionUp \/ CloudStep \/ UNCHANGED vars => UNCHANGED <<crVars, spc, cycleVars>>
    BY DEF SRWork, UserStep, HelmReleaseGone, TenantDown, WorkersDown, Recreate, SessionUp,
           CloudStep, vars, swVars
  <2>2. Failure => \/ UNCHANGED <<crVars, spc, cycleVars>>
                   \/ CRError
                   \/ EndCycle /\ UNCHANGED crVars
    BY DEF Failure, SWError, swVars
  <2> QED BY <1>1, <1>2, <1>3, <1>4, <1>5, <2>1, <2>2 DEF Next, CRWork, SWWork

\* LifeInv is inductive, given the types.
LEMMA LifeInvNext ==
  ASSUME ~StaleReads, TeardownTypes, LifeInv, [Next]_vars
  PROVE  LifeInv'
<1> SUFFICES ASSUME FirstLife' PROVE CloudInv' /\ ClaimInv' /\ SweepersAtRest'
  BY DEF LifeInv
<1>1. FirstLife /\ CloudInv /\ ClaimInv /\ SweepersAtRest /\ TypeInv /\ ksc'.secret
  BY FirstLifeOnly DEF LifeInv, ClaimInv, TeardownTypes
<1>2. TenantLive
  BY <1>1 DEF FirstLife
<1> QED BY <1>1, <1>2, LifeMoves, LifeRests, CloudInvMove, ClaimInvMove

\* Nothing is claimed, owned or listed at first.
LEMMA LifeInvInit == Init => LifeInv
<1> SUFFICES ASSUME Init PROVE LifeInv
  OBVIOUS
<1>1. CloudInv
  BY CloudInvInit DEF Init
<1>2. ksc.secret /\ SeenFinalizer /\ SafeToDrop
  BY DEF Init, SRInit, SeenFinalizer, SafeToDrop, NoObject
<1>3. Guarded
  BY DEF Init, CloudInit, Guarded, Owns, LBsNamed, FipsTagged, LiveLB
<1>4. SweepersAtRest
  BY DEF Init, CRInit, SWInit, Unseen, SweepersAtRest
<1> QED BY <1>1, <1>2, <1>3, <1>4 DEF LifeInv, ClaimInv

\* The sweeper's per-Service check condemns nothing of a live tenant's that
\* was created once, however far the reconciler's own create or cleanup has
\* got: with fresh reads, what it lists has its Service.
THEOREM LiveServicesSpared ==
  ASSUME ~StaleReads
  PROVE  Spec => []SweeperSparesLiveServices
<1>1. TeardownTypes /\ LifeInv /\ [Next]_vars => LifeInv'
  BY LifeInvNext
<1>2. LifeInv => SweeperSparesLiveServices
  BY DEF LifeInv, FirstLife, SweepersAtRest, SweeperSparesLiveServices
<1> QED BY <1>1, <1>2, LifeInvInit, TypeInvariant, PTL DEF Spec
=============================================================================
