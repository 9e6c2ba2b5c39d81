----------------------- MODULE ServiceLifecycleProofs -----------------------
(***************************************************************************)
(* Type correctness of ServiceLifecycle, for any set of Services and any   *)
(* bounds.                                                                 *)
(***************************************************************************)
EXTENDS ServiceLifecycle, ServiceReconcilerProofs

\* The initial states are well typed.
LEMMA TypeInit == Init => TypeInv
<1> SUFFICES ASSUME Init PROVE TypeInv
  OBVIOUS
<1>1. svc \in [Service -> SvcObject] /\ view \in [Service -> SvcObject]
  BY RecordTypes DEF Init, ApiInit
<1>2. ksc \in KSC
  BY DEF Init, ApiInit, KSC
<1>3. hr \in {"live", "terminating", "gone"} /\ ops \in 0..MaxOps
  BY ControlPlaneAssumption DEF Init, ApiInit
<1> QED BY <1>1, <1>2, <1>3, StartTypes DEF Init, ApiTypeOK, TypeInv

\* What users, operators, Octavia, CAPO and the informer do preserves types.
LEMMA TypeOthers ==
  TypeInv /\ (\/ UserStep /\ UNCHANGED <<cloudVars, srVars>>
              \/ (\E s \in Service : EditPorts(s)) /\ UNCHANGED srVars
              \/ (\E s \in Service : CacheSync(s)) /\ UNCHANGED <<cloudVars, srVars>>
              \/ ScaleWorkers /\ Edit /\ UNCHANGED <<svc, view, ksc, hr, srVars>>
              \/ CloudStep /\ UNCHANGED <<apiVars, srVars>>) => TypeInv'
<1> SUFFICES ASSUME CloudTypeOK, ApiTypeOK, SRTypeOK, JobHolds
             PROVE  (\/ UserStep /\ UNCHANGED <<cloudVars, srVars>>
                     \/ (\E s \in Service : EditPorts(s)) /\ UNCHANGED srVars
                     \/ (\E s \in Service : CacheSync(s)) /\ UNCHANGED <<cloudVars, srVars>>
                     \/ ScaleWorkers /\ Edit /\ UNCHANGED <<svc, view, ksc, hr, srVars>>
                     \/ CloudStep /\ UNCHANGED <<apiVars, srVars>>)
                    => CloudTypeOK' /\ ApiTypeOK' /\ SRTypeOK' /\ JobHolds'
  BY DEF TypeInv
<1>1. UNCHANGED srVars => SRTypeOK' /\ JobHolds'
  BY DEF srVars, SRTypeOK, JobHolds
<1>2. lb \in [LBId -> LBRecord]
  BY DEF CloudTypeOK, LBRecord
<1>3. UserStep => ApiTypeOK'
  <2>1. HelmReleaseGone => ApiTypeOK'
    BY DEF HelmReleaseGone, ApiTypeOK
  <2> QED BY <2>1, EditTypes DEF UserStep
<1>4. ASSUME NEW s \in Service, EditPorts(s)
      PROVE  CloudTypeOK' /\ ApiTypeOK'
  <2>1. lb' \in [LBId -> LBRecord]
    BY <1>2, <1>4, LBTypes DEF EditPorts, LBsNamed
  <2> QED BY <1>4, <2>1, EditTypes DEF EditPorts, CloudTypeOK, ApiTypeOK, LBRecord
<1>5. ASSUME NEW s \in Service, CacheSync(s)
      PROVE  ApiTypeOK'
  BY <1>5 DEF CacheSync, ApiTypeOK
<1>6. ScaleWorkers => CloudTypeOK'
  <2>1. ScaleWorkers => lb' \in [LBId -> LBRecord]
    BY <1>2, LBTypes DEF ScaleWorkers
  <2>2. ScaleWorkers => workers' \in BOOLEAN /\ portSGs' \subseteq {"default", "cluster"}
    BY DEF ScaleWorkers
  <2> QED BY <2>1, <2>2 DEF ScaleWorkers, CloudTypeOK, LBRecord
<1>7. CloudStep => CloudTypeOK'
  BY SettleTypes DEF CloudStep
<1>8. ScaleWorkers /\ Edit /\ UNCHANGED <<svc, view, ksc, hr>> => ApiTypeOK'
  BY EditTypes DEF ApiTypeOK
<1> QED
  BY <1>1, <1>3, <1>4, <1>5, <1>6, <1>7, <1>8, CloudStays, ApiStays

\* TypeInv is an invariant.
LEMMA TypeInvariant == Spec => []TypeInv
<1>1. TypeInv /\ UNCHANGED vars => TypeInv'
  BY CloudStays, ApiStays DEF TypeInv, vars, srVars, SRTypeOK, JobHolds
<1>2. TypeInv /\ [Next]_vars => TypeInv'
  BY <1>1, TypeReconcile, ErrorTypes, TypeOthers DEF Next
<1> QED BY <1>2, TypeInit, PTL DEF Spec

\* Every state the service controller and its environment reach is well
\* typed, whatever the order of calls, edits and failures.
THEOREM TypeCorrect == Spec => []TypeOK
<1>1. TypeInv => TypeOK
  BY DEF TypeInv, TypeOK
<1> QED BY <1>1, TypeInvariant, PTL
=============================================================================
