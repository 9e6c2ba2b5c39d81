------------------------- MODULE TenantSessionsProofs -------------------------
(***************************************************************************)
(* Proofs about TenantSessions, for every number of tenants, kubeconfigs   *)
(* and CR versions and for every set of faults: its state is well typed, a *)
(* tenant never has two Sessions, and a published Session is running.      *)
(*                                                                         *)
(* None of the three is inductive alone.  What carries them is where       *)
(* reconcileAll is: Sessions are being built only while it is in phase 3,  *)
(* for tenants that have none; they are being stopped only while it waits  *)
(* in phase 2 (or in stopAll), after they left the map; and in between     *)
(* exactly the published ones exist.                                       *)
(***************************************************************************)
EXTENDS TenantSessions, FiniteSetTheorems, TLAPS

\* The ranges of the variables: TypeOK without its last conjunct.
Ranges ==
  /\ kubeconfig \in [Tenants -> 0..MaxHash] /\ cached \in [Tenants -> 0..MaxHash]
  /\ cr \in [Tenants -> 0..MaxCR] /\ up \in [Tenants -> BOOLEAN]
  /\ ops \in 0..MaxOps /\ wake \in BOOLEAN /\ cancelled \in BOOLEAN
  /\ mgr \in {"idle", "listed", "stopping", "starting", "stopAll"}
  /\ desired \in [Tenants -> 0..MaxHash] /\ sessions \in [Tenants -> 0..MaxHash]
  /\ phase \in [Tenants -> [Hash -> {"none", "build", "sync", "run", "stop"}]]
  /\ queue \in [Tenants -> [Hash -> {"idle", "queued", "busy", "dirty"}]]
  /\ later \in [Tenants -> [Hash -> BOOLEAN]]
  /\ read \in [Tenants -> 0..MaxCR] /\ applied \in [Tenants -> 0..MaxCR]
  /\ crEvent \in [Tenants -> BOOLEAN] /\ relay \in [Tenants -> 0..MaxHash]

\* A Session has work only between the end of Start and the end of Stop.
WorkIsServed ==
  \A t \in Tenants, h \in Hash :
    queue[t][h] # "idle" \/ later[t][h] => phase[t][h] \in {"run", "stop"}

\* Is a Session of kubeconfig h being started for tenant t?
Starting(t, h) == mgr = "starting" /\ t \in Missing /\ h = desired[t]

\* Where reconcileAll is tells which Sessions there may be.
Placed ==
  \A t \in Tenants, h \in Hash :
    /\ phase[t][h] = "run" => h = sessions[t] \/ Starting(t, h)
    /\ phase[t][h] \in {"build", "sync"} => Starting(t, h)
    /\ phase[t][h] = "stop" => mgr \in {"stopping", "stopAll"} /\ sessions[t] = 0

AtMostOne ==
  \A t \in Tenants : \A g, h \in Hash :
    phase[t][g] # "none" /\ phase[t][h] # "none" => g = h

SessionInv == Placed /\ AtMostOne /\ PublishedIsRunning

IInv == Ranges /\ WorkIsServed /\ SessionInv

-----------------------------------------------------------------------------
(***************************************************************************)
(* Lemmas about the operators.                                             *)
(***************************************************************************)
\* A kubeconfig's hash is a positive number.
LEMMA HashIsPositive == \A h : h \in Hash <=> h \in 0..MaxHash /\ h # 0
BY SessionsAssumption DEF Hash

\* An entry of a table of tables is replaced, and no other.
LEMMA TableUpdate ==
  ASSUME NEW S, NEW f \in [Tenants -> [Hash -> S]],
         NEW t \in Tenants, NEW h \in Hash, NEW v \in S
  PROVE  /\ [f EXCEPT ![t][h] = v] \in [Tenants -> [Hash -> S]]
         /\ \A u \in Tenants, g \in Hash :
              [f EXCEPT ![t][h] = v][u][g] = IF u = t /\ g = h THEN v ELSE f[u][g]
OBVIOUS

\* Adding an item to a Session's work queue changes no other queue, and this
\* one only if the Session runs.
LEMMA EnqueueEffect ==
  ASSUME Ranges, NEW t \in Tenants, NEW h \in Hash, Enqueue(t, h)
  PROVE  /\ queue' \in [Tenants -> [Hash -> {"idle", "queued", "busy", "dirty"}]]
         /\ \A u \in Tenants, g \in Hash :
              queue'[u][g] # "idle" => queue[u][g] # "idle" \/ phase[u][g] = "run"
<1> DEFINE v == IF phase[t][h] = "run" THEN Add(queue[t][h]) ELSE queue[t][h]
<1>1. v \in {"idle", "queued", "busy", "dirty"}
  BY DEF Ranges, Add
<1>2. queue' = [queue EXCEPT ![t][h] = v]
  BY DEF Enqueue
<1> HIDE DEF v
<1>3. /\ queue' \in [Tenants -> [Hash -> {"idle", "queued", "busy", "dirty"}]]
      /\ \A u \in Tenants, g \in Hash :
           queue'[u][g] = IF u = t /\ g = h THEN v ELSE queue[u][g]
  BY <1>1, <1>2, TableUpdate DEF Ranges
<1>4. v # "idle" => queue[t][h] # "idle" \/ phase[t][h] = "run"
  BY DEF v
<1> QED
  BY <1>3, <1>4

-----------------------------------------------------------------------------
(***************************************************************************)
(* Init, and the steps.  A step that leaves the manager and the phases of  *)
(* the Sessions alone preserves SessionInv; the others are taken one by    *)
(* one.                                                                    *)
(***************************************************************************)
\* A new process starts in IInv, whatever the Secrets and the CRs are.
LEMMA EmptyIsGood ==
  ASSUME mgr = "idle", sessions = [t \in Tenants |-> 0], phase = NoSessions,
         queue = EmptyQueues, later = [t \in Tenants |-> [h \in Hash |-> FALSE]]
  PROVE  WorkIsServed /\ SessionInv
BY DEF NoSessions, EmptyQueues, WorkIsServed, SessionInv, Placed, AtMostOne,
       PublishedIsRunning

\* The ranges of what a new process has in memory.
LEMMA EmptyRanges ==
  /\ 0 \in 0..MaxHash /\ 1 \in 0..MaxHash /\ 0 \in 0..MaxCR /\ 0 \in 0..MaxOps
  /\ NoSessions \in [Tenants -> [Hash -> {"none", "build", "sync", "run", "stop"}]]
  /\ EmptyQueues \in [Tenants -> [Hash -> {"idle", "queued", "busy", "dirty"}]]
  /\ [t \in Tenants |-> [h \in Hash |-> FALSE]] \in [Tenants -> [Hash -> BOOLEAN]]
BY SessionsAssumption DEF NoSessions, EmptyQueues

\* A Manager without Sessions satisfies the invariant.
LEMMA InvInit == Init => IInv
<1> SUFFICES ASSUME Init PROVE IInv
  OBVIOUS
<1>1. Ranges
  BY EmptyRanges DEF Init, Ranges
<1>2. WorkIsServed /\ SessionInv
  BY EmptyIsGood DEF Init
<1> QED
  BY <1>1, <1>2 DEF IInv

\* Crash and Exit: a new process takes over.
LEMMA InvFresh ==
  ASSUME IInv, Fresh, ops' \in 0..MaxOps
  PROVE  IInv'
<1>1. Ranges'
  BY EmptyRanges DEF IInv, Fresh, Ranges
<1>2. (WorkIsServed /\ SessionInv)'
  BY DEF Fresh, NoSessions, EmptyQueues, WorkIsServed, SessionInv, Placed, AtMostOne,
         PublishedIsRunning
<1> QED
  BY <1>1, <1>2 DEF IInv

\* What SessionInv speaks of.
LEMMA SessionInvSame ==
  ASSUME SessionInv, UNCHANGED <<mgr, sessions, phase>>,
         mgr = "starting" => UNCHANGED desired
  PROVE  SessionInv'
BY DEF SessionInv, Placed, AtMostOne, PublishedIsRunning, Starting, Missing

\* The environment's steps.
LEMMA InvEnv ==
  ASSUME IInv, EnvStep
  PROVE  IInv'
<1> USE SessionsAssumption
<1>1. ASSUME NEW t \in Tenants, WriteSecret(t) PROVE IInv'
  <2>1. Ranges'
    BY <1>1 DEF IInv, Ranges, WriteSecret, Op, mgrVars, sessVars, relayVars
  <2>2. WorkIsServed' /\ SessionInv'
    BY <1>1, SessionInvSame
    DEF IInv, WorkIsServed, WriteSecret, mgrVars, sessVars, relayVars
  <2> QED BY <2>1, <2>2 DEF IInv
<1>2. ASSUME NEW t \in Tenants, ChangeCR(t) PROVE IInv'
  <2>1. Ranges'
    BY <1>2 DEF IInv, Ranges, ChangeCR, Op, mgrVars, sessVars
  <2>2. WorkIsServed' /\ SessionInv'
    BY <1>2, SessionInvSame DEF IInv, WorkIsServed, ChangeCR, mgrVars, sessVars
  <2> QED BY <2>1, <2>2 DEF IInv
<1>3. ASSUME NEW t \in Tenants, Outage(t) PROVE IInv'
  <2>1. Ranges'
    BY <1>3 DEF IInv, Ranges, Outage, Op, mgrVars, sessVars, relayVars
  <2>2. WorkIsServed' /\ SessionInv'
    BY <1>3, SessionInvSame
    DEF IInv, WorkIsServed, Outage, mgrVars, sessVars, relayVars
  <2> QED BY <2>1, <2>2 DEF IInv
<1>4. ASSUME NEW t \in Tenants, Recover(t) PROVE IInv'
  <2>1. Ranges'
    BY <1>4 DEF IInv, Ranges, Recover, mgrVars, sessVars, relayVars
  <2>2. WorkIsServed' /\ SessionInv'
    BY <1>4, SessionInvSame
    DEF IInv, WorkIsServed, Recover, mgrVars, sessVars, relayVars
  <2> QED BY <2>1, <2>2 DEF IInv
<1>5. CASE Crash
  BY <1>5, InvFresh DEF Crash, Op, IInv, Ranges
<1>6. CASE LoseLeadership
  <2>1. Ranges'
    BY <1>6 DEF IInv, Ranges, LoseLeadership, Op, mgrVars, sessVars, relayVars
  <2>2. WorkIsServed' /\ SessionInv'
    BY <1>6, SessionInvSame
    DEF IInv, WorkIsServed, LoseLeadership, mgrVars, sessVars, relayVars
  <2> QED BY <2>1, <2>2 DEF IInv
<1> QED
  BY <1>1, <1>2, <1>3, <1>4, <1>5, <1>6 DEF EnvStep

\* SecretEvent, ListFails and KSCWatcher's steps leave the Sessions alone,
\* but for what Forward adds to a running one's queue.
LEMMA InvEvents ==
  ASSUME IInv, ListFails \/ \E t \in Tenants : SecretEvent(t) \/ LookUp(t) \/ Forward(t)
  PROVE  IInv'
<1>1. CASE ListFails
  <2>1. Ranges'
    BY <1>1 DEF IInv, Ranges, ListFails, envVars, sessVars, relayVars
  <2>2. WorkIsServed' /\ SessionInv'
    BY <1>1, SessionInvSame DEF IInv, WorkIsServed, ListFails, sessVars
  <2> QED BY <2>1, <2>2 DEF IInv
<1>2. ASSUME NEW t \in Tenants, SecretEvent(t) PROVE IInv'
  <2>1. Ranges'
    BY <1>2 DEF IInv, Ranges, SecretEvent, envVars, sessVars, relayVars
  <2>2. WorkIsServed' /\ SessionInv'
    BY <1>2, SessionInvSame DEF IInv, WorkIsServed, SecretEvent, sessVars
  <2> QED BY <2>1, <2>2 DEF IInv
<1>3. ASSUME NEW t \in Tenants, LookUp(t) PROVE IInv'
  <2>1. Ranges'
    BY <1>3 DEF IInv, Ranges, LookUp, envVars, mgrVars, sessVars
  <2>2. WorkIsServed' /\ SessionInv'
    BY <1>3, SessionInvSame DEF IInv, WorkIsServed, LookUp, mgrVars, sessVars
  <2> QED BY <2>1, <2>2 DEF IInv
<1>4. ASSUME NEW t \in Tenants, Forward(t) PROVE IInv'
  <2>1. relay[t] \in Hash
    BY <1>4, HashIsPositive DEF Forward, IInv, Ranges
  <2>2. \/ Enqueue(t, relay[t]) /\ UNCHANGED crEvent
        \/ UNCHANGED queue /\ crEvent' = [crEvent EXCEPT ![t] = TRUE]
    BY <1>4 DEF Forward
  <2>3. /\ queue' \in [Tenants -> [Hash -> {"idle", "queued", "busy", "dirty"}]]
        /\ \A u \in Tenants, g \in Hash :
             queue'[u][g] # "idle" => queue[u][g] # "idle" \/ phase[u][g] = "run"
    BY <2>1, <2>2, EnqueueEffect DEF IInv, Ranges
  <2>4. Ranges'
    <3>1. relay' \in [Tenants -> 0..MaxHash] /\ crEvent' \in [Tenants -> BOOLEAN]
      BY <1>4, <2>2, EmptyRanges DEF IInv, Ranges, Forward
    <3> QED
      BY <1>4, <2>3, <3>1 DEF IInv, Ranges, Forward, envVars, mgrVars
  <2>5. WorkIsServed' /\ SessionInv'
    BY <1>4, <2>3, SessionInvSame DEF IInv, WorkIsServed, Forward, mgrVars
  <2> QED BY <2>4, <2>5 DEF IInv
<1> QED
  BY <1>1, <1>2, <1>3, <1>4

\* Stopping a Session that runs and leaves the map keeps the ranges, the
\* work and the number of Sessions.
LEMMA StoppedEffect ==
  ASSUME IInv, NEW gone \in SUBSET {t \in Tenants : sessions[t] # 0},
         phase' = Stopped(gone)
  PROVE  /\ phase' \in [Tenants -> [Hash -> {"none", "build", "sync", "run", "stop"}]]
         /\ \A t \in Tenants, h \in Hash :
              /\ phase'[t][h] = IF t \in gone /\ h = sessions[t] THEN "stop" ELSE phase[t][h]
              /\ phase[t][h] = "none" <=> phase'[t][h] = "none"
<1>1. \A t \in Tenants, h \in Hash :
        phase'[t][h] = IF t \in gone /\ h = sessions[t] THEN "stop" ELSE phase[t][h]
  BY DEF Stopped
<1>2. phase' \in [Tenants -> [Hash -> {"none", "build", "sync", "run", "stop"}]]
  BY DEF Stopped, IInv, Ranges
<1>3. \A t \in gone : phase[t][sessions[t]] = "run"
  BY DEF IInv, SessionInv, PublishedIsRunning
<1> QED
  BY <1>1, <1>2, <1>3

\* The steps of Start's loop and of reconcileAll.
LEMMA InvManager ==
  ASSUME IInv, ManagerStep
  PROVE  IInv'
<1>1. CASE BeginPass
  <2>1. Ranges'
    BY <1>1 DEF IInv, Ranges, BeginPass, envVars, sessVars, relayVars
  <2>2. WorkIsServed'
    BY <1>1 DEF IInv, WorkIsServed, BeginPass, sessVars
  <2>3. SessionInv'
    BY <1>1 DEF IInv, SessionInv, Placed, AtMostOne, PublishedIsRunning, Starting,
                BeginPass, sessVars
  <2> QED BY <2>1, <2>2, <2>3 DEF IInv
<1>2. CASE Diff
  <2>1. Stale \in SUBSET {t \in Tenants : sessions[t] # 0} /\ phase' = Stopped(Stale)
    BY <1>2 DEF Diff, Stale
  <2>2. /\ phase' \in [Tenants -> [Hash -> {"none", "build", "sync", "run", "stop"}]]
        /\ \A t \in Tenants, h \in Hash :
             /\ phase'[t][h] = IF t \in Stale /\ h = sessions[t] THEN "stop" ELSE phase[t][h]
             /\ phase[t][h] = "none" <=> phase'[t][h] = "none"
    BY <2>1, StoppedEffect
  <2>3. /\ sessions' \in [Tenants -> 0..MaxHash]
        /\ \A t \in Tenants : sessions'[t] = IF t \in Stale THEN 0 ELSE sessions[t]
    BY <1>2, EmptyRanges DEF Diff, IInv, Ranges
  <2>4. Ranges'
    BY <1>2, <2>2, <2>3 DEF IInv, Ranges, Diff, envVars, relayVars
  <2>5. WorkIsServed'
    BY <1>2, <2>2 DEF IInv, WorkIsServed, Diff
  <2>6. Placed'
    <3> SUFFICES ASSUME NEW t \in Tenants, NEW h \in Hash
                 PROVE  /\ phase'[t][h] = "run" => h = sessions'[t]
                        /\ phase'[t][h] \notin {"build", "sync"}
                        /\ phase'[t][h] = "stop" => sessions'[t] = 0
      BY <1>2 DEF Placed, Diff
    <3>1. phase[t][h] = "run" => h = sessions[t]
      BY <1>2 DEF Diff, IInv, SessionInv, Placed, Starting
    <3>2. phase[t][h] \notin {"build", "sync", "stop"}
      BY <1>2 DEF Diff, IInv, SessionInv, Placed, Starting
    <3> QED
      BY <2>2, <2>3, <3>1, <3>2
  <2>7. AtMostOne'
    BY <2>2 DEF IInv, SessionInv, AtMostOne
  <2>8. PublishedIsRunning'
    BY <2>2, <2>3, HashIsPositive DEF IInv, Ranges, SessionInv, PublishedIsRunning
  <2> QED BY <2>4, <2>5, <2>6, <2>7, <2>8 DEF IInv, SessionInv
<1>3. CASE Build
  <2>1. /\ phase' \in [Tenants -> [Hash -> {"none", "build", "sync", "run", "stop"}]]
        /\ \A t \in Tenants, h \in Hash :
             phase'[t][h] = IF t \in Missing /\ h = desired[t] THEN "build" ELSE phase[t][h]
    BY <1>3 DEF Build, Builds, IInv, Ranges
  <2>2. \A t \in Tenants, h \in Hash :
          /\ phase[t][h] \in {"none", "run"}
          /\ phase[t][h] = "run" => h = sessions[t]
    BY <1>3 DEF Build, IInv, Ranges, SessionInv, Placed, Starting
  <2>3. \A t \in Missing, h \in Hash : phase[t][h] = "none"
    BY <2>2, HashIsPositive DEF Missing
  <2>4. Ranges'
    BY <1>3, <2>1 DEF IInv, Ranges, Build, envVars, relayVars
  <2>5. WorkIsServed'
    BY <1>3, <2>1, <2>3 DEF IInv, WorkIsServed, Build
  <2>6. Placed'
    BY <1>3, <2>1, <2>2 DEF Placed, Starting, Missing, Build
  <2>7. AtMostOne'
    BY <2>1, <2>3 DEF IInv, SessionInv, AtMostOne
  <2>8. PublishedIsRunning'
    BY <1>3, <2>1, HashIsPositive
    DEF Build, Missing, IInv, Ranges, SessionInv, PublishedIsRunning
  <2> QED BY <2>4, <2>5, <2>6, <2>7, <2>8 DEF IInv, SessionInv
<1>4. CASE Publish
  <2>1. /\ sessions' \in [Tenants -> 0..MaxHash]
        /\ \A t \in Tenants :
             sessions'[t] = IF t \in Missing /\ phase[t][desired[t]] = "run"
                              THEN desired[t] ELSE sessions[t]
    BY <1>4 DEF Publish, IInv, Ranges
  <2>2. Ranges'
    BY <1>4, <2>1 DEF IInv, Ranges, Publish, envVars, sessVars, relayVars
  <2>3. WorkIsServed'
    BY <1>4 DEF IInv, WorkIsServed, Publish, sessVars
  <2>4. \A t \in Tenants, h \in Hash :
          /\ phase[t][h] \in {"none", "run"}
          /\ phase[t][h] = "run" => h = sessions[t] \/ (t \in Missing /\ h = desired[t])
    BY <1>4 DEF Publish, IInv, Ranges, SessionInv, Placed, Starting
  <2>5. Placed'
    <3>1. \A t \in Tenants, h \in Hash : phase[t][h] = "run" => h = sessions'[t]
      BY <2>1, <2>4, HashIsPositive DEF Missing
    <3> QED
      BY <1>4, <2>4, <3>1 DEF Placed, Publish, sessVars
  <2>6. AtMostOne' /\ PublishedIsRunning'
    BY <1>4, <2>1 DEF IInv, SessionInv, AtMostOne, PublishedIsRunning, Publish, sessVars
  <2> QED BY <2>2, <2>3, <2>5, <2>6 DEF IInv, SessionInv
<1>5. CASE StopAll
  <2> DEFINE gone == {t \in Tenants : sessions[t] # 0}
  <2>1. /\ phase' \in [Tenants -> [Hash -> {"none", "build", "sync", "run", "stop"}]]
        /\ \A t \in Tenants, h \in Hash :
             /\ phase'[t][h] = IF t \in gone /\ h = sessions[t] THEN "stop" ELSE phase[t][h]
             /\ phase[t][h] = "none" <=> phase'[t][h] = "none"
    BY <1>5, StoppedEffect DEF StopAll
  <2>2. /\ sessions' \in [Tenants -> 0..MaxHash]
        /\ \A t \in Tenants : sessions'[t] = 0
    BY <1>5, EmptyRanges DEF StopAll
  <2>3. Ranges'
    BY <1>5, <2>1, <2>2 DEF IInv, Ranges, StopAll, envVars, relayVars
  <2>4. WorkIsServed'
    BY <1>5, <2>1 DEF IInv, WorkIsServed, StopAll
  <2>5. \A t \in Tenants, h \in Hash :
          /\ phase[t][h] \in {"none", "run"}
          /\ phase[t][h] = "run" => h = sessions[t] /\ t \in gone
    BY <1>5, HashIsPositive DEF StopAll, IInv, Ranges, SessionInv, Placed, Starting
  <2>6. Placed'
    <3>1. \A t \in Tenants, h \in Hash : phase'[t][h] \in {"none", "stop"}
      BY <2>1, <2>5
    <3> QED
      BY <1>5, <2>2, <3>1 DEF Placed, StopAll
  <2>7. AtMostOne' /\ PublishedIsRunning'
    BY <2>1, <2>2 DEF IInv, SessionInv, AtMostOne, PublishedIsRunning
  <2> QED BY <2>3, <2>4, <2>6, <2>7 DEF IInv, SessionInv
<1>6. CASE Exit
  BY <1>6, InvFresh DEF Exit, IInv, Ranges
<1> QED
  BY <1>1, <1>2, <1>3, <1>4, <1>5, <1>6 DEF ManagerStep

\* A Session's own steps: its phase moves while reconcileAll waits for it, its
\* queue while it runs or is drained.
LEMMA InvSession ==
  ASSUME IInv, NEW t \in Tenants, NEW h \in Hash,
         \/ SessionStep(t, h) \/ Take(t, h) \/ Finish(t, h) \/ Ripe(t, h) \/ Resync(t, h)
  PROVE  IInv'
<1> DEFINE P == {"none", "build", "sync", "run", "stop"}
           Q == {"idle", "queued", "busy", "dirty"}
<1>t. /\ phase \in [Tenants -> [Hash -> P]] /\ queue \in [Tenants -> [Hash -> Q]]
      /\ later \in [Tenants -> [Hash -> BOOLEAN]]
  BY DEF IInv, Ranges
\* The phase moves and the Session was, or becomes, nothing at all.
<1>p. ASSUME NEW v \in P, phase' = [phase EXCEPT ![t][h] = v], UNCHANGED mgrVars,
             \/ phase[t][h] \in {"build", "sync"} /\ v \in {"sync", "run", "none"}
             \/ phase[t][h] = "stop" /\ v = "none"
      PROVE  /\ phase' \in [Tenants -> [Hash -> P]]
             /\ \A u \in Tenants, g \in Hash :
                  phase'[u][g] = IF u = t /\ g = h THEN v ELSE phase[u][g]
             /\ SessionInv'
  <2>1. /\ phase' \in [Tenants -> [Hash -> P]]
        /\ \A u \in Tenants, g \in Hash :
             phase'[u][g] = IF u = t /\ g = h THEN v ELSE phase[u][g]
    BY <1>p, <1>t, TableUpdate
  <2>2. Placed'
    BY <1>p, <2>1 DEF IInv, SessionInv, Placed, Starting, Missing, mgrVars
  <2>3. AtMostOne'
    BY <1>p, <2>1 DEF IInv, SessionInv, AtMostOne
  <2>4. PublishedIsRunning'
    BY <1>p, <2>1, HashIsPositive
    DEF IInv, Ranges, SessionInv, PublishedIsRunning, mgrVars
  <2> QED BY <2>1, <2>2, <2>3, <2>4 DEF SessionInv
<1>1. CASE Dial(t, h)
  <2>1. PICK v \in {"sync", "none"} : phase' = [phase EXCEPT ![t][h] = v]
    BY <1>1 DEF Dial
  <2>2. /\ phase' \in [Tenants -> [Hash -> P]]
        /\ \A u \in Tenants, g \in Hash :
             phase'[u][g] = IF u = t /\ g = h THEN v ELSE phase[u][g]
        /\ SessionInv'
    <3>1. /\ v \in P /\ phase[t][h] \in {"build", "sync"} /\ v \in {"sync", "run", "none"}
          /\ UNCHANGED mgrVars
      BY <1>1, <2>1 DEF Dial
    <3> HIDE DEF P
    <3> QED BY <1>p, <2>1, <3>1
  <2>3. Ranges'
    BY <1>1, <2>2 DEF IInv, Ranges, Dial, envVars, mgrVars, relayVars
  <2>4. WorkIsServed'
    BY <1>1, <2>2 DEF IInv, WorkIsServed, Dial
  <2> QED BY <2>2, <2>3, <2>4 DEF IInv
<1>2. CASE SyncServices(t, h)
  <2>1. PICK v \in {"run", "none"} :
          /\ phase' = [phase EXCEPT ![t][h] = v]
          /\ \/ UNCHANGED queue
             \/ v = "run" /\ queue' = [queue EXCEPT ![t][h] = "queued"]
    BY <1>2 DEF SyncServices
  <2>2. /\ phase' \in [Tenants -> [Hash -> P]]
        /\ \A u \in Tenants, g \in Hash :
             phase'[u][g] = IF u = t /\ g = h THEN v ELSE phase[u][g]
        /\ SessionInv'
    <3>1. /\ v \in P /\ phase[t][h] \in {"build", "sync"} /\ v \in {"sync", "run", "none"}
          /\ UNCHANGED mgrVars
      BY <1>2, <2>1 DEF SyncServices
    <3> HIDE DEF P
    <3> QED BY <1>p, <2>1, <3>1
  <2>3. /\ queue' \in [Tenants -> [Hash -> Q]]
        /\ \A u \in Tenants, g \in Hash :
             queue'[u][g] # "idle" => queue[u][g] # "idle" \/ (u = t /\ g = h /\ v = "run")
    <3>1. CASE UNCHANGED queue
      BY <1>t, <3>1
    <3>2. CASE v = "run" /\ queue' = [queue EXCEPT ![t][h] = "queued"]
      BY <1>t, <3>2
    <3> QED
      BY <2>1, <3>1, <3>2
  <2>4. Ranges'
    BY <1>2, <2>2, <2>3 DEF IInv, Ranges, SyncServices, envVars, mgrVars, relayVars
  <2>5. WorkIsServed'
    BY <1>2, <2>2, <2>3 DEF IInv, WorkIsServed, SyncServices
  <2> QED BY <2>2, <2>4, <2>5 DEF IInv
<1>3. CASE StopReturns(t, h)
  <2>1. /\ phase' \in [Tenants -> [Hash -> P]]
        /\ \A u \in Tenants, g \in Hash :
             phase'[u][g] = IF u = t /\ g = h THEN "none" ELSE phase[u][g]
        /\ SessionInv'
    <3>1. /\ "none" \in P /\ phase[t][h] = "stop" /\ UNCHANGED mgrVars
          /\ phase' = [phase EXCEPT ![t][h] = "none"]
      BY <1>3 DEF StopReturns
    <3> HIDE DEF P
    <3> QED BY <1>p, <3>1
  <2>2. /\ later' \in [Tenants -> [Hash -> BOOLEAN]]
        /\ \A u \in Tenants, g \in Hash :
             later'[u][g] = IF u = t /\ g = h THEN FALSE ELSE later[u][g]
    BY <1>3, <1>t DEF StopReturns
  <2>3. Ranges'
    BY <1>3, <2>1, <2>2 DEF IInv, Ranges, StopReturns, envVars, mgrVars, relayVars
  <2>4. WorkIsServed'
    BY <1>3, <2>1, <2>2 DEF IInv, WorkIsServed, StopReturns
  <2> QED BY <2>1, <2>3, <2>4 DEF IInv
<1>4. CASE Take(t, h)
  <2>1. /\ queue' \in [Tenants -> [Hash -> Q]]
        /\ \A u \in Tenants, g \in Hash :
             queue'[u][g] = IF u = t /\ g = h THEN "busy" ELSE queue[u][g]
    BY <1>4, <1>t, TableUpdate DEF Take
  <2>2. Ranges'
    BY <1>4, <2>1 DEF IInv, Ranges, Take, envVars, mgrVars, relayVars
  <2>3. WorkIsServed'
    BY <1>4, <2>1 DEF IInv, WorkIsServed, Take
  <2>4. SessionInv'
    BY <1>4, SessionInvSame DEF IInv, Take, mgrVars
  <2> QED BY <2>2, <2>3, <2>4 DEF IInv
<1>5. CASE Finish(t, h)
  <2>1. PICK v \in BOOLEAN :
          /\ later' = [later EXCEPT ![t][h] = v]
          /\ applied' \in [Tenants -> 0..MaxCR]
    <3>1. CASE /\ later' = [later EXCEPT ![t][h] = phase[t][h] = "run"]
               /\ UNCHANGED applied
      BY <3>1 DEF IInv, Ranges
    <3>2. CASE /\ applied' = [applied EXCEPT ![t] = read[t]]
               /\ \E requeueAfter \in BOOLEAN :
                    later' = [later EXCEPT ![t][h] =
                                later[t][h] \/ (requeueAfter /\ phase[t][h] = "run")]
      BY <3>2 DEF IInv, Ranges
    <3> QED BY <1>5, <3>1, <3>2 DEF Finish
  <2>2. PICK w \in {"idle", "queued"} : queue' = [queue EXCEPT ![t][h] = w]
    BY <1>5 DEF Finish
  <2>3. /\ later' \in [Tenants -> [Hash -> BOOLEAN]]
        /\ \A u \in Tenants, g \in Hash :
             later'[u][g] = IF u = t /\ g = h THEN v ELSE later[u][g]
    BY <1>t, <2>1, TableUpdate
  <2>4. /\ queue' \in [Tenants -> [Hash -> Q]]
        /\ \A u \in Tenants, g \in Hash :
             queue'[u][g] = IF u = t /\ g = h THEN w ELSE queue[u][g]
    BY <1>t, <2>2, TableUpdate
  <2>5. Ranges'
    BY <1>5, <2>1, <2>3, <2>4 DEF IInv, Ranges, Finish, envVars, mgrVars, relayVars
  <2>6. WorkIsServed'
    BY <1>5, <2>3, <2>4 DEF IInv, WorkIsServed, Finish
  <2>7. SessionInv'
    BY <1>5, SessionInvSame DEF IInv, Finish, mgrVars
  <2> QED BY <2>5, <2>6, <2>7 DEF IInv
<1>6. CASE Ripe(t, h)
  <2>1. /\ queue' \in [Tenants -> [Hash -> Q]]
        /\ \A u \in Tenants, g \in Hash :
             queue'[u][g] # "idle" => queue[u][g] # "idle" \/ phase[u][g] = "run"
    BY <1>6, EnqueueEffect DEF Ripe, IInv
  <2>2. /\ later' \in [Tenants -> [Hash -> BOOLEAN]]
        /\ \A u \in Tenants, g \in Hash :
             later'[u][g] = IF u = t /\ g = h THEN FALSE ELSE later[u][g]
    BY <1>6, <1>t DEF Ripe
  <2>3. Ranges'
    BY <1>6, <2>1, <2>2 DEF IInv, Ranges, Ripe, envVars, mgrVars, relayVars
  <2>4. WorkIsServed'
    BY <1>6, <2>1, <2>2 DEF IInv, WorkIsServed, Ripe
  <2>5. SessionInv'
    BY <1>6, SessionInvSame DEF IInv, Ripe, mgrVars
  <2> QED BY <2>3, <2>4, <2>5 DEF IInv
<1>7. CASE Resync(t, h)
  <2>1. /\ queue' \in [Tenants -> [Hash -> Q]]
        /\ \A u \in Tenants, g \in Hash :
             queue'[u][g] # "idle" => queue[u][g] # "idle" \/ phase[u][g] = "run"
    BY <1>7, EnqueueEffect DEF Resync, IInv
  <2>2. Ranges'
    BY <1>7, <2>1 DEF IInv, Ranges, Resync, envVars, mgrVars, relayVars
  <2>3. WorkIsServed'
    BY <1>7, <2>1 DEF IInv, WorkIsServed, Resync
  <2>4. SessionInv'
    BY <1>7, SessionInvSame DEF IInv, Resync, mgrVars
  <2> QED BY <2>2, <2>3, <2>4 DEF IInv
<1> QED
  BY <1>1, <1>2, <1>3, <1>4, <1>5, <1>6, <1>7 DEF SessionStep

\* Every step of the system preserves IInv.
LEMMA InvNext == IInv /\ [Next]_vars => IInv'
<1> SUFFICES ASSUME IInv, [Next]_vars PROVE IInv'
  OBVIOUS
<1>1. CASE Next
  BY <1>1, InvEnv, InvManager, InvEvents, InvSession DEF Next
<1>2. CASE UNCHANGED vars
  <2>1. Ranges'
    BY <1>2 DEF IInv, Ranges, vars, envVars, mgrVars, sessVars, relayVars
  <2>2. WorkIsServed'
    BY <1>2 DEF IInv, WorkIsServed, vars, sessVars
  <2>3. SessionInv'
    BY <1>2, SessionInvSame DEF IInv, vars, mgrVars, sessVars
  <2> QED BY <2>1, <2>2, <2>3 DEF IInv
<1> QED BY <1>1, <1>2

-----------------------------------------------------------------------------
\* The invariant holds throughout.
LEMMA SessionInvariant == Spec => []IInv
BY InvInit, InvNext, PTL DEF Spec

\* Every variable stays in its range, and a work queue holds items only while
\* its Session runs or is drained: none outlives Stop.
THEOREM TypeCorrect == Spec => []TypeOK
<1>1. IInv => TypeOK
  BY DEF IInv, Ranges, WorkIsServed, TypeOK
<1> QED
  BY <1>1, SessionInvariant, PTL

\* Two Sessions of a tenant never exist at once, so no two workers reconcile
\* its Services: reconcileAll builds only after every Stop has returned.
THEOREM SingleSession == Spec => []OneSessionPerTenant
<1>1. IInv => OneSessionPerTenant
  <2> SUFFICES ASSUME IInv, NEW t \in Tenants
               PROVE  Cardinality({h \in Hash : phase[t][h] # "none"}) <= 1
    BY DEF OneSessionPerTenant
  <2> DEFINE S == {h \in Hash : phase[t][h] # "none"}
  <2>1. CASE S = {}
    BY <2>1, FS_EmptySet
  <2>2. ASSUME NEW h \in S PROVE Cardinality(S) <= 1
    <3>1. S = {h}
      BY <2>2 DEF IInv, SessionInv, AtMostOne
    <3>2. Cardinality({h}) = 1
      BY FS_Singleton
    <3> HIDE DEF S
    <3> QED
      BY <3>1, <3>2
  <2> QED
    BY <2>1, <2>2
<1> QED
  BY <1>1, SessionInvariant, PTL

\* EnqueueAllForTenant and TenantClient never hand out a Session that has not
\* started or is being stopped.
THEOREM PublishedRuns == Spec => []PublishedIsRunning
<1>1. IInv => PublishedIsRunning
  BY DEF IInv, SessionInv
<1> QED
  BY <1>1, SessionInvariant, PTL
=============================================================================
