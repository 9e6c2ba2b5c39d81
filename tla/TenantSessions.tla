---------------------------- MODULE TenantSessions ----------------------------
(***************************************************************************)
(* The dynamic tenant Manager (multicluster/manager.go), its Sessions      *)
(* (session.go) and the CR relay (controller/ksc_watcher.go).              *)
(*                                                                         *)
(* One goroutine runs reconcileAll over and over: it diffs the kubeconfig  *)
(* Secrets against the live Sessions, stops the stale ones, starts the     *)
(* missing ones and publishes them.  Every Session has a work queue, one   *)
(* worker and a resync ticker; one item stands for all LoadBalancer        *)
(* Services of a tenant.  A kubeconfig is its hash, a number; 0 is a       *)
(* Secret that is missing or whose super-admin.conf Kamaji has not         *)
(* written yet, which reconcileAll does not tell apart.                    *)
(***************************************************************************)
EXTENDS Naturals, FiniteSets

CONSTANTS
  Tenants,
  MaxHash,     \* bound: distinct kubeconfigs of a tenant
  MaxCR,       \* bound: changes of a tenant's CR
  MaxOps,      \* bound: everything the environment does to the controller
  Faults       \* which of "outage", "crash", "leader" may happen

ASSUME SessionsAssumption ==
  /\ MaxHash \in Nat \ {0}
  /\ MaxCR \in Nat
  /\ MaxOps \in Nat
  /\ Faults \subseteq {"outage", "crash", "leader"}

Hash == 1..MaxHash

VARIABLES
  kubeconfig,  \* the Secrets in the management apiserver
  cached,      \* the Secrets in the management cache
  cr,          \* version of each tenant's KubernetesSwitchcloud CR
  up,          \* does the tenant's apiserver answer?
  ops,         \* what the environment has done so far
  wake,        \* the manager's one-slot channel
  mgr,         \* where reconcileAll is
  desired,     \* its snapshot of the Secrets
  sessions,    \* m.sessions: hash of the published Session, 0 if none
  phase,       \* every Session by tenant and hash
  queue,       \* its work item: idle, queued, busy, or busy and dirty
  later,       \* is the item in the queue's delay heap?
  read,        \* CR version the tenant's worker read in this reconcile
  applied,     \* CR version the tenant's Services were last reconciled to
  crEvent,     \* is the CR in ksc-watcher's work queue?
  relay,       \* Session EnqueueAllForTenant looked up, 0 if none
  cancelled    \* is the manager's context cancelled (leadership lost)?

envVars == <<kubeconfig, cr, up, ops>>
mgrVars == <<wake, mgr, desired, sessions>>
sessVars == <<phase, queue, later, read, applied>>
relayVars == <<crEvent, relay>>
vars == <<envVars, cached, mgrVars, sessVars, relayVars, cancelled>>

TypeOK ==
  /\ kubeconfig \in [Tenants -> 0..MaxHash] /\ cached \in [Tenants -> 0..MaxHash]
  /\ cr \in [Tenants -> 0..MaxCR] /\ up \in [Tenants -> BOOLEAN]
  /\ ops \in 0..MaxOps /\ wake \in BOOLEAN /\ cancelled \in BOOLEAN
  /\ mgr \in {"idle", "listed", "stopping", "starting", "stopAll"}
  /\ desired \in [Tenants -> 0..MaxHash] /\ sessions \in [Tenants -> 0..MaxHash]
  /\ phase \in [Tenants -> [Hash -> {"none", "build", "sync", "run", "stop"}]]
  /\ queue \in [Tenants -> [Hash -> {"idle", "queued", "busy", "dirty"}]]
  /\ later \in [Tenants -> [Hash -> BOOLEAN]]
  /\ read \in [Tenants -> 0..MaxCR] /\ applied \in [Tenants -> 0..MaxCR]
  /\ crEvent \in [Tenants -> BOOLEAN] /\ relay \in [Tenants -> 0..MaxHash]
  \* A Session has work only between the end of Start and the end of Stop.
  /\ \A t \in Tenants, h \in Hash :
       queue[t][h] # "idle" \/ later[t][h] => phase[t][h] \in {"run", "stop"}

NoSessions == [t \in Tenants |-> [h \in Hash |-> "none"]]
EmptyQueues == [t \in Tenants |-> [h \in Hash |-> "idle"]]

\* A new leader: synced management cache, no Session, every CR replayed.
Init ==
  /\ kubeconfig \in [Tenants -> {0, 1}] /\ cached = kubeconfig
  /\ cr = [t \in Tenants |-> 0] /\ up = [t \in Tenants |-> TRUE] /\ ops = 0
  /\ wake = FALSE /\ mgr = "idle" /\ cancelled = FALSE
  /\ desired = [t \in Tenants |-> 0] /\ sessions = [t \in Tenants |-> 0]
  /\ phase = NoSessions /\ queue = EmptyQueues
  /\ later = [t \in Tenants |-> [h \in Hash |-> FALSE]]
  /\ read = [t \in Tenants |-> 0] /\ applied = [t \in Tenants |-> 0]
  /\ crEvent = [t \in Tenants |-> TRUE] /\ relay = [t \in Tenants |-> 0]

Op == ops < MaxOps /\ ops' = ops + 1

-----------------------------------------------------------------------------
(***************************************************************************)
(* The environment.                                                        *)
(***************************************************************************)
\* Kamaji creates, rotates or deletes a tenant's kubeconfig.
WriteSecret(t) ==
  /\ Op
  /\ \E h \in 0..MaxHash \ {kubeconfig[t]} : kubeconfig' = [kubeconfig EXCEPT ![t] = h]
  /\ UNCHANGED <<cached, cr, up, mgrVars, sessVars, relayVars, cancelled>>

\* The informer updates the cache and calls the handler, which signals.
SecretEvent(t) ==
  /\ cached[t] # kubeconfig[t]
  /\ cached' = [cached EXCEPT ![t] = kubeconfig[t]]
  /\ wake' = TRUE
  /\ UNCHANGED <<envVars, mgr, desired, sessions, sessVars, relayVars, cancelled>>

\* An operator edits the CR; the watch queues it for ksc-watcher.
ChangeCR(t) ==
  /\ Op
  /\ cr[t] < MaxCR
  /\ cr' = [cr EXCEPT ![t] = cr[t] + 1]
  /\ crEvent' = [crEvent EXCEPT ![t] = TRUE]
  /\ UNCHANGED <<kubeconfig, up, cached, mgrVars, sessVars, relay, cancelled>>

Outage(t) ==
  /\ Op
  /\ "outage" \in Faults /\ up[t]
  /\ up' = [up EXCEPT ![t] = FALSE]
  /\ UNCHANGED <<kubeconfig, cr, cached, mgrVars, sessVars, relayVars, cancelled>>

Recover(t) ==
  /\ ~up[t]
  /\ up' = [up EXCEPT ![t] = TRUE]
  /\ UNCHANGED <<kubeconfig, cr, ops, cached, mgrVars, sessVars, relayVars, cancelled>>

\* A new process takes over: nothing in memory survives, informers replay.
Fresh ==
  /\ cached' = kubeconfig /\ wake' = FALSE /\ mgr' = "idle" /\ cancelled' = FALSE
  /\ desired' = [t \in Tenants |-> 0] /\ sessions' = [t \in Tenants |-> 0]
  /\ phase' = NoSessions /\ queue' = EmptyQueues
  /\ later' = [t \in Tenants |-> [h \in Hash |-> FALSE]]
  /\ read' = [t \in Tenants |-> 0]
  /\ crEvent' = [t \in Tenants |-> TRUE] /\ relay' = [t \in Tenants |-> 0]
  /\ UNCHANGED <<kubeconfig, cr, up, applied>>

Crash == Op /\ "crash" \in Faults /\ Fresh

\* Leadership is lost: controller-runtime cancels the manager's context.
LoseLeadership ==
  /\ Op
  /\ "leader" \in Faults /\ ~cancelled
  /\ cancelled' = TRUE
  /\ UNCHANGED <<kubeconfig, cr, up, cached, mgrVars, sessVars, relayVars>>

-----------------------------------------------------------------------------
(***************************************************************************)
(* workqueue.Add: an item being processed is marked dirty and queued again *)
(* by Done; a queue that is shutting down ignores it.                      *)
(***************************************************************************)
Add(q) == CASE q = "idle" -> "queued" [] q = "busy" -> "dirty" [] OTHER -> q
Enqueue(t, h) ==
  queue' = [queue EXCEPT ![t][h] = IF phase[t][h] = "run" THEN Add(@) ELSE @]

(***************************************************************************)
(* The manager: Start's loop and reconcileAll's phases.                    *)
(***************************************************************************)
\* A signal or the 30 s tick starts a pass, which lists the Secrets anew.  A
\* failed list ends it: the signal is used up, the tick is not.
BeginPass ==
  /\ mgr = "idle"
  /\ ~cancelled
  /\ wake' \in {FALSE, wake}
  /\ mgr' = "listed"
  /\ desired' = cached
  /\ UNCHANGED <<envVars, cached, sessions, sessVars, relayVars, cancelled>>

ListFails ==
  /\ mgr = "idle" /\ ~cancelled
  /\ wake
  /\ wake' = FALSE
  /\ UNCHANGED <<envVars, cached, mgr, desired, sessions, sessVars, relayVars, cancelled>>

\* Session.Stop, entered: the context is cancelled and the queue shuts down.
Stopped(gone) ==
  [t \in Tenants |-> [h \in Hash |->
     IF t \in gone /\ h = sessions[t] THEN "stop" ELSE phase[t][h]]]

\* Mutant: a Session is replaced only when its Secret is gone.
StaleByAbsence == {t \in Tenants : sessions[t] # 0 /\ desired[t] = 0}

Stale == {t \in Tenants : sessions[t] # 0 /\ desired[t] # sessions[t]}

\* Mutant: a changed kubeconfig's Session stays in the map while it stops.
DiffLeavingChanged ==
  /\ mgr = "listed"
  /\ sessions' = [t \in Tenants |-> IF t \in Stale /\ desired[t] = 0 THEN 0 ELSE sessions[t]]
  /\ phase' = Stopped(Stale)
  /\ mgr' = "stopping"
  /\ UNCHANGED <<envVars, cached, wake, desired, queue, later, read, applied,
                 relayVars, cancelled>>

\* Phases 1 and 2: under the lock the stale Sessions leave the map, then
\* every one of them is stopped in a goroutine of its own.
Diff ==
  /\ mgr = "listed"
  /\ sessions' = [t \in Tenants |-> IF t \in Stale THEN 0 ELSE sessions[t]]
  /\ phase' = Stopped(Stale)
  /\ mgr' = "stopping"
  /\ UNCHANGED <<envVars, cached, wake, desired, queue, later, read, applied,
                 relayVars, cancelled>>

Missing == {t \in Tenants : desired[t] # 0 /\ sessions[t] = 0}

Builds ==
  [t \in Tenants |-> [h \in Hash |->
     IF t \in Missing /\ h = desired[t] THEN "build" ELSE phase[t][h]]]

\* Mutant: without stopWG.Wait().
BuildWithoutWaiting ==
  /\ mgr = "stopping"
  /\ phase' = Builds
  /\ mgr' = "starting"
  /\ UNCHANGED <<envVars, cached, wake, desired, sessions, queue, later, read,
                 applied, relayVars, cancelled>>

\* Phase 3 begins when every Stop has returned.
Build ==
  /\ mgr = "stopping"
  /\ \A t \in Tenants, h \in Hash : phase[t][h] # "stop"
  /\ phase' = Builds
  /\ mgr' = "starting"
  /\ UNCHANGED <<envVars, cached, wake, desired, sessions, queue, later, read,
                 applied, relayVars, cancelled>>

\* Phase 4, when every build has returned; a failed one is retried by a
\* later pass.  No other pass can have published meanwhile.
Publish ==
  /\ mgr = "starting"
  /\ \A t \in Tenants, h \in Hash : phase[t][h] \notin {"build", "sync"}
  /\ sessions' = [t \in Tenants |->
       IF t \in Missing /\ phase[t][desired[t]] = "run" THEN desired[t] ELSE sessions[t]]
  /\ mgr' = "idle"
  /\ UNCHANGED <<envVars, cached, wake, desired, sessVars, relayVars, cancelled>>

\* The deferred stopAll.
StopAll ==
  /\ mgr = "idle"
  /\ cancelled
  /\ sessions' = [t \in Tenants |-> 0]
  /\ phase' = Stopped({t \in Tenants : sessions[t] # 0})
  /\ mgr' = "stopAll"
  /\ UNCHANGED <<envVars, cached, wake, desired, queue, later, read, applied,
                 relayVars, cancelled>>

\* Start returns, the process exits and another one is elected.
Exit ==
  /\ mgr = "stopAll"
  /\ \A t \in Tenants, h \in Hash : phase[t][h] # "stop"
  /\ Fresh
  /\ UNCHANGED ops

ManagerStep == BeginPass \/ Diff \/ Build \/ Publish \/ StopAll \/ Exit

-----------------------------------------------------------------------------
(***************************************************************************)
(* A Session.                                                              *)
(***************************************************************************)
\* buildSession and the part of Start before the Service informer: the cache
\* has no informer yet, so WaitForCacheSync returns at once, and the REST
\* mapping that GetInformer needs fails if the apiserver does not answer.  A
\* failed Start is followed by Stop, which has nothing to drain.
Dial(t, h) ==
  /\ phase[t][h] = "build"
  /\ phase' = [phase EXCEPT ![t][h] = IF up[t] /\ ~cancelled THEN "sync" ELSE "none"]
  /\ UNCHANGED <<envVars, cached, mgrVars, queue, later, read, applied, relayVars, cancelled>>

\* GetInformer blocks until the informer's first list, or for ever: only the
\* manager's context ends it.  Then the handler's initial Add events queue
\* every Service, and the ticker and the worker start.
SyncServices(t, h) ==
  /\ phase[t][h] = "sync"
  /\ \/ cancelled /\ phase' = [phase EXCEPT ![t][h] = "none"] /\ UNCHANGED queue
     \/ /\ up[t] /\ ~cancelled
        /\ phase' = [phase EXCEPT ![t][h] = "run"]
        /\ queue' = [queue EXCEPT ![t][h] = "queued"]
  /\ UNCHANGED <<envVars, cached, mgrVars, later, read, applied, relayVars, cancelled>>

\* processNext: the item is taken and Reconcile reads the CR.  A queue that is
\* shutting down is still served until it is empty.
Take(t, h) ==
  /\ phase[t][h] \in {"run", "stop"}
  /\ queue[t][h] = "queued"
  /\ queue' = [queue EXCEPT ![t][h] = "busy"]
  /\ read' = [read EXCEPT ![t] = cr[t]]
  /\ UNCHANGED <<envVars, cached, mgrVars, phase, later, applied, relayVars, cancelled>>

\* Reconcile may fail while the tenant's apiserver is away or the context is
\* cancelled; one that made its last call before a cancellation succeeds.
Failing(t, h) == ~up[t] \/ cancelled \/ phase[t][h] = "stop"

\* Mutant: a failed item is not marked Done.
FinishWithoutDone(t, h) ==
  /\ queue[t][h] \in {"busy", "dirty"}
  /\ ~Failing(t, h)
  /\ applied' = [applied EXCEPT ![t] = read[t]]
  /\ later' = [later EXCEPT ![t][h] = TRUE]
  /\ queue' = [queue EXCEPT ![t][h] = IF @ = "dirty" THEN "queued" ELSE "idle"]
  /\ UNCHANGED <<envVars, cached, mgrVars, phase, read, relayVars, cancelled>>

\* Reconcile returns: with an error the item is delayed (AddRateLimited), with
\* RequeueAfter too, otherwise it is forgotten; a queue that is shutting down
\* ignores both.  Done queues the item again if it is dirty.
Finish(t, h) ==
  /\ queue[t][h] \in {"busy", "dirty"}
  /\ \/ /\ Failing(t, h)
        /\ later' = [later EXCEPT ![t][h] = phase[t][h] = "run"]
        /\ UNCHANGED applied
     \/ /\ up[t]
        /\ applied' = [applied EXCEPT ![t] = read[t]]
        /\ \E requeueAfter \in BOOLEAN :
             later' = [later EXCEPT ![t][h] = @ \/ (requeueAfter /\ phase[t][h] = "run")]
  /\ queue' = [queue EXCEPT ![t][h] = IF @ = "dirty" THEN "queued" ELSE "idle"]
  /\ UNCHANGED <<envVars, cached, mgrVars, phase, read, relayVars, cancelled>>

\* The delay heap hands an item over; it stops with its queue.
Ripe(t, h) ==
  /\ later[t][h]
  /\ phase[t][h] = "run"
  /\ later' = [later EXCEPT ![t][h] = FALSE]
  /\ Enqueue(t, h)
  /\ UNCHANGED <<envVars, cached, mgrVars, phase, read, applied, relayVars, cancelled>>

\* Mutant: a tenant without events is never resynced.
NoResync(t, h) == FALSE /\ UNCHANGED vars

\* runResync: the ticker re-adds every LoadBalancer Service.
Resync(t, h) ==
  /\ phase[t][h] = "run"
  /\ ~cancelled
  /\ Enqueue(t, h)
  /\ UNCHANGED <<envVars, cached, mgrVars, phase, later, read, applied, relayVars, cancelled>>

\* Mutant: without ShutDownWithDrain and wg.Wait().
StopWithoutDrain(t, h) ==
  /\ phase[t][h] = "stop"
  /\ phase' = [phase EXCEPT ![t][h] = "none"]
  /\ later' = [later EXCEPT ![t][h] = FALSE]
  /\ UNCHANGED <<envVars, cached, mgrVars, queue, read, applied, relayVars, cancelled>>

\* Stop returns: the worker has emptied the queue and exited.
StopReturns(t, h) ==
  /\ phase[t][h] = "stop"
  /\ queue[t][h] = "idle"
  /\ phase' = [phase EXCEPT ![t][h] = "none"]
  /\ later' = [later EXCEPT ![t][h] = FALSE]
  /\ UNCHANGED <<envVars, cached, mgrVars, queue, read, applied, relayVars, cancelled>>

-----------------------------------------------------------------------------
(***************************************************************************)
(* KSCWatcher.Reconcile and Manager.EnqueueAllForTenant.                   *)
(***************************************************************************)
\* The lookup, under the lock: without a published Session the event is done.
LookUp(t) ==
  /\ crEvent[t]
  /\ relay[t] = 0
  /\ ~cancelled
  /\ crEvent' = [crEvent EXCEPT ![t] = FALSE]
  /\ relay' = [relay EXCEPT ![t] = sessions[t]]
  /\ UNCHANGED <<envVars, cached, mgrVars, sessVars, cancelled>>

\* EnqueueAllLBServices, after the unlock: the Session may have been stopped
\* since.  Then its client fails and ksc-watcher retries, or its queue
\* ignores the items.
Forward(t) ==
  /\ relay[t] # 0
  /\ relay' = [relay EXCEPT ![t] = 0]
  /\ \/ /\ Enqueue(t, relay[t])
        /\ UNCHANGED crEvent
     \/ /\ phase[t][relay[t]] # "run" \/ cancelled
        /\ crEvent' = [crEvent EXCEPT ![t] = TRUE]
        /\ UNCHANGED queue
  /\ UNCHANGED <<envVars, cached, mgrVars, phase, later, read, applied, cancelled>>

-----------------------------------------------------------------------------
SessionStep(t, h) == Dial(t, h) \/ SyncServices(t, h) \/ StopReturns(t, h)

EnvStep ==
  \/ \E t \in Tenants : WriteSecret(t) \/ ChangeCR(t) \/ Outage(t) \/ Recover(t)
  \/ Crash
  \/ LoseLeadership

Next ==
  \/ EnvStep
  \/ ManagerStep
  \/ ListFails
  \/ \E t \in Tenants : SecretEvent(t) \/ LookUp(t) \/ Forward(t)
  \/ \E t \in Tenants, h \in Hash :
       SessionStep(t, h) \/ Take(t, h) \/ Finish(t, h) \/ Ripe(t, h) \/ Resync(t, h)

Spec == Init /\ [][Next]_vars

(***************************************************************************)
(* Fairness: goroutines that are not blocked run, tickers tick, informers  *)
(* deliver.  Nothing is assumed of Kamaji, operators, or of an apiserver.  *)
(***************************************************************************)
Fairness ==
  /\ WF_vars(ManagerStep)
  /\ \A t \in Tenants :
       /\ WF_vars(SecretEvent(t))
       /\ WF_vars(LookUp(t) \/ Forward(t))
       /\ WF_vars(\E h \in Hash : SessionStep(t, h))
       /\ WF_vars(\E h \in Hash : Take(t, h) \/ Finish(t, h))
       /\ WF_vars(\E h \in Hash : Resync(t, h))

FairSpec == Spec /\ Fairness

\* Outages of a tenant's apiserver end.
OutagesEnd == \A t \in Tenants : WF_vars(Recover(t))

RecoveringSpec == FairSpec /\ OutagesEnd

-----------------------------------------------------------------------------
\* Two Sessions of a tenant never exist at once, so its Services never have
\* two workers, whatever happens to its kubeconfig while one is starting,
\* running or stopping: reconcileAll waits for every Stop before it builds.
OneSessionPerTenant ==
  \A t \in Tenants : Cardinality({h \in Hash : phase[t][h] # "none"}) <= 1

\* EnqueueAllForTenant and TenantClient hand out a Session that has started
\* and is not being stopped: it is published last and unpublished first.
PublishedIsRunning ==
  \A t \in Tenants : sessions[t] # 0 => phase[t][sessions[t]] = "run"

\* A kubeconfig that stays gets its Session, one that is gone loses it, across
\* rotations during a pass, lost signals, failing starts and restarts.
SecretIsFollowed ==
  \A t \in Tenants, k \in 0..MaxHash :
    <>[](kubeconfig[t] = k) =>
      <>[](sessions[t] = k /\ \A h \in Hash \ {k} : phase[t][h] = "none")

\* A CR change reaches the tenant's Services even if ksc-watcher relays it
\* while no Session is published, or to one that is being stopped.
CRChangeIsApplied ==
  \A t \in Tenants : <>[](kubeconfig[t] # 0) => <>[](applied[t] = cr[t])

\* Stop returns: the worker of a Session that is shut down empties its queue,
\* failing reconciles included, so reconcileAll does not wait for ever.
StopEnds == \A t \in Tenants, h \in Hash : phase[t][h] = "stop" ~> phase[t][h] # "stop"

\* sessionStartTimeout's comment (session.go): a tenant whose apiserver is
\* unreachable does not wedge the reconcile loop, so another tenant, whose
\* apiserver answers, still gets its Session.
HealthyTenantIsServed ==
  \A t \in Tenants, h \in Hash :
    <>[](kubeconfig[t] = h /\ up[t]) => <>(sessions[t] = h)
=============================================================================
