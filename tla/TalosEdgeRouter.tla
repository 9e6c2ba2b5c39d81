--------------------------- MODULE TalosEdgeRouter ---------------------------
(***************************************************************************)
(* The talos-edge-router process (main.go): the routing table fed by the   *)
(* Service informer, a connection handled while the table changes, and the *)
(* externalIPs syncer, side by side.                                       *)
(***************************************************************************)
EXTENDS SNIRouter, Relay, IPSyncer

CONSTANT MaxOps  \* bound: writes of Services, nodes and the own Service, and connections

ASSUME EdgeAssumption == MaxOps \in Nat

VARIABLES
  syncing, \* is --sync-namespace given?
  target,  \* the label and server name of the connection, if there is one
  ops      \* operations so far

vars == <<routerVars, relayVars, syncerVars, syncing, target, ops>>

TypeOK ==
  /\ RouterTypeOK /\ RelayTypeOK /\ SyncerTypeOK
  /\ syncing \in BOOLEAN /\ target \in (Label \X Host) \cup {<<>>} /\ ops \in 0..MaxOps

Init ==
  /\ RouterInit /\ RelayInit /\ SyncerInit
  /\ syncing \in BOOLEAN /\ target = <<>> /\ ops = 0

\* Router.Backend.
Backend(label, sni) == sni \in DOMAIN backends[label]

RouterNext ==
  /\ \E s \in Svc : Deliver(s) \/ Replay(s)
  /\ UNCHANGED <<relayVars, syncerVars, syncing, target, ops>>

HandleNext ==
  /\ phase # "none"
  /\ RelayStep(Backend(target[1], target[2]))
  /\ UNCHANGED <<routerVars, syncerVars, syncing, target, ops>>

EndsNext == Ends /\ UNCHANGED <<routerVars, syncerVars, syncing, target, ops>>

SyncerNext ==
  /\ syncing
  /\ SyncStep \/ SyncFails \/ NodeEvent
  /\ UNCHANGED <<routerVars, relayVars, syncing, target, ops>>

Operate ==
  /\ ops < MaxOps /\ ops' = ops + 1
  /\ \/ WriteService /\ UNCHANGED <<relayVars, syncerVars>>
     \/ (ChangeNodes \/ ChangeType) /\ UNCHANGED <<routerVars, relayVars>>
  /\ UNCHANGED <<syncing, target>>

\* serve accepts a connection on a label's listener.
Serve ==
  /\ ops < MaxOps /\ ops' = ops + 1
  /\ Accept
  /\ target' \in Label \X Host
  /\ UNCHANGED <<routerVars, syncerVars, syncing>>

Next == RouterNext \/ HandleNext \/ EndsNext \/ SyncerNext \/ Operate \/ Serve

Spec == Init /\ [][Next]_vars

\* The goroutines run, the informers deliver and resync every 30 s, an end
\* that saw the end of a stream closes its own, and a call that is repeated
\* for ever succeeds at last.
Fairness ==
  /\ RouterFairness /\ EndsFairness
  /\ WF_relayVars(HandleNext)
  /\ WF_syncerVars(syncing /\ NodeEvent)
  /\ WF_syncerVars(syncing /\ (TakeTrigger \/ TimerFires \/ ListNodes))
  /\ SF_syncerVars(syncing /\ GetService) /\ SF_syncerVars(syncing /\ PatchService)

FairSpec == Spec /\ Fairness

\* The router's own Service ends up with exactly the addresses of the nodes
\* whatever node events were merged, dropped or drained on the way and
\* whichever syncs failed, once its type stays ClusterIP.
ExternalIPsFollowNodes ==
  syncing /\ <>[](service.type = "ClusterIP") => <>[](service.externalIPs = nodes)
=============================================================================
