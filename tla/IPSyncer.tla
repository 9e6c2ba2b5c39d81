------------------------------- MODULE IPSyncer -------------------------------
(***************************************************************************)
(* RunIPSyncer and syncExternalIPs (ipsync.go): the externalIPs of the     *)
(* router's own Service follow the addresses of the nodes, at most one     *)
(* patch per debounce interval, unless the Service is a LoadBalancer.      *)
(***************************************************************************)
CONSTANT IP

VARIABLES
  nodes,      \* addresses and extra-ips of all nodes
  cached,     \* the same in the node informer's cache
  trigger,    \* the one-slot channel
  syncPC,     \* where the syncer is
  listed,     \* the addresses it listed
  service     \* the Service: its type and externalIPs

syncerVars == <<nodes, cached, trigger, syncPC, listed, service>>

SyncerTypeOK ==
  /\ nodes \subseteq IP /\ cached \subseteq IP /\ listed \subseteq IP
  /\ trigger \in BOOLEAN
  /\ syncPC \in {"idle", "debounce", "list", "get", "patch"}
  /\ service \in [type : {"ClusterIP", "LoadBalancer"}, externalIPs : SUBSET IP]

\* The cache is synced and the first sync is due.
SyncerInit ==
  /\ nodes \in SUBSET IP /\ cached = nodes /\ listed = {}
  /\ trigger = TRUE
  /\ syncPC = "list"
  /\ service \in [type : {"ClusterIP", "LoadBalancer"}, externalIPs : SUBSET IP]

\* Nodes come and go, or their addresses flap.
ChangeNodes ==
  /\ nodes' \in SUBSET IP \ {nodes}
  /\ UNCHANGED <<cached, trigger, syncPC, listed, service>>

\* The chart is upgraded to another service.type.
ChangeType ==
  /\ service' \in [type : {"ClusterIP", "LoadBalancer"} \ {service.type},
                   externalIPs : {service.externalIPs}]
  /\ UNCHANGED <<nodes, cached, trigger, syncPC, listed>>

-----------------------------------------------------------------------------
\* A node event, or the informer's resync: enqueue, unless the slot is full.
NodeEvent ==
  /\ cached' = nodes /\ trigger' = TRUE
  /\ UNCHANGED <<nodes, syncPC, listed, service>>

\* The loop takes the trigger.  After less than the interval it waits first.
TakeTrigger ==
  /\ syncPC = "idle" /\ trigger
  /\ trigger' = FALSE
  /\ syncPC' \in {"debounce", "list"}
  /\ UNCHANGED <<nodes, cached, listed, service>>

\* The timer fires; what piled up is drained.
TimerFires ==
  /\ syncPC = "debounce"
  /\ syncPC' = "list" /\ trigger' = FALSE
  /\ UNCHANGED <<nodes, cached, listed, service>>

ListNodes ==
  /\ syncPC = "list"
  /\ listed' = cached
  /\ syncPC' = "get"
  /\ UNCHANGED <<nodes, cached, trigger, service>>

\* Mutant: only additions are noticed.
DiffersByAddition == ~(listed \subseteq service.externalIPs)

Differs == service.externalIPs # listed

\* The Service is read; it is left alone if it is a LoadBalancer or has the
\* addresses already.  A failed read is only logged.
GetService ==
  /\ syncPC = "get"
  /\ \/ service.type = "ClusterIP" /\ Differs /\ syncPC' = "patch"
     \/ (service.type = "LoadBalancer" \/ ~Differs) /\ syncPC' = "idle"
  /\ UNCHANGED <<nodes, cached, trigger, listed, service>>

\* The merge patch, whatever the Service has become since.
PatchService ==
  /\ syncPC = "patch"
  /\ service' = [service EXCEPT !.externalIPs = listed]
  /\ syncPC' = "idle"
  /\ UNCHANGED <<nodes, cached, trigger, listed>>

\* The apiserver refuses the read or the patch: the error is logged, and the
\* syncer waits for the next trigger.
SyncFails ==
  /\ syncPC \in {"get", "patch"}
  /\ syncPC' = "idle"
  /\ UNCHANGED <<nodes, cached, trigger, listed, service>>

SyncStep == TakeTrigger \/ TimerFires \/ ListNodes \/ GetService \/ PatchService
=============================================================================
