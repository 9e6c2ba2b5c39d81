----------------------------- MODULE BackendSync -----------------------------
(***************************************************************************)
(* What SyncListenersAndMembers (loadbalancer.go) promises of a load       *)
(* balancer: a port is served by the complete set of backends that the     *)
(* Service's ports and the workers, as last read, call for, or still by    *)
(* what served it before.  No port is ever served by a mixture of old and  *)
(* new workers or NodePorts.                                               *)
(***************************************************************************)
CONSTANTS Port, NodePort, Worker

VARIABLES
  spec,      \* spec.ports: the NodePort of every port of the Service
  ips,       \* the workers
  seenSpec,  \* spec.ports as last read
  seenIPs,   \* the workers as last read
  routes     \* the backends every port is served by

vars == <<spec, ips, seenSpec, seenIPs, routes>>

\* Every worker at the port's NodePort; nothing for a port not in the spec.
Backends(s, w, p) == IF p \in DOMAIN s THEN w \X {s[p]} ELSE {}

Init ==
  /\ seenSpec = spec
  /\ seenIPs = ips
  /\ routes = [p \in Port |-> {}]

Change ==
  /\ spec' # spec \/ ips' # ips
  /\ UNCHANGED <<seenSpec, seenIPs, routes>>

ReadSpec == seenSpec' = spec /\ UNCHANGED <<spec, ips, seenIPs, routes>>
ReadIPs == seenIPs' = ips /\ UNCHANGED <<spec, ips, seenSpec, routes>>

Apply(p) ==
  /\ routes' = [routes EXCEPT ![p] = Backends(seenSpec, seenIPs, p)]
  /\ UNCHANGED <<spec, ips, seenSpec, seenIPs>>

Next == Change \/ ReadSpec \/ ReadIPs \/ \E p \in Port : Apply(p)

Spec == Init /\ [][Next]_vars
=============================================================================
