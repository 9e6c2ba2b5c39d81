--------------------------- MODULE ServiceContract ---------------------------
(***************************************************************************)
(* What the Service reconciler promises of every Service, free of calls,   *)
(* retries, caches and Octavia's states: the order in which a Service is   *)
(* claimed by our finalizer, given a load balancer and a floating IP,      *)
(* published, and stripped of all that again before it is let go.          *)
(***************************************************************************)
CONSTANT Service

VARIABLES
  live,       \* the tenant is not being torn down
  claimed,    \* Services with our finalizer
  balanced,   \* Services with a load balancer
  addressed,  \* Services with a floating IP
  published   \* Services with an address in their status

vars == <<live, claimed, balanced, addressed, published>>

Init ==
  /\ live = TRUE
  /\ claimed = {} /\ balanced = {} /\ addressed = {} /\ published = {}

Claim(s) ==
  /\ claimed' = claimed \cup {s}
  /\ UNCHANGED <<live, balanced, addressed, published>>

Balance(s) ==
  /\ s \in claimed \ balanced
  /\ balanced' = balanced \cup {s}
  /\ UNCHANGED <<live, claimed, addressed, published>>

Allocate(s) ==
  /\ s \in (claimed \cap balanced) \ addressed
  /\ addressed' = addressed \cup {s}
  /\ UNCHANGED <<live, claimed, balanced, published>>

Publish(s) ==
  /\ s \in claimed \cap balanced
  /\ published' = published \cup {s}
  /\ UNCHANGED <<live, claimed, balanced, addressed>>

Withdraw(s) ==
  /\ published' = published \ {s}
  /\ UNCHANGED <<live, claimed, balanced, addressed>>

\* The floating IP goes before the load balancer does.
Deallocate(s) ==
  /\ addressed' = addressed \ {s}
  /\ UNCHANGED <<live, claimed, balanced, published>>

Unbalance(s) ==
  /\ s \notin addressed
  /\ balanced' = balanced \ {s}
  /\ UNCHANGED <<live, claimed, addressed, published>>

\* A living tenant's Service is let go with nothing left; a dying tenant's
\* at once, as the cluster reconciler sweeps what is left behind.
Release(s) ==
  /\ live => s \notin balanced \cup addressed \cup published
  /\ claimed' = claimed \ {s}
  /\ published' \in {published, published \ {s}}
  /\ UNCHANGED <<live, balanced, addressed>>

EndTenant == live' = FALSE /\ UNCHANGED <<claimed, balanced, addressed, published>>

Next ==
  \/ EndTenant
  \/ \E s \in Service :
       \/ Withdraw(s) \/ Deallocate(s) \/ Unbalance(s) \/ Release(s)
       \/ Claim(s) \/ Balance(s) \/ Allocate(s) \/ Publish(s)

Spec == Init /\ [][Next]_vars
=============================================================================
