------------------------------ MODULE SNIRouter ------------------------------
(***************************************************************************)
(* The routing table of talos-edge-router (router.go): which Service       *)
(* serves a TLS server name on a listener.  Several Services may claim the *)
(* same name; the informer delivers them one at a time, in any order, and  *)
(* replays its whole cache every 30 s.                                     *)
(***************************************************************************)
EXTENDS Naturals

CONSTANTS
  Svc,     \* namespace/name of the Services
  Label,   \* the listeners' labels
  Host,    \* values of the hostname annotation
  NoHost,  \* the annotation is not set
  Port     \* numbers of the listeners' target ports, positive

ASSUME RouterAssumption == NoHost \notin Host /\ Port \subseteq Nat \ {0}

VARIABLES
  svcs,      \* the Services the apiserver holds
  seen,      \* the Services last delivered to the handlers
  backends,  \* table of every label: who serves a name
  owned      \* the name every Service owns under a label

routerVars == <<svcs, seen, backends, owned>>

\* What the router reads of a Service: its hostname annotation and, for every
\* label, the number of the listener's target port; 0 stands for a Service
\* that does not carry the label or has no port of that name.
Object == [host : Host \cup {NoHost}, port : [Label -> {0} \cup Port]]

Partial(S, T) == UNION {[D -> T] : D \in SUBSET S}

RouterTypeOK ==
  /\ svcs \in Partial(Svc, Object) /\ seen \in Partial(Svc, Object)
  /\ backends \in [Label -> Partial(Host, Svc \X Port)]
  /\ owned \in [Svc -> Partial(Label, Host)]

\* NewRouter, before its cache is synced.
RouterInit ==
  /\ svcs \in Partial(Svc, Object)
  /\ seen = <<>>
  /\ backends = [l \in Label |-> <<>>]
  /\ owned = [s \in Svc |-> <<>>]

\* The labels, and the name, that a Service asks to be routed under.
Asks(o) == [l \in {k \in Label : o.host # NoHost /\ o.port[k] # 0} |-> o.host]
Claims(o, l, h) == o.host = h /\ l \in DOMAIN Asks(o)

Owns(f, l, h) == l \in DOMAIN f /\ f[l] = h

-----------------------------------------------------------------------------
\* Mutant: nothing that the Service owned before is removed.
DropNothing(s, tables, next) == tables

\* Mutant: what it owned before is removed whoever it points to now.
DropAny(s, tables, next) ==
  [l \in Label |->
     [h \in {k \in DOMAIN tables[l] : ~Owns(owned[s], l, k) \/ Owns(next, l, k)} |->
        tables[l][h]]]

\* The tables without what Service s owned and no longer does, unless it
\* points to another Service by now.
Drop(s, tables, next) ==
  [l \in Label |->
     [h \in {k \in DOMAIN tables[l] :
               ~Owns(owned[s], l, k) \/ Owns(next, l, k) \/ tables[l][k][1] # s} |->
        tables[l][h]]]

\* The handler of added and updated Services.
Upsert(s, o) ==
  LET next == Asks(o)
      written == [l \in Label |->
        [h \in DOMAIN backends[l] \cup {k \in Host : Owns(next, l, k)} |->
           IF Owns(next, l, h) THEN <<s, o.port[l]>> ELSE backends[l][h]]]
  IN /\ backends' = Drop(s, written, next)
     /\ owned' = [owned EXCEPT ![s] = next]

\* The handler of deleted ones, tombstones included.
Delete(s) ==
  /\ backends' = Drop(s, backends, <<>>)
  /\ owned' = [owned EXCEPT ![s] = <<>>]

\* The informer notices that a Service was added, changed or deleted.  What
\* happened in between may have been merged into one event.
Deliver(s) ==
  /\ \/ /\ s \in DOMAIN svcs
        /\ s \in DOMAIN seen => seen[s] # svcs[s]
        /\ seen' = [t \in DOMAIN seen \cup {s} |-> IF t = s THEN svcs[s] ELSE seen[t]]
        /\ Upsert(s, svcs[s])
     \/ /\ s \in DOMAIN seen \ DOMAIN svcs
        /\ seen' = [t \in DOMAIN seen \ {s} |-> seen[t]]
        /\ Delete(s)
  /\ UNCHANGED svcs

\* Mutant: the informer is created without resync.
NoReplay(s) == FALSE /\ UNCHANGED routerVars

\* The informer's resync.
Replay(s) ==
  /\ s \in DOMAIN seen
  /\ Upsert(s, seen[s])
  /\ UNCHANGED <<svcs, seen>>

\* A Service is created, changed or deleted.
WriteService ==
  /\ \E s \in Svc :
       \/ \E o \in Object :
            /\ s \in DOMAIN svcs => svcs[s] # o
            /\ svcs' = [t \in DOMAIN svcs \cup {s} |-> IF t = s THEN o ELSE svcs[t]]
       \/ s \in DOMAIN svcs /\ svcs' = [t \in DOMAIN svcs \ {s} |-> svcs[t]]
  /\ UNCHANGED <<seen, backends, owned>>

RouterFairness == \A s \in Svc : WF_routerVars(Deliver(s)) /\ WF_routerVars(Replay(s))

-----------------------------------------------------------------------------
\* No route outlives its claim: every entry points to a Service that, as last
\* seen, asks for this name under this label at this port.  An entry that
\* upsert or delete left behind would never be removed again.
RoutesAreClaimed ==
  \A l \in Label : \A h \in DOMAIN backends[l] :
    LET s == backends[l][h][1]
    IN /\ s \in DOMAIN seen
       /\ Claims(seen[s], l, h)
       /\ backends[l][h][2] = seen[s].port[l]

\* Updating or deleting a Service does not disturb its peers' routes: a name
\* stops being routed only when the Service it was routed to gives it up.
\* "Only delete if the current table entry belongs to this same Service".
PeerRoutesSurvive ==
  [][\A l \in Label : \A h \in DOMAIN backends[l] \ DOMAIN backends'[l] :
       LET s == backends[l][h][1]
       IN s \in DOMAIN seen' => ~Claims(seen'[s], l, h)]_routerVars

\* A name that some Service keeps claiming is in the end always routed to a
\* Service that claims it, even after the Service it was routed to is gone;
\* a name nobody claims is in the end not routed.
ClaimedNameIsRouted ==
  \A l \in Label, h \in Host :
    LET claimants == {s \in DOMAIN svcs : Claims(svcs[s], l, h)}
    IN /\ <>[](claimants # {}) => <>[](h \in DOMAIN backends[l] /\ backends[l][h][1] \in claimants)
       /\ <>[](claimants = {}) => <>[](h \notin DOMAIN backends[l])
=============================================================================
