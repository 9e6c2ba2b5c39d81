-------------------------- MODULE MCTalosEdgeRouter --------------------------
(***************************************************************************)
(* An instance of TalosEdgeRouter for TLC.  The syncer shares no state     *)
(* with the router and its connections, so that it is explored beside a    *)
(* router without Services, and the router in a process without syncer.    *)
(* A connection depends on the table only through one lookup, so that it   *)
(* is explored beside at most one Service, delivered or withdrawn          *)
(* meanwhile.                                                              *)
(***************************************************************************)
EXTENDS TalosEdgeRouter, FiniteSets, TLC

MCInit ==
  /\ Init
  /\ IF syncing THEN svcs = <<>>
               ELSE nodes = {} /\ service.type = "ClusterIP" /\ service.externalIPs = {}

MCNext ==
  /\ Next
  /\ IF syncing THEN UNCHANGED <<routerVars, relayVars>> ELSE UNCHANGED syncerVars
  /\ phase' # "none" => Cardinality(DOMAIN svcs \cup DOMAIN seen) <= 1 /\ UNCHANGED svcs

MCSpec == MCInit /\ [][MCNext]_vars /\ Fairness
=============================================================================
