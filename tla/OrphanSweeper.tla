---------------------------- MODULE OrphanSweeper ----------------------------
(***************************************************************************)
(* runOrphanSweeper of cmd/main.go with SweepOrphans and                   *)
(* SweepOrphanNovaServers of sweep.go: every ten minutes, delete whatever  *)
(* belongs to a cluster without a live HelmRelease, and, in a live         *)
(* cluster, the load balancers and floating IPs of Services that are gone. *)
(* Seen from one tenant; `Sibling' is another live cluster of the project. *)
(***************************************************************************)
EXTENDS ClusterReconciler

CONSTANT Failures  \* may calls fail and the process restart?

ASSUME FailuresAssumption == Failures \in BOOLEAN

VARIABLES
  session,  \* does the Manager hold a Session (kubeconfig Secret) for us?
  spc,      \* the next call
  known,    \* is our cluster in this cycle's knownClusters?
  seen,     \* serviceExistsSeen: {} unknown, {TRUE} exists, {FALSE} gone
  slbs,     \* orphanServiceLBs
  sfips,    \* orphan floating IPs listed
  stodo     \* SweepClusterResources' toDelete

cycleVars == <<known, seen, slbs, sfips, stodo>>
swVars == <<session, spc, cycleVars>>

OSweep == INSTANCE ClusterSweep WITH wpc <- spc, todo <- stodo

SWTypeOK ==
  /\ session \in BOOLEAN
  /\ spc \in {"idle", "nova", "lbs", "delLB", "fips", "delFip", "cluster",
              "list", "fip", "lb", "sg", "swept", "sgs", "secrets"}
  /\ known \in BOOLEAN
  /\ seen \in [Service -> {{}, {TRUE}, {FALSE}}]
  /\ slbs \subseteq LBId
  /\ sfips \subseteq FipId
  /\ stodo \subseteq LBId

Unseen == [s \in Service |-> {}]

SWInit ==
  /\ session = TRUE
  /\ spc = "idle"
  /\ known = FALSE /\ seen = Unseen /\ slbs = {} /\ sfips = {} /\ stodo = {}

\* The cycle ends, complete or with an error that is logged.
EndCycle ==
  /\ spc' = "idle"
  /\ known' = FALSE /\ seen' = Unseen /\ slbs' = {} /\ sfips' = {} /\ stodo' = {}

-----------------------------------------------------------------------------
\* listKnownClustersFromHRs: a terminating HelmRelease is not known.  A cycle
\* with no known cluster is skipped, and it needs the credentials of one.
Tick ==
  /\ spc = "idle"
  /\ Sibling \/ (hr = "live" /\ ksc.present /\ ksc.secret)
  /\ spc' = "nova"
  /\ known' = (hr = "live")
  /\ UNCHANGED <<cloudVars, apiVars, session, seen, slbs, sfips, stodo>>

\* SweepOrphanNovaServers: an unknown cluster's servers are deleted.  Nova
\* does so in the background: the ports may outlive this step.
SweepNova ==
  /\ spc = "nova"
  /\ spc' = "lbs"
  /\ \/ UNCHANGED <<workers, portSGs>>
     \/ ~known /\ workers' = FALSE /\ portSGs' = {}
  /\ UNCHANGED <<lb, fip, clusterSG, rules, apiVars, session, cycleVars>>

\* Mutant: a failed Get is read as "not found".
CheckedFailingOpen(S, inconclusive) ==
  [s \in Service |->
     IF s \in S /\ seen[s] = {}
       THEN {~session \/ (Read(s).exists /\ s \notin inconclusive)}
       ELSE seen[s]]

\* Mutant: the cycle's verdict on a Service is not reused.
CheckedTwice(S, inconclusive) ==
  [s \in Service |->
     IF s \in S THEN seen[s] \cup {~session \/ s \in inconclusive \/ Read(s).exists}
                ELSE seen[s]]

\* serviceExists through the Session's client; without a Session, or when the
\* Get fails, the Service is taken to exist.
Checked(S, inconclusive) ==
  [s \in Service |->
     IF s \in S /\ seen[s] = {}
       THEN {~session \/ s \in inconclusive \/ Read(s).exists}
       ELSE seen[s]]

\* The Services whose Get may fail.
Failing(S) == IF Failures THEN SUBSET S ELSE {{}}

\* Mutant: without the per-Service check (serviceExists is nil).
ListClusterLBs ==
  /\ spc = "lbs"
  /\ stodo' = IF known THEN {} ELSE {l \in LBId : LiveLB(l)}
  /\ spc' = "delLB"
  /\ UNCHANGED <<cloudVars, apiVars, session, known, seen, slbs, sfips>>

ListLBs ==
  /\ spc = "lbs"
  /\ LET live == {l \in LBId : LiveLB(l)}
         owners == {lb[l].svc : l \in live}
     IN  IF known
           THEN /\ \E inconclusive \in Failing(owners) : seen' = Checked(owners, inconclusive)
                /\ slbs' = {l \in live : seen'[lb[l].svc] = {FALSE}}
                /\ UNCHANGED stodo
           ELSE UNCHANGED <<seen, slbs>> /\ stodo' = live
  /\ spc' = "delLB"
  /\ UNCHANGED <<cloudVars, apiVars, session, known, sfips>>

\* Delete the orphans' load balancers by id, without their floating IP; 409
\* is ignored, 404 ends the cycle.
DeleteOrphanLB ==
  /\ spc = "delLB"
  /\ \/ slbs = {} /\ spc' = "fips" /\ UNCHANGED <<lb, cycleVars>>
     \/ \E l \in slbs :
          \/ /\ Deletable(l)
             /\ RequestDelete(l)
             /\ slbs' = slbs \ {l}
             /\ UNCHANGED <<spc, known, seen, sfips, stodo>>
          \/ /\ lb[l].status \in Pending
             /\ slbs' = slbs \ {l}
             /\ UNCHANGED <<lb, spc, known, seen, sfips, stodo>>
          \/ ~LiveLB(l) /\ EndCycle /\ UNCHANGED lb
  /\ UNCHANGED <<fip, clusterSG, rules, workers, portSGs, apiVars, session>>

\* sweepOrphanFloatingIPs: FIPs of an unknown cluster are skipped.
ListFips ==
  /\ spc = "fips"
  /\ LET tagged == {f \in FipId : fip[f].state = "allocated"}
         owners == {fip[f].svc : f \in tagged}
     IN  IF known
           THEN /\ \E inconclusive \in Failing(owners) : seen' = Checked(owners, inconclusive)
                /\ sfips' = {f \in tagged : seen'[fip[f].svc] = {FALSE}}
           ELSE UNCHANGED <<seen, sfips>>
  /\ spc' = "delFip"
  /\ UNCHANGED <<cloudVars, apiVars, session, known, slbs, stodo>>

DeleteOrphanFip ==
  /\ spc = "delFip"
  /\ \/ sfips = {} /\ spc' = "cluster" /\ UNCHANGED <<fip, cycleVars>>
     \/ \E f \in sfips :
          \/ /\ fip[f].state = "allocated"
             /\ fip' = Released({f})
             /\ sfips' = sfips \ {f}
             /\ UNCHANGED <<spc, known, seen, slbs, stodo>>
          \/ fip[f].state # "allocated" /\ EndCycle /\ UNCHANGED fip
  /\ UNCHANGED <<lb, clusterSG, rules, workers, portSGs, apiVars, session>>

\* Mutant: orphan clusters are listed and never swept.
SkipOrphanCluster ==
  /\ spc = "cluster"
  /\ spc' = "sgs"
  /\ stodo' = {}
  /\ UNCHANGED <<cloudVars, apiVars, session, known, seen, slbs, sfips>>

\* orphanClusters: a cluster that owned a load balancer when they were listed
\* is swept as a whole, group included; otherwise the group alone is.
SweepCluster ==
  /\ spc = "cluster"
  /\ spc' = IF stodo # {} THEN "list" ELSE "sgs"
  /\ stodo' = {}
  /\ UNCHANGED <<cloudVars, apiVars, session, known, seen, slbs, sfips>>

SWSweep == OSweep!SweepStep /\ UNCHANGED <<apiVars, session, known, seen, slbs, sfips>>

AfterClusterSweep ==
  /\ spc = "swept"
  /\ spc' = "secrets"
  /\ UNCHANGED <<cloudVars, apiVars, session, cycleVars>>

\* Mutant: orphan groups are not swept on their own.
SkipOrphanSG ==
  /\ spc = "sgs"
  /\ spc' = "secrets"
  /\ UNCHANGED <<cloudVars, apiVars, session, cycleVars>>

\* Here a group still in use (409) ends the cycle.
SweepOrphanSG ==
  /\ spc = "sgs"
  /\ IF clusterSG /\ ~known
       THEN IF SGInUse
              THEN EndCycle /\ UNCHANGED <<clusterSG, rules>>
              ELSE /\ clusterSG' = FALSE
                   /\ rules' = rules \ ({"cluster"} \X Service)
                   /\ spc' = "secrets"
                   /\ UNCHANGED cycleVars
       ELSE spc' = "secrets" /\ UNCHANGED <<clusterSG, rules, cycleVars>>
  /\ UNCHANGED <<lb, fip, workers, portSGs, apiVars, session>>

\* An unknown cluster's kubeconfig Secret goes, and its Session with it.
SweepSecrets ==
  /\ spc = "secrets"
  /\ session' = (session /\ known)
  /\ EndCycle
  /\ UNCHANGED <<cloudVars, apiVars>>

\* Any call fails, or the process restarts.
SWError ==
  /\ spc # "idle"
  /\ EndCycle
  /\ UNCHANGED <<cloudVars, apiVars, session>>

SWStep ==
  \/ Tick \/ SweepNova \/ ListLBs \/ DeleteOrphanLB \/ ListFips \/ DeleteOrphanFip
  \/ SweepCluster \/ SWSweep \/ AfterClusterSweep \/ SweepOrphanSG \/ SweepSecrets
=============================================================================
