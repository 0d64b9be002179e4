------------------------------ MODULE StayRTR ------------------------------
(***************************************************************************)
(* The whole server: the refresh goroutine of Refresh drives the RTR       *)
(* server of RTRServer through AddVRPs and NotifyClientsLatest, while      *)
(* routers query it and the exporter reads s.exported.                      *)
(*                                                                         *)
(* updateFromNewState is split where the code takes different locks: the   *)
(* first step is everything up to NotifyClientsLatest (the server's own    *)
(* lock), the second the s.exported update under lockJson.  Routers and    *)
(* the exporter can run between the two.  The metrics update that ends   *)
(* it takes no lock and is a third step.  The other steps of the refresh   *)
(* goroutine are those of Refresh, the router steps those of RTRServer.    *)
(***************************************************************************)
EXTENDS VRPIngest

CONSTANTS Docs, DocDecodes, DocRoas, NoRoas, SlurmDocs, SlurmDecodes, SlurmConf,
          SlurmFile, SlurmRefresh, CheckTime, NoDoc, NoSlurm, NoData,
          K, SerialSpace, MaxInstalls, Reset, Routers, SendNotifs, None,
          MaxEnvChanges   \* bound on the upstream's changes in a behaviour

VARIABLES pc, upstream, upSlurm, stale, lasthash, lastdata, lastchange, slurm,
          slurmNotPresentOrUpdated, delay, installed, exported, servedSlurm, canon,
          current, serial, deltas, installs,
          sstate, known, cset, resp, queryDue, deferred,
          vrpGauge,     \* the rpki_vrps gauges, or NoData before the first set
          gaugeTable,   \* GaugeTableDef, held in a variable as canon is
          envChanges

R == INSTANCE Refresh

\* The server holds the identities of well-formed VRPs.
ServedVRPs == {k \in {VRPKey(v) : v \in VRPJson} : WellFormedVRP(k)}

S == INSTANCE RTRServer WITH VRPs <- ServedVRPs

refreshVars == <<pc, upstream, upSlurm, stale, lasthash, lastdata, lastchange, slurm,
                slurmNotPresentOrUpdated, delay, installed, exported, servedSlurm, canon>>
metricVars == <<vrpGauge, gaugeTable>>
serverVars == <<current, serial, deltas, installs, sstate, known, cset, resp, queryDue, deferred>>
vars == <<refreshVars, serverVars, metricVars, envChanges>>

-----------------------------------------------------------------------------
(* updateFromNewState, first part (255-292): the early returns for nil     *)
(* data and an old buildtime, SLURM, processData, AddVRPs, and the         *)
(* notification when -notifications is on (inside S!Install).              *)
updateFromNewStateRejects ==
    R!RoasOf(lastdata) = NoRoas \/ (CheckTime /\ lastdata \in stale)

\* Fault: AddVRPs without the notification.
updateFromNewStateAddVRPsNoNotify ==
    /\ installed' = canon[lastdata, slurm]
    /\ servedSlurm' = slurm
    /\ S!AddVRPs(installed')
    /\ UNCHANGED <<sstate, known, cset, resp, queryDue, deferred>>

updateFromNewStateAddVRPs ==
    /\ installed' = canon[lastdata, slurm]
    /\ servedSlurm' = slurm
    /\ S!Install(installed')

Process ==
    /\ pc \in {"StartUpdate", "Update"}
    /\ IF updateFromNewStateRejects
       THEN /\ pc' = "Wait"
            /\ UNCHANGED <<installed, servedSlurm, serverVars>>
       ELSE /\ updateFromNewStateAddVRPs
            /\ pc' = "Export"
    /\ UNCHANGED <<upstream, upSlurm, stale, canon, lasthash, lastdata, lastchange, slurm,
                   slurmNotPresentOrUpdated, delay, exported, metricVars, envChanges>>

\* Fault: the exported Data taken from s.lastdata.Data, before SLURM.
ExportPreSlurm ==
    /\ pc = "Export"
    /\ exported' = [buildtime |-> lastdata, data |-> R!RoasOf(lastdata)]
    /\ pc' = "Metrics"
    /\ UNCHANGED <<upstream, upSlurm, stale, canon, lasthash, lastdata, lastchange, slurm,
                   slurmNotPresentOrUpdated, delay, installed, servedSlurm, serverVars,
                   metricVars, envChanges>>

\* updateFromNewState, second part (294-303): s.exported under lockJson.
Export ==
    /\ pc = "Export"
    /\ exported' = [buildtime |-> lastdata, data |-> R!VRPsJSON(lastdata, slurm)]
    /\ pc' = "Metrics"
    /\ UNCHANGED <<upstream, upSlurm, stale, canon, lasthash, lastdata, lastchange, slurm,
                   slurmNotPresentOrUpdated, delay, installed, servedSlurm, serverVars,
                   metricVars, envChanges>>

\* The VRPs of a deduplicated list whose prefix has To4() != nil (v4) or not.
FamilyCount(vrps, v4) == Cardinality({k \in ToSet(vrps) : PrefixIsV4[k[1]] = v4})

\* Fault: the raw and the deduplicated counts passed in each other's place.
UpdateMetricsSwapped(pd) ==
    [v4 |-> FamilyCount(pd.vrplist, TRUE), v6 |-> FamilyCount(pd.vrplist, FALSE),
     v4filtered |-> pd.countv4, v6filtered |-> pd.countv6]

(* metricsEvent.UpdateMetrics(countv4, countv6, countv4_dup, countv6_dup): *)
(* the "unfiltered" gauges get processData's counts (before               *)
(* deduplication), the "filtered" ones the family counts of the           *)
(* deduplicated list.  The rpki_change gauge (s.lastchange) is left out:  *)
(* time is not modelled.                                                   *)
UpdateMetrics(pd) ==
    [v4 |-> pd.countv4, v6 |-> pd.countv6,
     v4filtered |-> FamilyCount(pd.vrplist, TRUE), v6filtered |-> FamilyCount(pd.vrplist, FALSE)]

\* The gauges updateFromNewState sets for document d under SLURM config s.
GaugeTableDef == [d \in Docs, s \in SlurmDocs \cup {NoSlurm} |->
                      IF R!RoasOf(d) = NoRoas THEN NoData
                      ELSE UpdateMetrics(processData(R!VRPsJSON(d, s)))]

\* updateFromNewState, third part (305-316): the gauges, with no lock held.
Metrics ==
    /\ pc = "Metrics"
    /\ vrpGauge' = gaugeTable[lastdata, slurm]
    /\ pc' = "Wait"
    /\ UNCHANGED <<upstream, upSlurm, stale, canon, lasthash, lastdata, lastchange, slurm,
                   slurmNotPresentOrUpdated, delay, installed, exported, servedSlurm,
                   gaugeTable, serverVars, envChanges>>

\* The fetching steps of the refresh goroutine, as in Refresh.
Fetch(f) ==
    /\ \/ R!StartupCache(f) \/ R!StartupSlurm(f) \/ R!RefreshSlurm(f) \/ R!RefreshCache(f)
    /\ UNCHANGED <<serverVars, metricVars, envChanges>>

RefreshStep ==
    \/ \E f \in BOOLEAN : Fetch(f)
    \/ R!Wait /\ UNCHANGED <<serverVars, metricVars, envChanges>>
    \/ Process \/ Export \/ Metrics

\* The RTR listener is started after the initial updateFromNewState.
listening == pc \notin {"StartCache", "StartSlurm", "StartUpdate"}

RouterStep(r) ==
    /\ listening
    /\ S!Connect(r) \/ S!Query(r) \/ S!Deliver(r) \/ S!Disconnect(r)
    /\ UNCHANGED <<refreshVars, metricVars, envChanges>>

Environment ==
    /\ envChanges < MaxEnvChanges
    /\ R!Environment
    /\ envChanges' = envChanges + 1
    /\ UNCHANGED <<serverVars, metricVars>>

Init ==
    /\ R!Init /\ S!Init /\ envChanges = 0
    /\ vrpGauge = NoData /\ gaugeTable = GaugeTableDef

Next == RefreshStep \/ (\E r \in Routers : RouterStep(r)) \/ Environment

(* The refresh goroutine's timer always fires and a retried fetch          *)
(* eventually succeeds (as in Refresh); the server answers and sends       *)
(* responses, and a router sends the queries it owes (as in RTRServer).    *)
Fairness ==
    /\ WF_vars(RefreshStep)
    /\ SF_vars(Fetch(TRUE) /\ pc = "Cache")
    /\ \A r \in Routers :
          /\ WF_vars(queryDue[r] /\ S!Query(r) /\ UNCHANGED <<refreshVars, metricVars, envChanges>>)
          /\ WF_vars(S!Deliver(r) /\ UNCHANGED <<refreshVars, metricVars, envChanges>>)

Spec == Init /\ [][Next]_vars /\ Fairness

-----------------------------------------------------------------------------
(* Properties.                                                             *)

(* End to end: while the upstream serves a servable document d, a         *)
(* connected router eventually holds d's VRPs under the current SLURM     *)
(* config (or disconnects), through the refresh loop, AddVRPs, Serial     *)
(* Notify and the router's Serial or Reset Query, without relying on      *)
(* router polling.                                                         *)
RoutersConverge ==
    \A d \in Docs, r \in Routers :
        (R!Usable(d) /\ sstate[r] # "Down")
            ~> (~R!Usable(d) \/ sstate[r] = "Down" \/ cset[r] = canon[d, slurm])

(* The export endpoint returns the currently installed VRP list (spec     *)
(* 4.F): the VRPs of s.exported are those the RTR server holds.            *)
ExportShowsInstalled ==
    exported # NoData => {VRPKey(v) : v \in ToSet(exported.data)} = current

(* The export and the RTR server describe the same data: outside the     *)
(* window between AddVRPs and the lockJson section of one                 *)
(* updateFromNewState, processing the exported list yields exactly the    *)
(* set the RTR server holds.  It must survive a re-processing that a      *)
(* SLURM update triggers and the buildtime check rejects, SLURM filtering *)
(* and assertion, and AddVRPs calls that change nothing.                  *)
ExportCoherent ==
    (exported # NoData /\ pc # "Export") =>
        ToSet(processData(exported.data).vrplist) = current

(* Between refreshes, the rpki_vrps gauges describe what is served: the  *)
(* deduplicated ("filtered") count of each family is the number of VRPs   *)
(* of that family the RTR server holds, and the raw ("unfiltered") count  *)
(* is the number of valid entries of that family in the exported list     *)
(* (spec 4.F and its open question: raw post-SLURM, deduplicated post-     *)
(* ingest).  The family is the one of the data model: width 32 is IPv4.   *)
FamilyWidth(v4) == IF v4 THEN 32 ELSE 128

MetricsDescribeServed ==
    (pc = "Wait" /\ vrpGauge # NoData) =>
        \A v4 \in BOOLEAN :
            /\ (IF v4 THEN vrpGauge.v4filtered ELSE vrpGauge.v6filtered)
                   = Cardinality({k \in current : PrefixWidth[k[1]] = FamilyWidth(v4)})
            /\ (IF v4 THEN vrpGauge.v4 ELSE vrpGauge.v6)
                   = Len(SelectSeq(exported.data, LAMBDA v : Accepted(v)
                                        /\ PrefixWidth[v.prefix] = FamilyWidth(v4)))
=============================================================================
