------------------------------ MODULE Refresh ------------------------------
(***************************************************************************)
(* The refresh goroutine of cmd/stayrtr/stayrtr.go: the startup sequence  *)
(* of run() (updateFile, updateSlurm, updateFromNewState) followed by the  *)
(* endless loop of routineUpdate.  Each step is one call of the code, as   *)
(* one action.  The environment is the upstream HTTP server (which cache   *)
(* and SLURM documents it serves, and whether a fetch fails) and the clock *)
(* (a document's buildtime becomes older than 24 hours).                   *)
(*                                                                         *)
(* A document is a model value: equal bytes are the same document, so     *)
(* comparing SHA-256 sums is comparing documents.  The RTR server is seen  *)
(* through AddVRPs only: `installed` is the VRP set it serves.             *)
(***************************************************************************)
EXTENDS VRPIngest

CONSTANTS
    Docs,          \* cache documents the upstream may serve
    DocDecodes,    \* [Docs -> BOOLEAN]: decodeJSON returns no error
    DocRoas,       \* [Docs -> Seq(VRPJson) \cup {NoRoas}]: the "roas" list
    NoRoas,        \* marker: the document has no "roas" (Data == nil)
    SlurmDocs,     \* SLURM documents the upstream may serve
    SlurmDecodes,  \* [SlurmDocs -> BOOLEAN]: DecodeJSONSlurm returns no error
    SlurmConf,     \* [SlurmDocs -> [filter, assert]]: the decoded config
    SlurmFile,     \* -slurm is set
    SlurmRefresh,  \* -slurm.refresh
    CheckTime,     \* -checktime
    NoDoc,         \* lasthash == nil / lastdata.Data == nil
    NoSlurm,       \* s.slurm == nil
    NoData         \* the server has not been given any VRPs

ASSUME RefreshAssumption ==
    /\ SlurmFile \in BOOLEAN /\ SlurmRefresh \in BOOLEAN /\ CheckTime \in BOOLEAN
    /\ NoDoc \notin Docs /\ NoSlurm \notin SlurmDocs

VARIABLES
    pc,          \* which call of the refresh goroutine runs next
    upstream,    \* the cache document the upstream currently serves
    upSlurm,     \* the SLURM document the upstream currently serves
    stale,       \* documents whose buildtime is now more than 24h old
    lasthash,    \* s.lasthash: the last document that was decoded
    lastdata,    \* s.lastdata
    lastchange,  \* ~s.lastchange.IsZero()
    slurm,       \* s.slurm
    slurmNotPresentOrUpdated,  \* the local of routineUpdate
    delay,       \* the timer the last wait of routineUpdate armed
    installed,   \* the VRP set given to the server by AddVRPs
    exported,    \* s.exported, served by the exporter
    servedSlurm, \* history: s.slurm when `installed` was computed
    canon        \* CanonDef, held in the state so that TLC computes it
                 \* once (its liveness checker re-evaluates definitions)

vars == <<pc, upstream, upSlurm, stale, lasthash, lastdata, lastchange, slurm,
          slurmNotPresentOrUpdated, delay, installed, exported, servedSlurm, canon>>

\* The slurmFile of routineUpdate: cleared at startup unless -slurm.refresh.
loopSlurmFile == SlurmFile /\ SlurmRefresh

RoasOf(d) == IF d = NoDoc THEN NoRoas ELSE DocRoas[d]

\* vrpsjson of updateFromNewState for document d under SLURM config s.
VRPsJSON(d, s) == IF s = NoSlurm THEN RoasOf(d) ELSE ApplySlurm(RoasOf(d), SlurmConf[s])

\* The VRP set the server serves once d has been processed under s,
\* tabulated over all documents and configs.
CanonDef == [d \in Docs, s \in SlurmDocs \cup {NoSlurm} |->
                  IF RoasOf(d) = NoRoas THEN {} ELSE ToSet(processData(VRPsJSON(d, s)).vrplist)]



(* Type invariant; the served set holds only well-formed VRPs (the data   *)
(* model rejects a VRP violating plen <= max_length <= width at ingest).   *)
TypeOK ==
    /\ pc \in {"StartCache", "StartSlurm", "StartUpdate", "Wait", "Slurm", "Cache", "Update"}
    /\ upstream \in Docs /\ upSlurm \in SlurmDocs
    /\ stale \subseteq Docs
    /\ lasthash \in Docs \cup {NoDoc} /\ lastdata \in Docs \cup {NoDoc}
    /\ lastchange \in BOOLEAN /\ slurmNotPresentOrUpdated \in BOOLEAN
    /\ slurm \in SlurmDocs \cup {NoSlurm} /\ servedSlurm \in SlurmDocs \cup {NoSlurm}
    /\ delay \in {"none", "initial", "interval"}
    /\ installed \in {NoData} \cup SUBSET {k \in {VRPKey(v) : v \in VRPJson} : WellFormedVRP(k)}
    /\ exported \in {NoData} \cup [buildtime : Docs, data : Seq(VRPJson)]

-----------------------------------------------------------------------------
(* The calls.  `fetched` is FetchFile returning without error; its errors  *)
(* (HttpNotModified, IdenticalEtag, transport errors) all return early.    *)

\* updateFile returns true: a new document that decodes.
cacheUpdated(fetched) == fetched /\ upstream # lasthash /\ DocDecodes[upstream]

\* Fault: s.lastdata not replaced by the decoded document.
updateFileKeepData(fetched) ==
    IF cacheUpdated(fetched)
    THEN /\ lasthash' = upstream
         /\ lastchange' = TRUE
         /\ UNCHANGED lastdata
    ELSE UNCHANGED <<lasthash, lastdata, lastchange>>

updateFile(fetched) ==
    IF cacheUpdated(fetched)
    THEN /\ lasthash' = upstream
         /\ lastchange' = TRUE
         /\ lastdata' = upstream
    ELSE UNCHANGED <<lasthash, lastdata, lastchange>>

\* updateSlurm returns true whenever the file is fetched and decodes.
slurmUpdated(fetched) == fetched /\ SlurmDecodes[upSlurm]

updateSlurm(fetched) ==
    IF slurmUpdated(fetched) THEN slurm' = upSlurm ELSE UNCHANGED slurm

\* updateFromNewState: nothing when Data is nil, an error when the
\* buildtime is too old, otherwise AddVRPs and the export are replaced.
\* NotifyClientsLatest and the metrics are left to StayRTR.
updateFromNewState ==
    IF RoasOf(lastdata) = NoRoas \/ (CheckTime /\ lastdata \in stale)
    THEN UNCHANGED <<installed, exported, servedSlurm>>
    ELSE /\ installed' = canon[lastdata, slurm]
         /\ exported' = [buildtime |-> lastdata, data |-> VRPsJSON(lastdata, slurm)]
         /\ servedSlurm' = slurm

Env == <<upstream, upSlurm, stale, canon>>

-----------------------------------------------------------------------------
(* Startup, in run().                                                      *)
StartupCache(fetched) ==
    /\ pc = "StartCache"
    /\ updateFile(fetched)
    /\ pc' = IF SlurmFile THEN "StartSlurm" ELSE "StartUpdate"
    /\ UNCHANGED <<Env, slurm, slurmNotPresentOrUpdated, delay, installed, exported, servedSlurm>>

StartupSlurm(fetched) ==
    /\ pc = "StartSlurm"
    /\ updateSlurm(fetched)
    /\ pc' = "StartUpdate"
    /\ UNCHANGED <<Env, lasthash, lastdata, lastchange, slurmNotPresentOrUpdated,
                   delay, installed, exported, servedSlurm>>

StartupUpdate ==
    /\ pc = "StartUpdate"
    /\ updateFromNewState
    /\ pc' = "Wait"
    /\ UNCHANGED <<Env, lasthash, lastdata, lastchange, slurm, slurmNotPresentOrUpdated, delay>>

(* routineUpdate: wait 30s while lastchange is zero, else the interval     *)
(* (or until SIGHUP), then SLURM, then the cache, then process.            *)
Wait ==
    /\ pc = "Wait"
    /\ delay' = IF lastchange THEN "interval" ELSE "initial"
    /\ slurmNotPresentOrUpdated' = FALSE
    /\ pc' = IF loopSlurmFile THEN "Slurm" ELSE "Cache"
    /\ UNCHANGED <<Env, lasthash, lastdata, lastchange, slurm, installed, exported, servedSlurm>>

RefreshSlurm(fetched) ==
    /\ pc = "Slurm"
    /\ updateSlurm(fetched)
    /\ slurmNotPresentOrUpdated' = slurmUpdated(fetched)
    /\ pc' = "Cache"
    /\ UNCHANGED <<Env, lasthash, lastdata, lastchange, delay, installed, exported, servedSlurm>>

\* Fault of the condition after updateFile: the SLURM update ignored.
RefreshCacheIgnoringSlurm(fetched) ==
    /\ pc = "Cache"
    /\ updateFile(fetched)
    /\ pc' = IF cacheUpdated(fetched) THEN "Update" ELSE "Wait"
    /\ UNCHANGED <<Env, slurm, slurmNotPresentOrUpdated, delay, installed, exported, servedSlurm>>

RefreshCache(fetched) ==
    /\ pc = "Cache"
    /\ updateFile(fetched)
    /\ pc' = IF cacheUpdated(fetched) \/ slurmNotPresentOrUpdated THEN "Update" ELSE "Wait"
    /\ UNCHANGED <<Env, slurm, slurmNotPresentOrUpdated, delay, installed, exported, servedSlurm>>

RefreshUpdate ==
    /\ pc = "Update"
    /\ updateFromNewState
    /\ pc' = "Wait"
    /\ UNCHANGED <<Env, lasthash, lastdata, lastchange, slurm, slurmNotPresentOrUpdated, delay>>

-----------------------------------------------------------------------------
(* The environment.                                                        *)
Publish(d) ==
    /\ upstream # d /\ upstream' = d
    /\ UNCHANGED <<upSlurm, stale, canon>>

PublishSlurm(s) ==
    /\ upSlurm # s /\ upSlurm' = s
    /\ UNCHANGED <<upstream, stale, canon>>

\* Time passes: the buildtime of d is now more than 24 hours ago.
Expire(d) ==
    /\ d \notin stale /\ stale' = stale \cup {d}
    /\ UNCHANGED <<upstream, upSlurm, canon>>

Environment ==
    /\ \/ \E d \in Docs : Publish(d) \/ Expire(d)
       \/ \E s \in SlurmDocs : PublishSlurm(s)
    /\ UNCHANGED <<pc, lasthash, lastdata, lastchange, slurm, slurmNotPresentOrUpdated,
                   delay, installed, exported, servedSlurm>>

Init ==
    /\ pc = "StartCache"
    /\ upstream \in Docs /\ upSlurm \in SlurmDocs
    /\ stale = {}
    /\ lasthash = NoDoc /\ lastdata = NoDoc /\ lastchange = FALSE
    /\ slurm = NoSlurm /\ slurmNotPresentOrUpdated = FALSE
    /\ delay = "none"
    /\ installed = NoData /\ exported = NoData /\ servedSlurm = NoSlurm
    /\ canon = CanonDef

RefreshStep ==
    \/ \E f \in BOOLEAN : StartupCache(f) \/ StartupSlurm(f) \/ RefreshSlurm(f) \/ RefreshCache(f)
    \/ StartupUpdate \/ Wait \/ RefreshUpdate

Next == RefreshStep \/ Environment

(* The goroutine never blocks for good (the timer always fires); a cache   *)
(* fetch that is retried forever eventually succeeds.                      *)
Fairness ==
    /\ WF_vars(RefreshStep)
    /\ SF_vars(RefreshCache(TRUE))

Spec == Init /\ [][Next]_vars /\ Fairness

-----------------------------------------------------------------------------
(* Properties.                                                             *)

\* The latest accepted document can be served: it has "roas" and, when
\* -checktime is on, its buildtime is less than 24 hours old.
Servable(d) == RoasOf(d) # NoRoas /\ ~(CheckTime /\ d \in stale)

(* Between two cycles of routineUpdate the server serves exactly what the  *)
(* last accepted cache document and the current SLURM config yield.  This  *)
(* is what the hash cache (lasthash set before processing), the "process   *)
(* only after a cache or SLURM update" condition and the early returns of  *)
(* updateFromNewState must together preserve.                              *)
ServesLatestAccepted ==
    (pc = "Wait" /\ Servable(lastdata)) => installed = canon[lastdata, slurm]

(* While the upstream keeps serving a servable document d, the server      *)
(* eventually serves d filtered by the current SLURM config, whatever      *)
(* failed fetches, identical files and SLURM updates came before.          *)
Usable(d) == upstream = d /\ DocDecodes[d] /\ Servable(d)

Converges ==
    \A d \in Docs : Usable(d) ~> (~Usable(d) \/ installed = canon[d, slurm])

(* With -slurm set, the server never serves VRPs that were not passed      *)
(* through a SLURM config (failure keeps the prior state).                 *)
SlurmAlwaysApplied ==
    (SlurmFile /\ installed # NoData) => servedSlurm # NoSlurm

(* routineUpdate refreshes every 30 seconds until the first successful     *)
(* install: the long interval is only armed once the server has VRPs.      *)
FastRetryUntilInstalled ==
    delay = "interval" => installed # NoData
=============================================================================
