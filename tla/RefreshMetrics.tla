--------------------------- MODULE RefreshMetrics ---------------------------
(***************************************************************************)
(* The metric writes of the refresh goroutine's fetches: s.lastts, taken   *)
(* by updateFile before it fetches, and the rpki_refresh gauge of each    *)
(* URL, which updateFile and updateSlurm set after a fetch that reports   *)
(* lastrefresh.  The goroutine's schedule is the one of Refresh (run's    *)
(* startup fetches, then per cycle Wait, SLURM, cache); the data and the  *)
(* processing steps, which write none of this state, are left out.  Time *)
(* advances when the goroutine waits, modulo Period.                      *)
(***************************************************************************)
EXTENDS Naturals

CONSTANTS SlurmFile,     \* -slurm is set
          SlurmRefresh,  \* -slurm.refresh
          Period,        \* the clock counts refresh cycles modulo Period
          None           \* a gauge never set, s.lastts before the first fetch

ASSUME Period \in Nat \ {0, 1}

URLs == {"cache", "slurm"}
Times == 0 .. Period - 1

VARIABLES pc, clock, lastts, lastRefresh

vars == <<pc, clock, lastts, lastRefresh>>

TypeOK ==
    /\ pc \in {"StartCache", "StartSlurm", "Wait", "Slurm", "Cache"}
    /\ clock \in Times /\ lastts \in Times \cup {None}
    /\ lastRefresh \in [URLs -> Times \cup {None}]

\* LastRefresh.WithLabelValues(file).Set(ts) when the fetch reports it.
SetLastRefresh(u, lr, ts) ==
    lastRefresh' = IF lr THEN [lastRefresh EXCEPT ![u] = ts] ELSE lastRefresh

\* updateFile: s.lastts = now before FetchFile; on a fetch error return.
updateFile(ok, lr) ==
    /\ lastts' = clock
    /\ IF ok THEN SetLastRefresh("cache", lr, clock) ELSE UNCHANGED lastRefresh

\* updateSlurm: no timestamp of its own; the gauge gets s.lastts.
updateSlurm(ok, lr) ==
    /\ IF ok THEN SetLastRefresh("slurm", lr, lastts) ELSE UNCHANGED lastRefresh
    /\ UNCHANGED lastts

loopSlurmFile == SlurmFile /\ SlurmRefresh

StartupCache(ok, lr) ==
    /\ pc = "StartCache"
    /\ updateFile(ok, lr)
    /\ pc' = IF SlurmFile THEN "StartSlurm" ELSE "Wait"
    /\ UNCHANGED clock

StartupSlurm(ok, lr) ==
    /\ pc = "StartSlurm"
    /\ updateSlurm(ok, lr)
    /\ pc' = "Wait"
    /\ UNCHANGED clock

\* The timer (or SIGHUP) fires: a later refresh cycle.
Wait ==
    /\ pc = "Wait"
    /\ clock' = (clock + 1) % Period
    /\ pc' = IF loopSlurmFile THEN "Slurm" ELSE "Cache"
    /\ UNCHANGED <<lastts, lastRefresh>>

RefreshSlurm(ok, lr) ==
    /\ pc = "Slurm"
    /\ updateSlurm(ok, lr)
    /\ pc' = "Cache"
    /\ UNCHANGED clock

RefreshCache(ok, lr) ==
    /\ pc = "Cache"
    /\ updateFile(ok, lr)
    /\ pc' = "Wait"
    /\ UNCHANGED clock

Init ==
    /\ pc = "StartCache" /\ clock = 0 /\ lastts = None
    /\ lastRefresh = [u \in URLs |-> None]

Next ==
    \/ Wait
    \/ \E ok, lr \in BOOLEAN :
          \/ StartupCache(ok, lr) \/ StartupSlurm(ok, lr)
          \/ RefreshSlurm(ok, lr) \/ RefreshCache(ok, lr)

Spec == Init /\ [][Next]_vars

(* rpki_refresh is the "last successful request for the given URL": a     *)
(* write of a URL's gauge carries the time of the request that set it,    *)
(* also for the SLURM URL, whose fetch precedes the cache fetch in every  *)
(* cycle of routineUpdate.                                                 *)
RefreshGaugeIsRequestTime ==
    [][\A u \in URLs : lastRefresh'[u] # lastRefresh[u] => lastRefresh'[u] = clock]_vars
=============================================================================
