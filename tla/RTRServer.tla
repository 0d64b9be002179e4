----------------------------- MODULE RTRServer -----------------------------
(***************************************************************************)
(* RTR sessions (spec 4.C, 4.D) over the VRP history.  Each router has a   *)
(* session (Down, Awaiting a query, or Serving a response) and keeps its   *)
(* own table and last known serial across reconnects, as the session id   *)
(* is constant for the process.  A query is answered from one snapshot of  *)
(* the history (the reader lock); the response travels to the router in a *)
(* separate step, so installs can happen in between.  Serial Notify is     *)
(* coalesced and deferred while a session is Serving.                      *)
(***************************************************************************)
EXTENDS VRPHistory

CONSTANTS Routers, SendNotifs, None

VARIABLES sstate,    \* the session: "Down", "Awaiting" or "Serving"
          known,     \* the router's serial, None before a cache response
          cset,      \* the router's VRP table
          resp,      \* the response being sent, or None
          queryDue,  \* the router owes a query: connected, notified, or reset
          deferred   \* a notify held back while Serving

sessionVars == <<sstate, known, cset, resp, queryDue, deferred>>
vars == <<historyVars, sessionVars>>

Response == [kind : {"cachereset", "full", "delta"}, serial : Serials,
             ann : SUBSET VRPs, wd : SUBSET VRPs]

TypeOK ==
    /\ HistoryTypeOK
    /\ sstate \in [Routers -> {"Down", "Awaiting", "Serving"}]
    /\ known \in [Routers -> Serials \cup {None}]
    /\ cset \in [Routers -> SUBSET VRPs]
    /\ resp \in [Routers -> Response \cup {None}]
    /\ queryDue \in [Routers -> BOOLEAN] /\ deferred \in [Routers -> BOOLEAN]

Init ==
    /\ HistoryInit
    /\ sstate = [r \in Routers |-> "Down"] /\ known = [r \in Routers |-> None]
    /\ cset = [r \in Routers |-> {}] /\ resp = [r \in Routers |-> None]
    /\ queryDue = [r \in Routers |-> FALSE] /\ deferred = [r \in Routers |-> FALSE]

\* Fault: a notify raised while Serving is dropped.
NotifyClientsLatestNoDefer ==
    /\ queryDue' = [r \in Routers |-> queryDue[r] \/ sstate[r] = "Awaiting"]
    /\ UNCHANGED deferred

\* NotifyClientsLatest: a Serial Notify for every Awaiting session, held
\* back for a Serving one; several collapse into one.
NotifyClientsLatest ==
    /\ queryDue' = [r \in Routers |-> queryDue[r] \/ sstate[r] = "Awaiting"]
    /\ deferred' = [r \in Routers |-> deferred[r] \/ sstate[r] = "Serving"]

\* The refresh loop's AddVRPs, followed by the broadcast when enabled.
Install(new) ==
    /\ AddVRPs(new)
    /\ IF SendNotifs THEN NotifyClientsLatest ELSE UNCHANGED <<queryDue, deferred>>
    /\ UNCHANGED <<sstate, known, cset, resp>>

Connect(r) ==
    /\ sstate[r] = "Down"
    /\ sstate' = [sstate EXCEPT ![r] = "Awaiting"]
    /\ queryDue' = [queryDue EXCEPT ![r] = TRUE]
    /\ UNCHANGED <<historyVars, known, cset, resp, deferred>>

\* Reset Query when the router has no serial, Serial Query otherwise; the
\* response is computed from the history as it is now.
Answer(r) ==
    IF known[r] = None
    THEN [kind |-> "full", serial |-> serial, ann |-> current, wd |-> {}]
    ELSE LET d == DiffSince(known[r])
         IN  IF d = Reset
             THEN [kind |-> "cachereset", serial |-> serial, ann |-> {}, wd |-> {}]
             ELSE [kind |-> "delta", serial |-> serial, ann |-> d.ann, wd |-> d.wd]

Query(r) ==
    /\ sstate[r] = "Awaiting"
    /\ sstate' = [sstate EXCEPT ![r] = "Serving"]
    /\ resp' = [resp EXCEPT ![r] = Answer(r)]
    /\ queryDue' = [queryDue EXCEPT ![r] = FALSE]
    /\ UNCHANGED <<historyVars, known, cset, deferred>>

\* The router applies the response; a deferred notify is sent now.
Deliver(r) ==
    /\ sstate[r] = "Serving"
    /\ LET p == resp[r] IN
       /\ known' = [known EXCEPT ![r] = IF p.kind = "cachereset" THEN None ELSE p.serial]
       /\ cset' = [cset EXCEPT ![r] = CASE p.kind = "full"  -> p.ann
                                      [] p.kind = "delta" -> (@ \ p.wd) \cup p.ann
                                      [] OTHER            -> @]
       /\ queryDue' = [queryDue EXCEPT ![r] = deferred[r] \/ p.kind = "cachereset"]
    /\ sstate' = [sstate EXCEPT ![r] = "Awaiting"]
    /\ resp' = [resp EXCEPT ![r] = None]
    /\ deferred' = [deferred EXCEPT ![r] = FALSE]
    /\ UNCHANGED historyVars

\* The connection closes (remote close, error, backpressure); a response
\* in flight is lost.
Disconnect(r) ==
    /\ sstate[r] # "Down"
    /\ sstate' = [sstate EXCEPT ![r] = "Down"]
    /\ resp' = [resp EXCEPT ![r] = None]
    /\ queryDue' = [queryDue EXCEPT ![r] = FALSE]
    /\ deferred' = [deferred EXCEPT ![r] = FALSE]
    /\ UNCHANGED <<historyVars, known, cset>>

Next ==
    \/ \E new \in SUBSET VRPs : Install(new)
    \/ \E r \in Routers : Connect(r) \/ Query(r) \/ Deliver(r) \/ Disconnect(r)

\* The server answers and sends every response; a router sends the query
\* it owes.  A router's refresh-timer poll is a Query without queryDue and
\* is not assumed.
Fairness ==
    \A r \in Routers :
        /\ WF_vars(queryDue[r] /\ Query(r))
        /\ WF_vars(Deliver(r))

Spec == Init /\ [][Next]_vars /\ Fairness


(***************************************************************************)
(* The refinement: the window is the serials the deltas start from plus    *)
(* the current one, and a delta response stands for the table the router  *)
(* will hold after applying it.                                            *)
(***************************************************************************)
WindowOf == Append([i \in DOMAIN deltas |-> deltas[i].from], serial)

AbsResp ==
    [r \in Routers |->
        IF resp[r] = None THEN None
        ELSE [kind |-> resp[r].kind, serial |-> resp[r].serial,
              set |-> CASE resp[r].kind = "full"  -> resp[r].ann
                        [] resp[r].kind = "delta" -> (cset[r] \ resp[r].wd) \cup resp[r].ann
                        [] OTHER                  -> {}]]

Abs == INSTANCE RTRServerAbstract WITH window <- WindowOf, resp <- AbsResp

\* Every response, however many installs it spans and whenever it is
\* delivered, leaves the router with the set of the serial it names, and a
\* Cache Reset is sent exactly when the router's serial left the K-delta
\* window: the delta walk and its compaction implement the snapshots.
ImplementsAbstract == Abs!Spec

=============================================================================
