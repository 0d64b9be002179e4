-------------------------- MODULE RTRServerAbstract --------------------------
(***************************************************************************)
(* What the RTR server promises its routers (spec 4.B, 4.C), without       *)
(* deltas: the server keeps the window of the last K+1 serials, and every  *)
(* answer to a query hands the router the current set itself: in full for *)
(* a Reset Query, as "the set at this serial" for a Serial Query inside    *)
(* the window, and a Cache Reset for one outside it.                       *)
(***************************************************************************)
EXTENDS Naturals, Sequences

CONSTANTS VRPs, K, SerialSpace, MaxInstalls, Routers, SendNotifs, None

VARIABLES current, serial, window, installs,
          sstate, known, cset, resp, queryDue, deferred

vars == <<current, serial, window, installs, sstate, known, cset, resp, queryDue, deferred>>

Init ==
    /\ current = {} /\ serial = 0 /\ window = <<0>> /\ installs = 0
    /\ sstate = [r \in Routers |-> "Down"] /\ known = [r \in Routers |-> None]
    /\ cset = [r \in Routers |-> {}] /\ resp = [r \in Routers |-> None]
    /\ queryDue = [r \in Routers |-> FALSE] /\ deferred = [r \in Routers |-> FALSE]

Install(new) ==
    /\ IF new = current
       THEN UNCHANGED <<current, serial, window, installs>>
       ELSE LET next == (serial + 1) % SerialSpace
                w    == Append(window, next)
            IN  /\ installs < MaxInstalls
                /\ current' = new /\ serial' = next /\ installs' = installs + 1
                /\ window' = IF Len(w) > K + 1 THEN Tail(w) ELSE w
    /\ IF SendNotifs
       THEN /\ queryDue' = [r \in Routers |-> queryDue[r] \/ sstate[r] = "Awaiting"]
            /\ deferred' = [r \in Routers |-> deferred[r] \/ sstate[r] = "Serving"]
       ELSE UNCHANGED <<queryDue, deferred>>
    /\ UNCHANGED <<sstate, known, cset, resp>>

Connect(r) ==
    /\ sstate[r] = "Down"
    /\ sstate' = [sstate EXCEPT ![r] = "Awaiting"]
    /\ queryDue' = [queryDue EXCEPT ![r] = TRUE]
    /\ UNCHANGED <<current, serial, window, installs, known, cset, resp, deferred>>

InWindow(s) == \E i \in DOMAIN window : window[i] = s

Query(r) ==
    /\ sstate[r] = "Awaiting"
    /\ sstate' = [sstate EXCEPT ![r] = "Serving"]
    /\ resp' = [resp EXCEPT ![r] =
                  IF known[r] # None /\ ~InWindow(known[r])
                  THEN [kind |-> "cachereset", serial |-> serial, set |-> {}]
                  ELSE [kind |-> IF known[r] = None THEN "full" ELSE "delta",
                        serial |-> serial, set |-> current]]
    /\ queryDue' = [queryDue EXCEPT ![r] = FALSE]
    /\ UNCHANGED <<current, serial, window, installs, known, cset, deferred>>

Deliver(r) ==
    /\ sstate[r] = "Serving"
    /\ LET p == resp[r] IN
       /\ known' = [known EXCEPT ![r] = IF p.kind = "cachereset" THEN None ELSE p.serial]
       /\ cset' = [cset EXCEPT ![r] = IF p.kind = "cachereset" THEN @ ELSE p.set]
       /\ queryDue' = [queryDue EXCEPT ![r] = deferred[r] \/ p.kind = "cachereset"]
    /\ sstate' = [sstate EXCEPT ![r] = "Awaiting"]
    /\ resp' = [resp EXCEPT ![r] = None]
    /\ deferred' = [deferred EXCEPT ![r] = FALSE]
    /\ UNCHANGED <<current, serial, window, installs>>

Disconnect(r) ==
    /\ sstate[r] # "Down"
    /\ sstate' = [sstate EXCEPT ![r] = "Down"]
    /\ resp' = [resp EXCEPT ![r] = None]
    /\ queryDue' = [queryDue EXCEPT ![r] = FALSE]
    /\ deferred' = [deferred EXCEPT ![r] = FALSE]
    /\ UNCHANGED <<current, serial, window, installs, known, cset>>

Next ==
    \/ \E new \in SUBSET VRPs : Install(new)
    \/ \E r \in Routers : Connect(r) \/ Query(r) \/ Deliver(r) \/ Disconnect(r)

Spec == Init /\ [][Next]_vars

=============================================================================
