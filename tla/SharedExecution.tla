--------------------------- MODULE SharedExecution ---------------------------
(***************************************************************************)
(* What request coalescing promises, without its mechanism: requests of    *)
(* one key that overlap are grouped around one execution, the execution    *)
(* decides once, and every member of the group settles with what it        *)
(* decided or goes away.  Singleflight (middleware/coalesce.rs) is shown   *)
(* to implement this specification.                                        *)
(***************************************************************************)
CONSTANTS Requests,   \* the requests that reach the middleware
          Keys,       \* the coalescing keys
          KeyOf,      \* the key of each request
          NoFlight    \* "no execution"

VARIABLES active,     \* the execution open under each key, named by its leader
          group,      \* the execution each request belongs to
          outcome,    \* what each execution decided
          status      \* where each request stands

vars == <<active, group, outcome, status>>

Statuses == {"idle", "joined", "served", "failed", "gone"}

Init ==
    /\ active = [k \in Keys |-> NoFlight]
    /\ group = [r \in Requests |-> NoFlight]
    /\ outcome = [r \in Requests |-> "pending"]
    /\ status = [r \in Requests |-> "idle"]

\* A request finds no execution open under its key and opens one.
Open(r) ==
    /\ status[r] = "idle"
    /\ active[KeyOf[r]] = NoFlight
    /\ active' = [active EXCEPT ![KeyOf[r]] = r]
    /\ group' = [group EXCEPT ![r] = r]
    /\ status' = [status EXCEPT ![r] = "joined"]
    /\ UNCHANGED outcome

\* A request finds an execution open under its key and joins it.
Join(r) ==
    /\ status[r] = "idle"
    /\ active[KeyOf[r]] # NoFlight
    /\ group' = [group EXCEPT ![r] = active[KeyOf[r]]]
    /\ status' = [status EXCEPT ![r] = "joined"]
    /\ UNCHANGED <<active, outcome>>

\* An open execution decides, once.
Decide(f) ==
    /\ active[KeyOf[f]] = f
    /\ outcome[f] = "pending"
    /\ \E o \in {"ok", "err"} : outcome' = [outcome EXCEPT ![f] = o]
    /\ UNCHANGED <<active, group, status>>

\* A member settles with the decision of its execution.  Only a follower can
\* do so while the execution is still open under its key: the leader closes it.
Settle(r) ==
    /\ status[r] = "joined"
    /\ outcome[group[r]] # "pending"
    /\ status' = [status EXCEPT
                    ![r] = IF outcome[group[r]] = "ok" THEN "served" ELSE "failed"]
    /\ active' = IF group[r] = r
                 THEN [active EXCEPT ![KeyOf[r]] = NoFlight]
                 ELSE active
    /\ UNCHANGED <<group, outcome>>

\* A member goes away.  A leader may do so only with a failed execution, which
\* closes with it.
Leave(r) ==
    /\ status[r] = "joined"
    /\ status' = [status EXCEPT ![r] = "gone"]
    /\ IF group[r] = r
       THEN /\ outcome[r] = "err"
            /\ active' = [active EXCEPT ![KeyOf[r]] = NoFlight]
       ELSE UNCHANGED active
    /\ UNCHANGED <<group, outcome>>

Next == \E r \in Requests : Open(r) \/ Join(r) \/ Decide(r) \/ Settle(r) \/ Leave(r)

Spec == Init /\ [][Next]_vars
==============================================================================
