---------------------------- MODULE CoalescedRetries ----------------------------
(***************************************************************************)
(* Idempotency (middleware/idempotency.rs) behind request coalescing       *)
(* (middleware/coalesce.rs), the key function of the one reading the       *)
(* header of the other: a client that retries before it was answered joins *)
(* the flight of its first attempt, one that retries later asks the store. *)
(*                                                                         *)
(* The leader of a flight is the request whose future polls the            *)
(* idempotency middleware: its service call is a run of Idempotency, which *)
(* is dropped with it, and each step of that is a step of the leader.      *)
(***************************************************************************)
EXTENDS Naturals

CONSTANTS Requests, Keys, Workers, KeyOf, WorkerOf, NoFlight,  \* of Singleflight
          NoKey, Nobody, StoreFails, MaxExpiries               \* of Idempotency

\* Both middlewares read the same header, and every request has it.
ASSUME RetriesAssumption ==
    /\ KeyOf \in [Requests -> Keys] /\ WorkerOf \in [Requests -> Workers]
    /\ NoFlight \notin Requests
    /\ NoKey \notin Keys /\ Nobody \notin Requests
    /\ StoreFails \in BOOLEAN /\ MaxExpiries \in Nat

VARIABLES map, result, parked, pc, flight, coalesced, answer,  \* of Singleflight
          state, cached, inner, reply, holder, ran, erred, faults, expiries
                                                   \* of Idempotency, inner its pc

outerVars == <<map, result, parked, pc, flight, coalesced, answer>>
innerVars == <<state, cached, inner, reply, holder, ran, erred, faults, expiries>>
vars == <<outerVars, innerVars>>

Outer == INSTANCE Singleflight
Inner == INSTANCE Idempotency WITH pc <- inner

Init == Outer!Init /\ Inner!Init

-------------------------------------------------------------------------------
\* A request joins or leads, a worker goes on with it, a follower is dropped.
Coalesce(r) ==
    /\ Outer!Arrive(r) \/ Outer!Poll(r) \/ Outer!CancelFollower(r)
    /\ UNCHANGED innerVars

\* service.call(req).await: only a leader has an inner future to poll.
Calls(r) == pc[r] = "calling" /\ Outer!WorkerFree(r)

Pending(r) == reply'[r].kind = "none"

\* The leader's poll takes its inner future one step on ...
Process(r) ==
    /\ Calls(r)
    /\ Inner!Handle(r) \/ Inner!Service(r)
    /\ Pending(r)
    /\ UNCHANGED outerVars

\* ... or to its end, a response of whatever status ...
ProcessedOk(r) ==
    /\ Calls(r)
    /\ Inner!Handle(r) \/ Inner!Service(r)
    /\ ~ Pending(r) /\ reply'[r].kind # "error"
    /\ Outer!ServiceOk(r)

\* ... or an error.
ProcessedErr(r) ==
    /\ Calls(r)
    /\ Inner!Handle(r) \/ Inner!Service(r)
    /\ reply'[r].kind = "error"
    /\ Outer!ServiceErr(r)

\* The body that the inner middleware answers with is in memory already.
Buffer(r) ==
    /\ Outer!BodyRead(r)
    /\ coalesced'[r] = "ok"
    /\ UNCHANGED innerVars

\* Slip: the inner future was spawned, and lives on when its leader is dropped.
DropLeader_Detached(r) ==
    /\ Outer!CancelLeader(r)
    /\ UNCHANGED innerVars

\* The leader is dropped: its inner future first, then its guard.
DropLeader(r) ==
    /\ Outer!CancelLeader(r)
    /\ IF inner[r] \in {"new", "done"} THEN UNCHANGED innerVars ELSE Inner!Cancel(r)

Expire(k) == Inner!Expire(k) /\ UNCHANGED outerVars

Finished == /\ \A r \in Requests : pc[r] \in Outer!Over
            /\ UNCHANGED vars

Next == \/ \E r \in Requests :
             \/ Coalesce(r) \/ Process(r) \/ ProcessedOk(r) \/ ProcessedErr(r)
             \/ Buffer(r) \/ DropLeader(r)
        \/ \E k \in Keys : Expire(k)
        \/ Finished

Spec == Init /\ [][Next]_vars

\* Workers keep polling what is ready; the store and the handler answer.
Serve(r) == Process(r) \/ ProcessedOk(r) \/ ProcessedErr(r) \/ Buffer(r)
Fairness == \A r \in Requests :
    /\ WF_vars(Outer!Poll(r) /\ UNCHANGED innerVars)
    /\ WF_vars(Serve(r))

FairSpec == Spec /\ Fairness

-------------------------------------------------------------------------------
(* Properties *)

Owing(r) == inner[r] \in Inner!Processing \cup Inner!Releasing \cup {"completing"}

\* Behind coalescing no two requests of a key are processed at the same time,
\* not even when the entry of the first runs out meanwhile.  So complete() and
\* release(), which name no owner, never meet the entry of another request: it
\* is the caller's own, or it has run out.
ExclusiveAlways ==
    \A r \in Requests : Owing(r) =>
        /\ holder[KeyOf[r]] \in {r, Nobody}
        /\ \A q \in Requests \ {r} : KeyOf[q] = KeyOf[r] => ~ Owing(q)

\* A 409 is no longer the answer to a retry that came early, but the sign of a
\* reservation left by a leader that was dropped, or answered 500, or could not
\* release it.
ConflictNeedsLoss ==
    \A r \in Requests : reply[r].kind = "conflict" =>
        \/ "release_failed" \in faults[KeyOf[r]]
        \/ \E q \in Requests \ {r} :
             /\ KeyOf[q] = KeyOf[r]
             /\ inner[q] = "dropped" \/ reply[q].kind = "server_error"

\* A follower that parked after its leader, on another worker, had notified.
WakeupLost(r) ==
    LET f == flight[r] IN
    /\ pc[r] = "waiting" /\ r \in parked[f] /\ WorkerOf[r] # WorkerOf[f]
    /\ pc[f] \in {"remove", "drop_remove"} \cup Outer!Over

\* Every attempt that enters is answered or dropped: a leader that the store
\* answers lets its followers go, with 409 or 500 if not with a response.  Only
\* a follower whose wake-up was lost between two workers waits on.
EveryAttemptSettles ==
    \A r \in Requests : pc[r] # "new" ~> pc[r] \in Outer!Over \/ WakeupLost(r)
================================================================================
