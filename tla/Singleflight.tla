----------------------------- MODULE Singleflight -----------------------------
(***************************************************************************)
(* The request-coalescing middleware of middleware/coalesce.rs.            *)
(*                                                                         *)
(* A Flight is named by the request that created it (its leader): every    *)
(* request creates at most one.  A request's future runs on one worker     *)
(* thread and gives that thread up only at an .await, so the futures of    *)
(* one worker interleave at awaits while those of different workers        *)
(* interleave at every lock.  A program counter per request says where its *)
(* future stands; MidPoll are the places a worker cannot leave.            *)
(***************************************************************************)
EXTENDS Naturals

CONSTANTS Requests,   \* the requests that reach the middleware
          Keys,       \* the coalescing keys
          Workers,    \* the worker threads that share the map
          KeyOf,      \* key_fn
          WorkerOf,   \* the worker that polls each request
          NoFlight    \* None

ASSUME RequestAssumption ==
    /\ KeyOf \in [Requests -> Keys]
    /\ WorkerOf \in [Requests -> Workers]
    /\ NoFlight \notin Requests

VARIABLES map,        \* SharedState::map
          result,     \* Flight::result
          parked,     \* the Notified futures armed on Flight::notify
          pc,         \* where the future of each request stands
          flight,     \* the flight each request leads or follows
          coalesced,  \* coalesced_result, local to a leader
          answer      \* what call() returned

vars == <<map, result, parked, pc, flight, coalesced, answer>>

\* Suspended at an .await (or not started, or over): the worker is free.
Parked  == {"new", "calling", "buffering", "waiting", "done", "dropped"}
\* Inside a poll, or inside the drop of a future: the worker is taken.
MidPoll == {"publish", "notify", "remove", "check", "arm",
            "drop_publish", "drop_notify", "drop_remove"}

Leading  == {"calling", "buffering", "publish", "notify", "remove",
             "drop_publish", "drop_notify", "drop_remove"}
Executing == {"calling", "buffering"}
Over     == {"done", "dropped"}

Answers == {"none", "response", "error", "internal_error"}

\* The worker of r is not in the middle of another request's poll.
WorkerFree(r) ==
    \A q \in Requests \ {r} : WorkerOf[q] = WorkerOf[r] => pc[q] \notin MidPoll

Goto(r, p) == pc' = [pc EXCEPT ![r] = p]

Init ==
    /\ map = [k \in Keys |-> NoFlight]
    /\ result = [r \in Requests |-> "pending"]
    /\ parked = [r \in Requests |-> {}]
    /\ pc = [r \in Requests |-> "new"]
    /\ flight = [r \in Requests |-> NoFlight]
    /\ coalesced = [r \in Requests |-> "pending"]
    /\ answer = [r \in Requests |-> "none"]

-------------------------------------------------------------------------------
\* The first poll: one critical section on the map decides leader or follower.
\* The leader goes on to call the wrapped service and suspends there.
BecomeLeader(r) ==
    /\ pc[r] = "new" /\ WorkerFree(r)
    /\ map[KeyOf[r]] = NoFlight
    /\ map' = [map EXCEPT ![KeyOf[r]] = r]
    /\ flight' = [flight EXCEPT ![r] = r]
    /\ Goto(r, "calling")
    /\ UNCHANGED <<result, parked, coalesced, answer>>

BecomeFollower(r) ==
    /\ pc[r] = "new" /\ WorkerFree(r)
    /\ map[KeyOf[r]] # NoFlight
    /\ flight' = [flight EXCEPT ![r] = map[KeyOf[r]]]
    /\ Goto(r, "check")
    /\ UNCHANGED <<map, result, parked, coalesced, answer>>

-------------------------------------------------------------------------------
\* The wrapped service answers: a response whose body is still to be read ...
ServiceOk(r) ==
    /\ pc[r] = "calling" /\ WorkerFree(r)
    /\ Goto(r, "buffering")
    /\ UNCHANGED <<map, result, parked, flight, coalesced, answer>>

\* ... or an error of an inner middleware.
ServiceErr(r) ==
    /\ pc[r] = "calling" /\ WorkerFree(r)
    /\ coalesced' = [coalesced EXCEPT ![r] = "err"]
    /\ Goto(r, "publish")
    /\ UNCHANGED <<map, result, parked, flight, answer>>

\* to_bytes returns the body, or the error of the body stream.
BodyRead(r) ==
    /\ pc[r] = "buffering" /\ WorkerFree(r)
    /\ \E o \in {"ok", "err"} : coalesced' = [coalesced EXCEPT ![r] = o]
    /\ Goto(r, "publish")
    /\ UNCHANGED <<map, result, parked, flight, answer>>

\* Slip: a failed execution is published as a response (its body left empty).
Publish_FailureAsOk(r) ==
    /\ pc[r] = "publish"
    /\ result' = [result EXCEPT ![r] = "ok"]
    /\ Goto(r, "notify")
    /\ UNCHANGED <<map, parked, flight, coalesced, answer>>

\* The result slot is written under its own lock.
Publish(r) ==
    /\ pc[r] = "publish"
    /\ result' = [result EXCEPT ![r] = coalesced[r]]
    /\ Goto(r, "notify")
    /\ UNCHANGED <<map, parked, flight, coalesced, answer>>

\* Slip: notify_one in the place of notify_waiters.
Notify_One(r) ==
    /\ pc[r] = "notify"
    /\ parked' = [parked EXCEPT
                    ![r] = IF @ = {} THEN {} ELSE @ \ {CHOOSE q \in @ : TRUE}]
    /\ Goto(r, "remove")
    /\ UNCHANGED <<map, result, flight, coalesced, answer>>

\* notify_waiters wakes the futures armed at this moment and stores no permit.
Notify(r) ==
    /\ pc[r] = "notify"
    /\ parked' = [parked EXCEPT ![r] = {}]
    /\ Goto(r, "remove")
    /\ UNCHANGED <<map, result, flight, coalesced, answer>>

\* Slip: guard.completed is never set, so the guard's drop runs after all.
Remove_GuardArmed(r) ==
    /\ pc[r] = "remove"
    /\ map' = [map EXCEPT ![KeyOf[r]] = NoFlight]
    /\ answer' = [answer EXCEPT
                    ![r] = IF coalesced[r] = "ok" THEN "response" ELSE "error"]
    /\ Goto(r, "drop_publish")
    /\ UNCHANGED <<result, parked, flight, coalesced>>

\* The entry is removed, the guard disarmed and the leader's answer built: its
\* own response, or its own error unchanged.
Remove(r) ==
    /\ pc[r] = "remove"
    /\ map' = [map EXCEPT ![KeyOf[r]] = NoFlight]
    /\ answer' = [answer EXCEPT
                    ![r] = IF coalesced[r] = "ok" THEN "response" ELSE "error"]
    /\ Goto(r, "done")
    /\ UNCHANGED <<result, parked, flight, coalesced>>

-------------------------------------------------------------------------------
\* The leader's future is dropped at one of its awaits (client gone, an outer
\* timeout), or the service panics: LeaderGuard::drop runs.
CancelLeader(r) ==
    /\ pc[r] \in Executing /\ WorkerFree(r)
    /\ Goto(r, "drop_publish")
    /\ UNCHANGED <<map, result, parked, flight, coalesced, answer>>

\* Slip: the guard wakes the followers and leaves the slot empty.
DropPublish_Nothing(r) ==
    /\ pc[r] = "drop_publish"
    /\ Goto(r, "drop_notify")
    /\ UNCHANGED <<map, result, parked, flight, coalesced, answer>>

DropPublish(r) ==
    /\ pc[r] = "drop_publish"
    /\ result' = [result EXCEPT ![r] = IF @ = "pending" THEN "err" ELSE @]
    /\ Goto(r, "drop_notify")
    /\ UNCHANGED <<map, parked, flight, coalesced, answer>>

\* Slip: the guard fills the slot and wakes nobody.
DropNotify_Silent(r) ==
    /\ pc[r] = "drop_notify"
    /\ Goto(r, "drop_remove")
    /\ UNCHANGED <<map, result, parked, flight, coalesced, answer>>

DropNotify(r) ==
    /\ pc[r] = "drop_notify"
    /\ parked' = [parked EXCEPT ![r] = {}]
    /\ Goto(r, "drop_remove")
    /\ UNCHANGED <<map, result, flight, coalesced, answer>>

\* Slip: the guard leaves the entry of the dropped leader in the map.
DropRemove_KeepsEntry(r) ==
    /\ pc[r] = "drop_remove"
    /\ Goto(r, "dropped")
    /\ UNCHANGED <<map, result, parked, flight, coalesced, answer>>

DropRemove(r) ==
    /\ pc[r] = "drop_remove"
    /\ map' = [map EXCEPT ![KeyOf[r]] = NoFlight]
    /\ Goto(r, "dropped")
    /\ UNCHANGED <<result, parked, flight, coalesced, answer>>

-------------------------------------------------------------------------------
\* The follower's loop.  It looks at the slot under the slot's lock ...
CheckSettled(r) ==
    /\ pc[r] = "check"
    /\ result[flight[r]] # "pending"
    /\ answer' = [answer EXCEPT
                    ![r] = IF result[flight[r]] = "ok" THEN "response"
                                                       ELSE "internal_error"]
    /\ Goto(r, "done")
    /\ UNCHANGED <<map, result, parked, flight, coalesced>>

\* ... and, when it is empty, lets the lock go ...
CheckPending(r) ==
    /\ pc[r] = "check"
    /\ result[flight[r]] = "pending"
    /\ Goto(r, "arm")
    /\ UNCHANGED <<map, result, parked, flight, coalesced, answer>>

\* ... before it creates the Notified future it then awaits.
Arm(r) ==
    /\ pc[r] = "arm"
    /\ parked' = [parked EXCEPT ![flight[r]] = @ \cup {r}]
    /\ Goto(r, "waiting")
    /\ UNCHANGED <<map, result, flight, coalesced, answer>>

\* A notified follower is polled again and goes round its loop.
Wake(r) ==
    /\ pc[r] = "waiting" /\ WorkerFree(r)
    /\ r \notin parked[flight[r]]
    /\ Goto(r, "check")
    /\ UNCHANGED <<map, result, parked, flight, coalesced, answer>>

\* The follower's future is dropped at its await; Notified unregisters itself.
CancelFollower(r) ==
    /\ pc[r] = "waiting" /\ WorkerFree(r)
    /\ parked' = [parked EXCEPT ![flight[r]] = @ \ {r}]
    /\ Goto(r, "dropped")
    /\ UNCHANGED <<map, result, flight, coalesced, answer>>

-------------------------------------------------------------------------------
\* What a worker does on its own once a request is in its hands.
Poll(r) ==
    \/ Publish(r) \/ Notify(r) \/ Remove(r)
    \/ DropPublish(r) \/ DropNotify(r) \/ DropRemove(r)
    \/ CheckSettled(r) \/ CheckPending(r) \/ Arm(r) \/ Wake(r)

\* What the wrapped service does.
Service(r) == ServiceOk(r) \/ ServiceErr(r) \/ BodyRead(r)

Arrive(r) == BecomeLeader(r) \/ BecomeFollower(r)

Cancel(r) == CancelLeader(r) \/ CancelFollower(r)

\* Every request is answered or gone: nothing is left to do.
Finished == /\ \A r \in Requests : pc[r] \in Over
            /\ UNCHANGED vars

Next == \/ \E r \in Requests : Arrive(r) \/ Service(r) \/ Poll(r) \/ Cancel(r)
        \/ Finished

Spec == Init /\ [][Next]_vars

\* Workers keep polling what is ready, and the wrapped service answers.
\* Nothing is assumed of arrivals and of cancellations.
Fairness == \A r \in Requests : WF_vars(Poll(r)) /\ WF_vars(Service(r))

FairSpec == Spec /\ Fairness
-------------------------------------------------------------------------------
(* Properties *)

\* Every variable has its type, and a follower's or a leader's place in call()
\* goes with a flight of its own key.
TypeOK ==
    /\ map \in [Keys -> Requests \cup {NoFlight}]
    /\ result \in [Requests -> {"pending", "ok", "err"}]
    /\ parked \in [Requests -> SUBSET Requests]
    /\ pc \in [Requests -> Parked \cup MidPoll]
    /\ flight \in [Requests -> Requests \cup {NoFlight}]
    /\ coalesced \in [Requests -> {"pending", "ok", "err"}]
    /\ answer \in [Requests -> Answers]

\* The wrapped service (call and body stream) runs for at most one request of a
\* key at a time, whatever is cancelled and however workers interleave.
OneExecutionPerKey ==
    \A r, q \in Requests :
        /\ pc[r] \in Executing
        /\ pc[q] \in Executing
        /\ KeyOf[r] = KeyOf[q]
        => r = q

\* An entry of the map is a flight of that key whose leader will still settle
\* it and take it out: no request can join a flight that nobody will finish.
MapHoldsOpenFlight ==
    \A k \in Keys : map[k] # NoFlight =>
        /\ KeyOf[map[k]] = k
        /\ flight[map[k]] = map[k]
        /\ pc[map[k]] \in Leading

\* A follower left parked on a flight whose leader has already sent its wake-up
\* runs on another worker than that leader: check and arm are one poll, so on
\* one worker no wake-up is lost.
LostWakeupOnlyAcrossWorkers ==
    \A r \in Requests :
        LET f == flight[r] IN
        /\ pc[r] = "waiting"
        /\ r \in parked[f]
        /\ pc[f] \in {"remove", "drop_remove"} \cup Over
        => WorkerOf[r] # WorkerOf[f]

\* A follower is given a response exactly when its leader's execution produced
\* one: a failure or a cancellation of the leader never reaches a follower as a
\* response, and a response never as a failure.
FollowersShareOutcome ==
    \A r \in Requests :
        LET f == flight[r] IN
        answer[r] # "none" /\ f # r =>
            (answer[r] = "response") <=> (coalesced[f] = "ok")

\* An entry leaves the map only by the hand of the leader it names: a late guard
\* never removes the flight of a newer request.
OnlyOwnerRemoves ==
    [][\A k \in Keys : map[k] # NoFlight /\ map'[k] # map[k] =>
            /\ map'[k] = NoFlight
            /\ pc[map[k]] \in {"remove", "drop_remove"}
            /\ pc'[map[k]] # pc[map[k]]]_vars

\* Every request that enters the middleware is answered or dropped.
EveryRequestSettles ==
    \A r \in Requests : pc[r] # "new" ~> pc[r] \in Over

-------------------------------------------------------------------------------
(* Refinement *)

StatusOf(r) ==
    IF pc[r] = "new" THEN "idle"
    ELSE IF pc[r] = "dropped" THEN "gone"
    ELSE IF pc[r] # "done" THEN "joined"
    ELSE IF answer[r] = "response" THEN "served" ELSE "failed"

AbstractStatus == [r \in Requests |-> StatusOf(r)]

Shared == INSTANCE SharedExecution
            WITH active <- map, group <- flight,
                 outcome <- result, status <- AbstractStatus

\* Every behaviour of the middleware is one of grouped executions that decide
\* once, with every member settling with the decision of its own execution.
ImplementsSharedExecution == Shared!Spec
===============================================================================
