------------------------------ MODULE Idempotency ------------------------------
(***************************************************************************)
(* The idempotency middleware of middleware/idempotency.rs over a store of *)
(* the trait in locals/idempotency.rs.                                     *)
(*                                                                         *)
(* The store is not in the repository: it is modelled from the trait and   *)
(* from how the middleware calls it.  Each of its operations is atomic; a  *)
(* reported failure may come before or after the effect (the call reached  *)
(* the store and the answer was lost); an entry disappears when its TTL    *)
(* ends.  A retry by a client is another request with the same key.        *)
(***************************************************************************)
EXTENDS Naturals

CONSTANTS Requests,    \* the requests that reach the middleware
          Keys,        \* the values of the idempotency header
          KeyOf,       \* the key of each request, NoKey without a header
          NoKey,
          Nobody,      \* None
          StoreFails,  \* TRUE when store calls may report an error
          MaxExpiries  \* bound: how many entries may run out of TTL

ASSUME IdempotencyAssumption ==
    /\ KeyOf \in [Requests -> Keys \cup {NoKey}]
    /\ NoKey \notin Keys
    /\ Nobody \notin Requests
    /\ StoreFails \in BOOLEAN
    /\ MaxExpiries \in Nat

VARIABLES state,     \* the store: the IdempotencyState of each key
          cached,    \* the store: whose response a Completed entry holds
          pc,        \* where the future of each request stands
          reply,     \* what call() returned
          holder,    \* history: whose acquire made the present entry
          ran,       \* history: requests whose handler has run
          erred,     \* history: those of them whose service returned an error
          faults,    \* history: what happened to each key's entries
          expiries   \* history: how many entries ran out

vars == <<state, cached, pc, reply, holder, ran, erred, faults, expiries>>

Absent     == "absent"
InProgress == "in_progress"
Completed  == "completed"

\* Awaiting the wrapped service or its body: the request is being processed.
Processing == {"handling", "buffering"}
Releasing  == {"releasing", "releasing_error"}
Places == Processing \cup Releasing
            \cup {"new", "plain", "getting", "completing", "done", "dropped"}

Kinds == {"none", "plain", "own", "replay", "conflict", "server_error", "error"}
Reply(kind, of) == [kind |-> kind, of |-> of]

Goto(r, p) == pc' = [pc EXCEPT ![r] = p]

\* call() returns a reply built here or an error.
Answer(r, kind) ==
    /\ reply' = [reply EXCEPT ![r] = Reply(kind, Nobody)]
    /\ Goto(r, "done")

\* call() returns the response of the handler that ran for q.
AnswerWith(r, kind, q) ==
    /\ reply' = [reply EXCEPT ![r] = Reply(kind, q)]
    /\ Goto(r, "done")

Init ==
    /\ state = [k \in Keys |-> Absent]
    /\ cached = [k \in Keys |-> Nobody]
    /\ pc = [r \in Requests |-> "new"]
    /\ reply = [r \in Requests |-> Reply("none", Nobody)]
    /\ holder = [k \in Keys |-> Nobody]
    /\ ran = {}
    /\ erred = {}
    /\ faults = [k \in Keys |-> {}]
    /\ expiries = 0

-------------------------------------------------------------------------------
\* The effects of the store's operations on the entry of k.
StoreAcquire(k, r) ==
    /\ state' = [state EXCEPT ![k] = InProgress]
    /\ holder' = [holder EXCEPT ![k] = r]
    /\ UNCHANGED cached

StoreComplete(k, r) ==
    /\ state' = [state EXCEPT ![k] = Completed]
    /\ cached' = [cached EXCEPT ![k] = r]
    /\ UNCHANGED holder

StoreRemove(k) ==
    /\ state' = [state EXCEPT ![k] = Absent]
    /\ cached' = [cached EXCEPT ![k] = Nobody]
    /\ holder' = [holder EXCEPT ![k] = Nobody]

StoreSame == UNCHANGED <<state, cached, holder>>

\* What the wrapped service may do.  It answers: the handler has run (an inner
\* middleware that answers in its place counts as one).
Runs(r) == ran' = ran \cup {r} /\ UNCHANGED erred

\* It returns an error: an inner middleware refused the request, or it failed
\* when the handler had begun (timeout.rs:82) or was done (session.rs:178).
RefusedOrErrs(r) ==
    \/ UNCHANGED <<ran, erred>>
    \/ ran' = ran \cup {r} /\ erred' = erred \cup {r}

\* The TTL given to acquire ends.
Expire(k) ==
    /\ state[k] # Absent
    /\ expiries < MaxExpiries
    /\ StoreRemove(k)
    /\ expiries' = expiries + 1
    /\ faults' = [faults EXCEPT ![k] = @ \cup {"expired"}]
    /\ UNCHANGED <<pc, reply, ran, erred>>

-------------------------------------------------------------------------------
\* Without the header the request goes straight to the service.
PassThrough(r) ==
    /\ pc[r] = "new" /\ KeyOf[r] = NoKey
    /\ Goto(r, "plain")
    /\ StoreSame /\ UNCHANGED <<reply, ran, erred, faults, expiries>>

PlainReturns(r) ==
    /\ pc[r] = "plain"
    /\ \/ AnswerWith(r, "plain", r) /\ Runs(r)
       \/ Answer(r, "error") /\ RefusedOrErrs(r)
    /\ StoreSame /\ UNCHANGED <<faults, expiries>>

\* Slip: a reservation in progress is taken over instead of refused.
AcquireWon_TakesOver(r) ==
    /\ pc[r] = "new" /\ KeyOf[r] # NoKey
    /\ state[KeyOf[r]] # Completed
    /\ StoreAcquire(KeyOf[r], r)
    /\ Goto(r, "handling")
    /\ UNCHANGED <<reply, ran, erred, faults, expiries>>

AcquireWon(r) ==
    /\ pc[r] = "new" /\ KeyOf[r] # NoKey
    /\ state[KeyOf[r]] = Absent
    /\ StoreAcquire(KeyOf[r], r)
    /\ Goto(r, "handling")
    /\ UNCHANGED <<reply, ran, erred, faults, expiries>>

AcquireLost(r) ==
    /\ pc[r] = "new" /\ KeyOf[r] # NoKey
    /\ state[KeyOf[r]] # Absent
    /\ Goto(r, "getting")
    /\ StoreSame /\ UNCHANGED <<reply, ran, erred, faults, expiries>>

\* The failed call may have made the reservation; the request is answered 500.
AcquireFails(r) ==
    /\ StoreFails
    /\ pc[r] = "new" /\ KeyOf[r] # NoKey
    /\ Answer(r, "server_error")
    /\ \/ StoreSame
       \/ state[KeyOf[r]] = Absent /\ StoreAcquire(KeyOf[r], r)
    /\ UNCHANGED <<ran, erred, faults, expiries>>

\* The entry is read by a second call: it may have changed since the first.
Get(r) ==
    /\ pc[r] = "getting"
    /\ LET k == KeyOf[r] IN
       \/ state[k] = Completed /\ AnswerWith(r, "replay", cached[k])
       \/ state[k] = InProgress /\ Answer(r, "conflict")
       \/ (state[k] = Absent \/ StoreFails) /\ Answer(r, "server_error")
    /\ StoreSame /\ UNCHANGED <<ran, erred, faults, expiries>>

-------------------------------------------------------------------------------
\* The service answers with a response, which is read before it is stored.
ServiceOk(r) ==
    /\ pc[r] = "handling"
    /\ Runs(r)
    /\ Goto(r, "buffering")
    /\ StoreSame /\ UNCHANGED <<reply, faults, expiries>>

\* Slip: the error of an inner middleware is stored as the outcome.
ServiceErr_Stored(r) ==
    /\ pc[r] = "handling"
    /\ RefusedOrErrs(r)
    /\ Goto(r, "completing")
    /\ StoreSame /\ UNCHANGED <<reply, faults, expiries>>

\* Slip: the key is not released on the error path (CHANGELOG.md:257).
ServiceErr_KeepsKey(r) ==
    /\ pc[r] = "handling"
    /\ RefusedOrErrs(r)
    /\ Answer(r, "error")
    /\ StoreSame /\ UNCHANGED <<faults, expiries>>

\* The service returns an error, after the handler or without it: the key is
\* given up in both cases.
ServiceErr(r) ==
    /\ pc[r] = "handling"
    /\ RefusedOrErrs(r)
    /\ Goto(r, "releasing_error")
    /\ StoreSame /\ UNCHANGED <<reply, faults, expiries>>

BodyRead(r) ==
    /\ pc[r] = "buffering"
    /\ Goto(r, "completing")
    /\ StoreSame /\ UNCHANGED <<reply, ran, erred, faults, expiries>>

\* Slip: the key is released although the handler has run.
BodyFails_Releases(r) ==
    /\ pc[r] = "buffering"
    /\ Answer(r, "server_error")
    /\ StoreRemove(KeyOf[r]) /\ UNCHANGED <<ran, erred, faults, expiries>>

\* The body stream fails: 500, and the reservation stays.
BodyFails(r) ==
    /\ pc[r] = "buffering"
    /\ Answer(r, "server_error")
    /\ StoreSame /\ UNCHANGED <<ran, erred, faults, expiries>>

\* Slip: the reservation is released after completion, as on the error path.
Complete_Releases(r) ==
    /\ pc[r] = "completing"
    /\ StoreComplete(KeyOf[r], r)
    /\ Goto(r, "releasing")
    /\ UNCHANGED <<reply, ran, erred, faults, expiries>>

\* complete() names no owner: it replaces whatever entry the key has.
Complete(r) ==
    /\ pc[r] = "completing"
    /\ StoreComplete(KeyOf[r], r)
    /\ AnswerWith(r, "own", r)
    /\ UNCHANGED <<ran, erred, faults, expiries>>

CompleteFails(r) ==
    /\ StoreFails
    /\ pc[r] = "completing"
    /\ Goto(r, "releasing")
    /\ faults' = [faults EXCEPT ![KeyOf[r]] = @ \cup {"complete_failed"}]
    /\ StoreSame \/ StoreComplete(KeyOf[r], r)
    /\ UNCHANGED <<reply, ran, erred, expiries>>

\* release() names no owner either, and its own error is ignored.
Released(r) ==
    \/ StoreRemove(KeyOf[r]) /\ UNCHANGED faults
    \/ /\ StoreFails /\ StoreSame
       /\ faults' = [faults EXCEPT ![KeyOf[r]] = @ \cup {"release_failed"}]

ReleaseAfterComplete(r) ==
    /\ pc[r] = "releasing"
    /\ Released(r)
    /\ AnswerWith(r, "own", r)
    /\ UNCHANGED <<ran, erred, expiries>>

ReleaseAfterError(r) ==
    /\ pc[r] = "releasing_error"
    /\ Released(r)
    /\ Answer(r, "error")
    /\ UNCHANGED <<ran, erred, expiries>>

\* The future is dropped at an await (client gone, an outer timeout): nothing
\* in it runs on drop.  A handler that was interrupted may have had its effect,
\* a store call that was under way may have had its own.
Cancel(r) ==
    /\ pc[r] \notin {"new", "done", "dropped"}
    /\ Goto(r, "dropped")
    /\ \/ StoreSame /\ UNCHANGED <<ran, erred>>
       \/ pc[r] \in {"plain", "handling"} /\ Runs(r) /\ StoreSame
       \/ /\ pc[r] = "completing" /\ StoreComplete(KeyOf[r], r)
          /\ UNCHANGED <<ran, erred>>
       \/ /\ pc[r] \in Releasing /\ StoreRemove(KeyOf[r])
          /\ UNCHANGED <<ran, erred>>
    /\ UNCHANGED <<reply, faults, expiries>>

-------------------------------------------------------------------------------
Handle(r) ==
    \/ PassThrough(r) \/ AcquireWon(r) \/ AcquireLost(r) \/ AcquireFails(r)
    \/ Get(r) \/ Complete(r) \/ CompleteFails(r)
    \/ ReleaseAfterComplete(r) \/ ReleaseAfterError(r)

Service(r) ==
    PlainReturns(r) \/ ServiceOk(r) \/ ServiceErr(r) \/ BodyRead(r) \/ BodyFails(r)

Finished == /\ \A r \in Requests : pc[r] \in {"done", "dropped"}
            /\ UNCHANGED vars

Next == \/ \E r \in Requests : Handle(r) \/ Service(r) \/ Cancel(r)
        \/ \E k \in Keys : Expire(k)
        \/ Finished

Spec == Init /\ [][Next]_vars

-------------------------------------------------------------------------------
(* Properties *)

\* Every variable keeps its type.
TypeOK ==
    /\ state \in [Keys -> {Absent, InProgress, Completed}]
    /\ cached \in [Keys -> Requests \cup {Nobody}]
    /\ pc \in [Requests -> Places]
    /\ reply \in [Requests -> [kind : Kinds, of : Requests \cup {Nobody}]]
    /\ holder \in [Keys -> Requests \cup {Nobody}]
    /\ ran \in SUBSET Requests
    /\ erred \in SUBSET ran
    /\ faults \in [Keys -> SUBSET {"expired", "complete_failed", "release_failed"}]
    /\ expiries \in 0..MaxExpiries

\* Two requests of one key are processed at the same time only if an entry of
\* that key has run out of TTL: no interleaving of acquire, release, complete,
\* failed store calls and cancellations gives the key away twice.
ExclusiveUnlessExpired ==
    \A r, q \in Requests :
        /\ r # q /\ KeyOf[r] = KeyOf[q] /\ KeyOf[r] # NoKey
        /\ pc[r] \in Processing /\ pc[q] \in Processing
        => "expired" \in faults[KeyOf[r]]

\* Once the handler has run for a request of a key, and the service has not thrown
\* its outcome away with an error, the handler runs for no other request of the
\* key, unless an entry of the key ran out or the store reported that it could not
\* complete one: a retry repeats no mutation whose outcome the store accepted, nor
\* one that was dropped half-way or whose body was lost.  (A mutation after which
\* an inner middleware failed is repeated: ServiceErr gives its key up.)
RunsOnceUnlessDisturbed ==
    [][\A r \in ran \ erred, q \in ran' \ ran :
        KeyOf[r] = KeyOf[q] /\ KeyOf[r] # NoKey =>
            faults'[KeyOf[r]] \cap {"expired", "complete_failed"} # {}]_vars

\* A replayed response is one that the service produced for another request of
\* the same key: never an error, a conflict or another key's response.
ReplaysARun ==
    \A r \in Requests : reply[r].kind = "replay" =>
        /\ reply[r].of \in ran \ (erred \cup {r})
        /\ KeyOf[reply[r].of] = KeyOf[r]

\* A completed entry leaves the store, or changes its response, only when it
\* runs out or after a fault: no late release and no late completion touches it.
CompletedIsKept ==
    [][\A k \in Keys :
        state[k] = Completed /\ faults'[k] = {} =>
            state'[k] = Completed /\ cached'[k] = cached[k]]_vars

\* A reservation that nobody will end before its TTL was left by a request that
\* was dropped, or answered 500 (acquire's answer or the body was lost), or whose
\* release failed: every other path ends what it reserved, also when entries of
\* the key have run out meanwhile.
OrphanedOnlyByLoss ==
    \A k \in Keys, r \in Requests :
        state[k] = InProgress /\ holder[k] = r =>
            \/ pc[r] \in Processing \cup Releasing \cup {"completing", "dropped"}
            \/ reply[r].kind = "server_error"
            \/ "release_failed" \in faults[k]

-------------------------------------------------------------------------------
(* Refinement *)

Once == INSTANCE OncePerKey
          WITH owner <- holder, outcome <- cached, effects <- ran, failed <- erred,
               told <- [r \in Requests |-> reply[r].of],
               forgotten <- {k \in Keys :
                               faults[k] \cap {"expired", "complete_failed"} # {}}

\* Every behaviour of the middleware, whatever is cancelled, fails or runs out,
\* claims a key before an effect, gives a claim up only without one or when the
\* service of its owner failed, and tells later requests the outcome that was kept,
\* until the key is forgotten.
ImplementsOncePerKey == Once!Spec
================================================================================
