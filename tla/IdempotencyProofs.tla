--------------------------- MODULE IdempotencyProofs ---------------------------
(***************************************************************************)
(* Safety of the idempotency middleware for every set of requests and      *)
(* keys, with or without failing store calls, for any number of expiries.  *)
(***************************************************************************)
EXTENDS Idempotency, TLAPS

\* The places at which a request has a reservation to end.
Owing == Processing \cup {"completing", "releasing", "releasing_error"}

\* A request gets to the store exactly when it has a key.
KeyedOK ==
    \A r \in Requests :
        /\ pc[r] \in Owing \cup {"getting"} => KeyOf[r] \in Keys
        /\ pc[r] = "plain" => KeyOf[r] = NoKey

\* The handler of a request has run once its response is being read, and not
\* before the service answered; where the service failed, it may have run.
RanOK ==
    \A r \in Requests :
        /\ pc[r] \in {"buffering", "completing", "releasing"} => r \in ran \ erred
        /\ pc[r] \in {"new", "plain", "getting", "handling"} => r \notin ran
        /\ pc[r] = "releasing_error" => r \notin ran \ erred

\* A request that owes the end of its reservation holds the entry of its key,
\* unless an entry of the key has run out.  It is in progress, or it may be
\* completed when complete() has reported an error.
HolderOK ==
    \A r \in Requests :
        pc[r] \in Owing /\ "expired" \notin faults[KeyOf[r]] =>
            /\ holder[KeyOf[r]] = r
            /\ IF pc[r] = "releasing"
               THEN state[KeyOf[r]] # Absent
               ELSE state[KeyOf[r]] = InProgress

\* Releasing after completion comes of a failed complete().
ReleasingOK ==
    \A r \in Requests : pc[r] = "releasing" => "complete_failed" \in faults[KeyOf[r]]

\* An entry was reserved and completed by requests of its key.
EntryOK ==
    \A k \in Keys :
        /\ holder[k] # Nobody => KeyOf[holder[k]] = k
        /\ state[k] = Completed => cached[k] \in ran \ erred /\ KeyOf[cached[k]] = k

\* A request whose handler ran keeps the entry of its key until an entry of the
\* key runs out or complete() fails, unless its service returned an error.
EffectKept ==
    \A r \in ran \ erred :
        KeyOf[r] # NoKey /\ faults[KeyOf[r]] \cap {"expired", "complete_failed"} = {} =>
            state[KeyOf[r]] # Absent /\ holder[KeyOf[r]] = r

\* A request is answered once.
RepliesOK == \A r \in Requests : reply[r].kind # "none" => pc[r] = "done"

\* An entry that is not there has no holder, one that is not completed no response.
EmptyOK ==
    \A k \in Keys :
        /\ state[k] = Absent => holder[k] = Nobody
        /\ state[k] # Completed => cached[k] = Nobody

\* Nobody is told anything before call() returns.
UntoldOK == \A r \in Requests : pc[r] # "done" => reply[r] = Reply("none", Nobody)

\* The inductive invariant.
IInv ==
    /\ TypeOK
    /\ KeyedOK
    /\ RanOK
    /\ HolderOK
    /\ ReleasingOK
    /\ EntryOK
    /\ EffectKept
    /\ RepliesOK
    /\ EmptyOK
    /\ UntoldOK
    /\ ReplaysARun
    /\ OrphanedOnlyByLoss

-------------------------------------------------------------------------------
(* One lemma per conjunct: what a step preserves, action by action. *)

LEMMA TypeStep ==
    ASSUME TypeOK, KeyedOK, [Next]_vars
    PROVE  TypeOK'
<1> USE IdempotencyAssumption
    DEF Runs, RefusedOrErrs, TypeOK, Absent, InProgress, Completed, Processing, Releasing, Places, Kinds,
        Reply, Goto, Answer, AnswerWith, StoreAcquire, StoreComplete, StoreRemove,
        StoreSame
<1>1. ASSUME UNCHANGED vars PROVE TypeOK'
    BY <1>1 DEF vars
<1>2. ASSUME NEW r \in Requests, PassThrough(r) PROVE TypeOK'
    BY <1>2 DEF PassThrough
<1>3. ASSUME NEW r \in Requests, AcquireWon(r) \/ AcquireLost(r) PROVE TypeOK'
    BY <1>3 DEF AcquireWon, AcquireLost
<1>4. ASSUME NEW r \in Requests, AcquireFails(r) PROVE TypeOK'
    <2>1. CASE StoreSame
        BY <1>4, <2>1 DEF AcquireFails
    <2>2. CASE StoreAcquire(KeyOf[r], r)
        BY <1>4, <2>2 DEF AcquireFails
    <2> QED
        BY <1>4, <2>1, <2>2 DEF AcquireFails
<1>5. ASSUME NEW r \in Requests, Get(r) PROVE TypeOK'
    <2>1. KeyOf[r] \in Keys
        BY <1>5 DEF Get, KeyedOK
    <2> QED
        BY <1>5, <2>1 DEF Get
<1>6. ASSUME NEW r \in Requests, Service(r) PROVE TypeOK'
    BY <1>6 DEF Service, PlainReturns, ServiceOk, ServiceErr, BodyRead, BodyFails
<1>7. ASSUME NEW r \in Requests, Complete(r) \/ CompleteFails(r) PROVE TypeOK'
    <2>1. KeyOf[r] \in Keys
        BY <1>7 DEF Complete, CompleteFails, KeyedOK, Owing
    <2>2. CASE Complete(r)
        BY <2>1, <2>2 DEF Complete
    <2>3. CASE CompleteFails(r)
        <3>1. CASE StoreSame
            BY <2>1, <2>3, <3>1 DEF CompleteFails
        <3>2. CASE StoreComplete(KeyOf[r], r)
            BY <2>1, <2>3, <3>2 DEF CompleteFails
        <3> QED
            BY <2>3, <3>1, <3>2 DEF CompleteFails
    <2> QED
        BY <1>7, <2>2, <2>3
<1>8. ASSUME NEW r \in Requests, ReleaseAfterComplete(r) \/ ReleaseAfterError(r)
      PROVE TypeOK'
    BY <1>8 DEF ReleaseAfterComplete, ReleaseAfterError, Released
<1>9. ASSUME NEW r \in Requests, Cancel(r) PROVE TypeOK'
    BY <1>9 DEF Cancel
<1>10. ASSUME NEW k \in Keys, Expire(k) PROVE TypeOK'
    BY <1>10 DEF Expire
<1> QED
    BY <1>1, <1>2, <1>3, <1>4, <1>5, <1>6, <1>7, <1>8, <1>9, <1>10
    DEF Next, Handle, Finished

\* A request moves only by its own steps, and to the next place of its path.
LEMMA PlacesStep ==
    ASSUME TypeOK, KeyedOK, RanOK, ReleasingOK, RepliesOK, [Next]_vars
    PROVE  KeyedOK' /\ RanOK' /\ ReleasingOK' /\ RepliesOK'
<1> USE IdempotencyAssumption
    DEF Runs, RefusedOrErrs, TypeOK, KeyedOK, RanOK, ReleasingOK, RepliesOK, Owing, Processing, Releasing,
        Places, Reply, Goto, Answer, AnswerWith
<1> DEFINE Kept == KeyedOK' /\ RanOK' /\ ReleasingOK' /\ RepliesOK'
<1>1. ASSUME UNCHANGED vars PROVE Kept
    BY <1>1 DEF vars
<1>2. ASSUME NEW r \in Requests, PassThrough(r) PROVE Kept
    BY <1>2 DEF PassThrough
<1>3. ASSUME NEW r \in Requests, AcquireWon(r) \/ AcquireLost(r) PROVE Kept
    BY <1>3 DEF AcquireWon, AcquireLost
<1>4. ASSUME NEW r \in Requests, AcquireFails(r) PROVE Kept
    BY <1>4 DEF AcquireFails
<1>5. ASSUME NEW r \in Requests, Get(r) PROVE Kept
    BY <1>5 DEF Get
<1>6. ASSUME NEW r \in Requests, PlainReturns(r) \/ ServiceOk(r) \/ ServiceErr(r)
      PROVE Kept
    BY <1>6 DEF PlainReturns, ServiceOk, ServiceErr
<1>7. ASSUME NEW r \in Requests, BodyRead(r) \/ BodyFails(r) PROVE Kept
    BY <1>7 DEF BodyRead, BodyFails
<1>8. ASSUME NEW r \in Requests, Complete(r) PROVE Kept
    BY <1>8 DEF Complete
<1>9. ASSUME NEW r \in Requests, CompleteFails(r) PROVE Kept
    BY <1>9 DEF CompleteFails
<1>10. ASSUME NEW r \in Requests, ReleaseAfterComplete(r) \/ ReleaseAfterError(r)
       PROVE Kept
    BY <1>10 DEF ReleaseAfterComplete, ReleaseAfterError, Released
<1>11. ASSUME NEW r \in Requests, Cancel(r) PROVE Kept
    BY <1>11 DEF Cancel
<1>12. ASSUME NEW k \in Keys, Expire(k) PROVE Kept
    BY <1>12 DEF Expire
<1> QED
    BY <1>1, <1>2, <1>3, <1>4, <1>5, <1>6, <1>7, <1>8, <1>9, <1>10, <1>11, <1>12
    DEF Next, Handle, Service, Finished

\* The entry a request holds is touched by no one else: a reservation is made on
\* an empty key only, and whoever completes or releases holds the entry itself.
LEMMA HolderStep ==
    ASSUME TypeOK, KeyedOK, RanOK, HolderOK, ReleasingOK, EntryOK, EffectKept,
           [Next]_vars
    PROVE  HolderOK' /\ EntryOK' /\ EffectKept'
<1> USE IdempotencyAssumption
    DEF Runs, RefusedOrErrs, TypeOK, KeyedOK, RanOK, HolderOK, ReleasingOK, EntryOK, EffectKept, Owing,
        Processing, Releasing, Places, Goto, Answer, AnswerWith, StoreSame,
        StoreAcquire, StoreComplete, StoreRemove, Absent, InProgress, Completed
<1> DEFINE Kept == HolderOK' /\ EntryOK' /\ EffectKept'
<1>1. ASSUME UNCHANGED vars PROVE Kept
    BY <1>1 DEF vars
<1>2. ASSUME NEW r \in Requests, PassThrough(r) \/ AcquireLost(r) \/ Get(r) PROVE Kept
    BY <1>2 DEF PassThrough, AcquireLost, Get
<1>11. ASSUME NEW r \in Requests, PlainReturns(r) PROVE Kept
    BY <1>11 DEF PlainReturns
<1>3. ASSUME NEW r \in Requests, AcquireWon(r) PROVE Kept
    BY <1>3 DEF AcquireWon
<1>4. ASSUME NEW r \in Requests, AcquireFails(r) PROVE Kept
    <2>1. CASE StoreSame
        BY <1>4, <2>1 DEF AcquireFails
    <2>2. CASE state[KeyOf[r]] = Absent /\ StoreAcquire(KeyOf[r], r)
        BY <1>4, <2>2 DEF AcquireFails
    <2> QED
        BY <1>4, <2>1, <2>2 DEF AcquireFails
<1>5. ASSUME NEW r \in Requests, ServiceOk(r) \/ ServiceErr(r) \/ BodyRead(r) \/ BodyFails(r)
      PROVE  Kept
    BY <1>5 DEF ServiceOk, ServiceErr, BodyRead, BodyFails
<1>6. ASSUME NEW r \in Requests, Complete(r) PROVE Kept
    BY <1>6 DEF Complete
<1>7. ASSUME NEW r \in Requests, CompleteFails(r) PROVE Kept
    <2>1. CASE StoreSame
        BY <1>7, <2>1 DEF CompleteFails
    <2>2. CASE StoreComplete(KeyOf[r], r)
        BY <1>7, <2>2 DEF CompleteFails
    <2> QED
        BY <1>7, <2>1, <2>2 DEF CompleteFails
<1>8. ASSUME NEW r \in Requests, ReleaseAfterComplete(r) \/ ReleaseAfterError(r)
      PROVE  Kept
    BY <1>8 DEF ReleaseAfterComplete, ReleaseAfterError, Released
<1>9. ASSUME NEW r \in Requests, Cancel(r) PROVE Kept
    BY <1>9 DEF Cancel
<1>10. ASSUME NEW k \in Keys, Expire(k) PROVE Kept
    BY <1>10 DEF Expire
<1> QED
    BY <1>1, <1>2, <1>3, <1>4, <1>5, <1>6, <1>7, <1>8, <1>9, <1>10,
       <1>11 DEF Next, Handle, Service, Finished

\* A replay hands out what the entry holds; what has run stays run.
LEMMA ReplayStep ==
    ASSUME TypeOK, KeyedOK, RanOK, EntryOK, ReplaysARun, [Next]_vars
    PROVE  ReplaysARun'
<1> USE IdempotencyAssumption
    DEF Runs, RefusedOrErrs, TypeOK, KeyedOK, RanOK, EntryOK, ReplaysARun, Owing, Processing, Releasing,
        Places, Reply, Kinds, Goto, Answer, AnswerWith
<1>1. ASSUME UNCHANGED vars PROVE ReplaysARun'
    BY <1>1 DEF vars
<1>2. ASSUME NEW r \in Requests, Get(r) PROVE ReplaysARun'
    BY <1>2 DEF Get
<1>3. ASSUME NEW r \in Requests,
             PassThrough(r) \/ AcquireWon(r) \/ AcquireLost(r) \/ AcquireFails(r)
      PROVE  ReplaysARun'
    BY <1>3 DEF PassThrough, AcquireWon, AcquireLost, AcquireFails
<1>4. ASSUME NEW r \in Requests, Complete(r) \/ CompleteFails(r)
                                  \/ ReleaseAfterComplete(r) \/ ReleaseAfterError(r)
      PROVE  ReplaysARun'
    BY <1>4 DEF Complete, CompleteFails, ReleaseAfterComplete, ReleaseAfterError
<1>5. ASSUME NEW r \in Requests, Service(r) PROVE ReplaysARun'
    BY <1>5 DEF Service, PlainReturns, ServiceOk, ServiceErr, BodyRead, BodyFails
<1>6. ASSUME NEW r \in Requests, Cancel(r) PROVE ReplaysARun'
    BY <1>6 DEF Cancel
<1>7. ASSUME NEW k \in Keys, Expire(k) PROVE ReplaysARun'
    BY <1>7 DEF Expire
<1> QED
    BY <1>1, <1>2, <1>3, <1>4, <1>5, <1>6, <1>7 DEF Next, Handle, Finished

\* Whoever made a reservation ends it or is lost.
LEMMA OrphanStep ==
    ASSUME TypeOK, KeyedOK, EntryOK, RepliesOK, OrphanedOnlyByLoss, [Next]_vars
    PROVE  OrphanedOnlyByLoss'
<1> USE IdempotencyAssumption
    DEF Runs, RefusedOrErrs, TypeOK, KeyedOK, EntryOK, RepliesOK, OrphanedOnlyByLoss, Owing, Processing,
        Releasing, Places, Reply, Goto, Answer, AnswerWith, StoreSame, StoreAcquire,
        StoreComplete, StoreRemove, Absent, InProgress, Completed
<1>1. ASSUME UNCHANGED vars PROVE OrphanedOnlyByLoss'
    BY <1>1 DEF vars
<1>2. ASSUME NEW r \in Requests,
             PassThrough(r) \/ AcquireLost(r) \/ Get(r) \/ PlainReturns(r)
      PROVE  OrphanedOnlyByLoss'
    BY <1>2 DEF PassThrough, AcquireLost, Get, PlainReturns
<1>3. ASSUME NEW r \in Requests, AcquireWon(r) PROVE OrphanedOnlyByLoss'
    BY <1>3 DEF AcquireWon
<1>4. ASSUME NEW r \in Requests, AcquireFails(r) PROVE OrphanedOnlyByLoss'
    BY <1>4 DEF AcquireFails
<1>5. ASSUME NEW r \in Requests, ServiceOk(r) \/ ServiceErr(r) \/ BodyRead(r) \/ BodyFails(r)
      PROVE  OrphanedOnlyByLoss'
    BY <1>5 DEF ServiceOk, ServiceErr, BodyRead, BodyFails
<1>6. ASSUME NEW r \in Requests, Complete(r) \/ CompleteFails(r)
      PROVE  OrphanedOnlyByLoss'
    BY <1>6 DEF Complete, CompleteFails
<1>7. ASSUME NEW r \in Requests, ReleaseAfterComplete(r) \/ ReleaseAfterError(r)
      PROVE  OrphanedOnlyByLoss'
    <2>1. CASE StoreRemove(KeyOf[r]) /\ UNCHANGED faults
        BY <1>7, <2>1 DEF ReleaseAfterComplete, ReleaseAfterError
    <2>2. CASE StoreSame
               /\ faults' = [faults EXCEPT ![KeyOf[r]] = @ \cup {"release_failed"}]
        <3>1. SUFFICES ASSUME NEW k \in Keys, NEW q \in Requests,
                              state[k] = InProgress, holder[k] = q
                       PROVE  \/ pc'[q] \in Processing \cup Releasing
                                              \cup {"completing", "dropped"}
                              \/ reply'[q].kind = "server_error"
                              \/ "release_failed" \in faults'[k]
            BY <2>2
        <3>2. CASE KeyOf[r] = k
            <4>1. "release_failed" \in faults'[k]
                BY <1>7, <2>2, <3>2
            <4> QED
                BY <4>1
        <3>3. CASE KeyOf[r] # k
            <4>1. q # r /\ faults'[k] = faults[k]
                BY <2>2, <3>1, <3>3, <1>7 DEF ReleaseAfterComplete, ReleaseAfterError
            <4> QED
                BY <1>7, <3>1, <4>1 DEF ReleaseAfterComplete, ReleaseAfterError
        <3> QED
            BY <3>2, <3>3
    <2> QED
        BY <1>7, <2>1, <2>2 DEF ReleaseAfterComplete, ReleaseAfterError, Released
<1>8. ASSUME NEW r \in Requests, Cancel(r) PROVE OrphanedOnlyByLoss'
    BY <1>8 DEF Cancel
<1>9. ASSUME NEW k \in Keys, Expire(k) PROVE OrphanedOnlyByLoss'
    BY <1>9 DEF Expire
<1> QED
    BY <1>1, <1>2, <1>3, <1>4, <1>5, <1>6, <1>7, <1>8, <1>9
    DEF Next, Handle, Service, Finished

\* Every effect on the store leaves an entry whole, or none.
LEMMA EmptyStep ==
    ASSUME TypeOK, KeyedOK, EmptyOK, [Next]_vars
    PROVE  EmptyOK'
<1> USE IdempotencyAssumption
    DEF Runs, RefusedOrErrs, TypeOK, KeyedOK, EmptyOK, Owing, Processing, Releasing, Absent, InProgress,
        Completed, StoreSame, StoreAcquire, StoreComplete, StoreRemove
<1>1. ASSUME UNCHANGED vars PROVE EmptyOK'
    BY <1>1 DEF vars
<1>2. ASSUME NEW r \in Requests,
             PassThrough(r) \/ AcquireLost(r) \/ Get(r) \/ Service(r)
      PROVE  EmptyOK'
    BY <1>2 DEF PassThrough, AcquireLost, Get, Service, PlainReturns, ServiceOk,
                ServiceErr, BodyRead, BodyFails
<1>3. ASSUME NEW r \in Requests, AcquireWon(r) \/ AcquireFails(r) PROVE EmptyOK'
    BY <1>3 DEF AcquireWon, AcquireFails
<1>4. ASSUME NEW r \in Requests, Complete(r) \/ CompleteFails(r) PROVE EmptyOK'
    BY <1>4 DEF Complete, CompleteFails
<1>5. ASSUME NEW r \in Requests, ReleaseAfterComplete(r) \/ ReleaseAfterError(r)
      PROVE  EmptyOK'
    BY <1>5 DEF ReleaseAfterComplete, ReleaseAfterError, Released
<1>6. ASSUME NEW r \in Requests, Cancel(r) PROVE EmptyOK'
    BY <1>6 DEF Cancel
<1>7. ASSUME NEW k \in Keys, Expire(k) PROVE EmptyOK'
    BY <1>7 DEF Expire
<1> QED
    BY <1>1, <1>2, <1>3, <1>4, <1>5, <1>6, <1>7 DEF Next, Handle, Finished

\* Whatever answers a request ends it.
LEMMA UntoldStep ==
    ASSUME TypeOK, UntoldOK, [Next]_vars
    PROVE  UntoldOK'
<1> USE DEF Runs, RefusedOrErrs, TypeOK, UntoldOK, Reply, Goto, Answer, AnswerWith
<1>1. ASSUME UNCHANGED vars PROVE UntoldOK'
    BY <1>1 DEF vars
<1>2. ASSUME NEW r \in Requests, Handle(r) PROVE UntoldOK'
    BY <1>2 DEF Handle, PassThrough, AcquireWon, AcquireLost, AcquireFails, Get,
                Complete, CompleteFails, ReleaseAfterComplete, ReleaseAfterError
<1>3. ASSUME NEW r \in Requests, Service(r) PROVE UntoldOK'
    BY <1>3 DEF Service, PlainReturns, ServiceOk, ServiceErr, BodyRead, BodyFails
<1>4. ASSUME NEW r \in Requests, Cancel(r) PROVE UntoldOK'
    BY <1>4 DEF Cancel
<1>5. ASSUME NEW k \in Keys, Expire(k) PROVE UntoldOK'
    BY <1>5 DEF Expire
<1> QED
    BY <1>1, <1>2, <1>3, <1>4, <1>5 DEF Next, Finished

LEMMA InitHolds == Init => IInv
BY IdempotencyAssumption
DEF Init, IInv, TypeOK, KeyedOK, RanOK, HolderOK, ReleasingOK, EntryOK, EffectKept,
    RepliesOK, EmptyOK, UntoldOK, ReplaysARun, OrphanedOnlyByLoss, Owing, Processing, Releasing, Places,
    Kinds, Reply, Absent, InProgress, Completed

LEMMA StepHolds == IInv /\ [Next]_vars => IInv'
BY TypeStep, PlacesStep, HolderStep, ReplayStep, OrphanStep, EmptyStep, UntoldStep
DEF IInv

LEMMA Invariance == Spec => []IInv
BY InitHolds, StepHolds, PTL DEF Spec

-------------------------------------------------------------------------------
\* A handler runs only for a request that is being processed, or has no key.
LEMMA NewRun ==
    ASSUME IInv, [Next]_vars, NEW q \in ran' \ ran, KeyOf[q] # NoKey
    PROVE  q \in Requests /\ pc[q] = "handling" /\ UNCHANGED faults
<1> DEFINE Goal == q \in Requests /\ pc[q] = "handling" /\ UNCHANGED faults
<1>1. CASE UNCHANGED vars
    BY <1>1 DEF vars
<1>2. ASSUME NEW r \in Requests, Handle(r) PROVE Goal
    BY <1>2 DEF Handle, PassThrough, AcquireWon, AcquireLost, AcquireFails, Get,
                Complete, CompleteFails, ReleaseAfterComplete, ReleaseAfterError
<1>3. ASSUME NEW r \in Requests, Service(r) PROVE Goal
    BY <1>3 DEF Service, PlainReturns, ServiceOk, ServiceErr, BodyRead, BodyFails,
                Runs, RefusedOrErrs, IInv, KeyedOK
<1>4. ASSUME NEW r \in Requests, Cancel(r) PROVE Goal
    BY <1>4 DEF Cancel, Runs, IInv, KeyedOK
<1>5. ASSUME NEW k \in Keys, Expire(k) PROVE Goal
    BY <1>5 DEF Expire
<1> QED
    BY <1>1, <1>2, <1>3, <1>4, <1>5 DEF Next, Finished

\* Every variable keeps its type.
THEOREM TypeCorrect == Spec => []TypeOK
BY Invariance, PTL DEF IInv

\* A key is never processed twice at a time unless an entry of it ran out of TTL:
\* two requests that process it would both hold its entry.
THEOREM Exclusion == Spec => []ExclusiveUnlessExpired
<1>1. IInv => ExclusiveUnlessExpired
    BY DEF IInv, HolderOK, ExclusiveUnlessExpired, Owing
<1> QED
    BY <1>1, Invariance, PTL

\* Once a handler has run for a key and its service did not fail, no other runs
\* unless an entry of the key ran out or complete() failed: the one that ran and
\* the one that is about to would both hold the entry of the key.
THEOREM RunsOnce == Spec => RunsOnceUnlessDisturbed
<1> DEFINE Unrepeated == \A r \in ran \ erred, q \in ran' \ ran :
                      KeyOf[r] = KeyOf[q] /\ KeyOf[r] # NoKey =>
                          faults'[KeyOf[r]] \cap {"expired", "complete_failed"} # {}
<1>1. ASSUME IInv, [Next]_vars, NEW r \in ran \ erred, NEW q \in ran' \ ran,
             KeyOf[r] = KeyOf[q], KeyOf[r] # NoKey
      PROVE  faults'[KeyOf[r]] \cap {"expired", "complete_failed"} # {}
    <2>1. q \in Requests /\ pc[q] = "handling" /\ UNCHANGED faults
        BY <1>1, NewRun
    <2>2. SUFFICES ASSUME faults[KeyOf[r]] \cap {"expired", "complete_failed"} = {}
                   PROVE  FALSE
        BY <2>1
    <2>3. holder[KeyOf[r]] = r
        BY <1>1, <2>2 DEF IInv, EffectKept
    <2>4. holder[KeyOf[q]] = q
        BY <1>1, <2>1, <2>2 DEF IInv, HolderOK, Owing, Processing
    <2> QED
        BY <1>1, <2>3, <2>4
<1>2. IInv /\ [Next]_vars => [Unrepeated]_vars
    BY <1>1
<1> QED
    BY <1>2, Invariance, PTL DEF Spec, RunsOnceUnlessDisturbed

\* A replayed response was produced by the service for another request of the key.
THEOREM ReplayIsARun == Spec => []ReplaysARun
BY Invariance, PTL DEF IInv

\* A reservation nobody will end was left by a request that was lost.
THEOREM OrphansAreLosses == Spec => []OrphanedOnlyByLoss
BY Invariance, PTL DEF IInv

\* A completed entry stays as it is until it runs out or a call fails: whoever
\* completes or releases holds the entry, and it is still in progress.
THEOREM CompletedStays == Spec => CompletedIsKept
<1> DEFINE Kept == \A k \in Keys :
                     state[k] = Completed /\ faults'[k] = {} =>
                         state'[k] = Completed /\ cached'[k] = cached[k]
<1>1. IInv /\ [Next]_vars => [Kept]_vars
    <2> SUFFICES ASSUME IInv, Next PROVE Kept
        OBVIOUS
    <2> USE IdempotencyAssumption
        DEF IInv, TypeOK, KeyedOK, HolderOK, ReleasingOK, Owing, Processing, Releasing,
            StoreSame, StoreAcquire, StoreComplete, StoreRemove, Absent, InProgress,
            Completed
    <2>1. ASSUME NEW r \in Requests, Service(r) PROVE Kept
        BY <2>1 DEF Service, PlainReturns, ServiceOk, ServiceErr, BodyRead, BodyFails
    <2>2. ASSUME NEW r \in Requests, PassThrough(r) \/ AcquireLost(r) \/ Get(r)
          PROVE Kept
        BY <2>2 DEF PassThrough, AcquireLost, Get
    <2>3. ASSUME NEW r \in Requests, AcquireWon(r) \/ AcquireFails(r) PROVE Kept
        BY <2>3 DEF AcquireWon, AcquireFails
    <2>4. ASSUME NEW r \in Requests, Complete(r) PROVE Kept
        BY <2>4 DEF Complete
    <2>5. ASSUME NEW r \in Requests, CompleteFails(r) PROVE Kept
        BY <2>5 DEF CompleteFails
    <2>6. ASSUME NEW r \in Requests, ReleaseAfterComplete(r) \/ ReleaseAfterError(r)
          PROVE Kept
        BY <2>6 DEF ReleaseAfterComplete, ReleaseAfterError, Released
    <2>7. ASSUME NEW r \in Requests, Cancel(r) PROVE Kept
        BY <2>7 DEF Cancel
    <2>8. ASSUME NEW k \in Keys, Expire(k) PROVE Kept
        BY <2>8 DEF Expire
    <2>9. CASE UNCHANGED vars
        BY <2>9 DEF vars
    <2> QED
        BY <2>1, <2>2, <2>3, <2>4, <2>5, <2>6, <2>7, <2>8, <2>9 DEF Next, Handle, Finished
<1> QED
    BY <1>1, Invariance, PTL DEF Spec, CompletedIsKept
-------------------------------------------------------------------------------
(* Idempotency implements OncePerKey *)

Told == [r \in Requests |-> reply[r].of]
OfKey(k) == {r \in Requests : KeyOf[r] = k}
Forgotten == {k \in Keys : faults[k] \cap {"expired", "complete_failed"} # {}}

LEMMA InitRefines == Init => Once!Init
BY DEF Init, Once!Init, Reply

\* The reply of one request changes what that request is told alone.
LEMMA ToldChange ==
    ASSUME NEW r \in Requests, NEW kind, NEW q, TypeOK,
           reply' = [reply EXCEPT ![r] = Reply(kind, q)]
    PROVE  Told' = [Told EXCEPT ![r] = q]
BY DEF Told, Reply, TypeOK

\* A reply of its own making tells a request nothing.
LEMMA ToldNothing ==
    ASSUME NEW r \in Requests, NEW kind, TypeOK, UntoldOK, pc[r] # "done",
           reply' = [reply EXCEPT ![r] = Reply(kind, Nobody)]
    PROVE  Told' = Told
BY DEF Told, Reply, TypeOK, UntoldOK

\* An entry that runs out or cannot be completed makes its key forgotten.
LEMMA ForgottenChange ==
    ASSUME TypeOK, NEW k \in Keys, NEW f \in {"expired", "complete_failed"},
           faults' = [faults EXCEPT ![k] = @ \cup {f}]
    PROVE  Forgotten' = Forgotten \cup {k}
<1>1. faults'[k] \cap {"expired", "complete_failed"} # {}
    BY DEF TypeOK
<1>2. \A j \in Keys \ {k} : faults'[j] = faults[j]
    BY DEF TypeOK
<1> QED
    BY <1>1, <1>2 DEF Forgotten

\* Once a key is forgotten, a step at it may do to its entry what the middleware
\* does: keep, take or give up the claim, run a handler of the key, and keep or
\* tell what a handler of the key produced.
LEMMA DisturbedStep ==
    ASSUME TypeOK, NEW k \in Keys, Forgotten' = Forgotten \cup {k},
           NEW o \in Requests \cup {Nobody}, holder' = [holder EXCEPT ![k] = o],
           UNCHANGED <<ran, erred>> \/ \E r \in OfKey(k) : Once!HasEffect(r),
           NEW q \in ((ran' \ erred') \cap OfKey(k)) \cup {Nobody},
           cached' = [cached EXCEPT ![k] = q],
           \/ Told' = Told
           \/ \E r \in OfKey(k), p \in (ran' \ erred') \cap OfKey(k) :
                Told' = [Told EXCEPT ![r] = p]
    PROVE  Once!Next
<1>1. Once!Disturbed(k)
    BY DEF Once!Disturbed, Once!OfKey, Once!Answers, OfKey, Told, Forgotten
<1> QED
    BY <1>1 DEF Once!Next

LEMMA StepRefines == IInv /\ [Next]_vars => [Once!Next]_(Once!vars)
<1> SUFFICES ASSUME IInv, [Next]_vars
             PROVE  Once!Next \/ UNCHANGED Once!vars
    OBVIOUS
<1> DEFINE Refined == Once!Next \/ UNCHANGED Once!vars
           Same == UNCHANGED <<holder, cached, ran, erred>> /\ Told' = Told
                       /\ Forgotten' = Forgotten
<1> USE IdempotencyAssumption DEF Absent, InProgress, Completed
<1>a. ASSUME Same PROVE UNCHANGED Once!vars
    BY <1>a DEF Once!vars, Told, Forgotten
<1>b. ASSUME UNCHANGED reply PROVE Told' = Told
    BY <1>b DEF Told
<1>c. ASSUME UNCHANGED faults PROVE Forgotten' = Forgotten
    BY <1>c DEF Forgotten
<1>1. ASSUME UNCHANGED vars PROVE Refined
    BY <1>1, <1>a, <1>b, <1>c DEF vars
<1>2. ASSUME NEW r \in Requests,
             PassThrough(r) \/ AcquireLost(r) \/ BodyRead(r)
      PROVE  Refined
    BY <1>2, <1>a, <1>b, <1>c
    DEF PassThrough, AcquireLost, BodyRead, StoreSame
<1>3. ASSUME NEW r \in Requests, BodyFails(r) PROVE Refined
    BY <1>3, <1>a, <1>c, ToldNothing DEF BodyFails, Answer, StoreSame, IInv
\* The handler of a request without a key has its effect.
<1>4. ASSUME NEW r \in Requests, pc[r] = "plain", Once!HasEffect(r), StoreSame,
             UNCHANGED faults,
             \/ Told' = Told
             \/ Told' = [Told EXCEPT ![r] = r] /\ UNCHANGED erred
      PROVE  Refined
  <2>1. KeyOf[r] \notin Keys
      BY <1>4 DEF IInv, KeyedOK
  <2>2. UNCHANGED <<holder, cached>> /\ Forgotten' = Forgotten
      BY <1>4, <1>c DEF StoreSame
  <2>3. Once!Plain(r)
      BY <1>4, <2>1, <2>2 DEF Once!Plain, Told, Forgotten
  <2> QED
      BY <2>3 DEF Once!Next
<1>22. ASSUME NEW r \in Requests, PlainReturns(r) PROVE Refined
  <2>1. /\ pc[r] = "plain" /\ StoreSame /\ UNCHANGED faults
        /\ r \notin ran
      BY <1>22 DEF PlainReturns, IInv, RanOK
  <2>2. CASE AnswerWith(r, "plain", r) /\ Runs(r)
    <3>1. Told' = [Told EXCEPT ![r] = r]
        BY <2>2, ToldChange DEF AnswerWith, IInv
    <3>2. Once!HasEffect(r) /\ UNCHANGED erred
        BY <2>1, <2>2 DEF Once!HasEffect, Runs
    <3> QED
        BY <1>4, <2>1, <3>1, <3>2
  <2>3. CASE Answer(r, "error") /\ RefusedOrErrs(r)
    <3>1. Told' = Told
        BY <2>1, <2>3, ToldNothing DEF Answer, IInv
    <3>2. CASE UNCHANGED <<ran, erred>>
        BY <2>1, <3>1, <3>2, <1>a, <1>c DEF StoreSame
    <3>3. CASE ran' = ran \cup {r} /\ erred' = erred \cup {r}
      <4>1. Once!HasEffect(r)
          BY <2>1, <3>3 DEF Once!HasEffect
      <4> QED
          BY <1>4, <2>1, <3>1, <4>1
    <3> QED
        BY <2>3, <3>2, <3>3 DEF RefusedOrErrs
  <2> QED
      BY <1>22, <2>2, <2>3 DEF PlainReturns
<1>5. ASSUME NEW r \in Requests, NEW k \in Keys, KeyOf[r] = k, state[k] = Absent,
             StoreAcquire(k, r), ran' = ran, erred' = erred, Told' = Told, faults' = faults
      PROVE  Refined
  <2>1. Once!Claim(k, r)
      BY <1>5, <1>c DEF Once!Claim, StoreAcquire, IInv, EmptyOK, Told, Forgotten
  <2> QED
      BY <2>1 DEF Once!Next
<1>6. ASSUME NEW r \in Requests, AcquireWon(r) PROVE Refined
  <2>1. KeyOf[r] \in Keys
      BY <1>6 DEF AcquireWon
  <2> QED
      BY <1>6, <2>1, <1>5, <1>b DEF AcquireWon
<1>7. ASSUME NEW r \in Requests, AcquireFails(r) PROVE Refined
  <2>1. KeyOf[r] \in Keys
      BY <1>7 DEF AcquireFails
  <2>2. Told' = Told
      BY <1>7, ToldNothing DEF AcquireFails, Answer, IInv
  <2> QED
      BY <1>7, <2>1, <2>2, <1>5, <1>a, <1>c DEF AcquireFails, StoreSame
<1>8. ASSUME NEW r \in Requests, Get(r) PROVE Refined
  <2> DEFINE k == KeyOf[r]
  <2>1. k \in Keys
      BY <1>8 DEF Get, IInv, KeyedOK
  <2>2. CASE state[k] = Completed /\ AnswerWith(r, "replay", cached[k])
    <3>1. Told' = [Told EXCEPT ![r] = cached[k]]
        BY <2>2, ToldChange DEF AnswerWith, IInv
    <3>2. cached[k] # Nobody
        BY <2>1, <2>2 DEF IInv, EntryOK, TypeOK
    <3>3. UNCHANGED <<holder, cached, ran, erred>> /\ Forgotten' = Forgotten
        BY <1>8, <1>c DEF Get, StoreSame
    <3>4. Once!Replay(k, r)
        BY <3>1, <3>2, <3>3 DEF Once!Replay, Told, Forgotten
    <3> QED
        BY <2>1, <3>4 DEF Once!Next
  <2>3. CASE Answer(r, "conflict") \/ Answer(r, "server_error")
      BY <1>8, <2>3, <1>a, <1>c, ToldNothing DEF Get, Answer, StoreSame, IInv
  <2> QED
      BY <1>8, <2>2, <2>3 DEF Get
\* The handler of a request that is being processed has its effect.
<1>9. ASSUME NEW r \in Requests, pc[r] = "handling", Once!HasEffect(r), StoreSame,
             Told' = Told, UNCHANGED faults
      PROVE  Refined
  <2> DEFINE k == KeyOf[r]
  <2>1. k \in Keys
      BY <1>9 DEF IInv, KeyedOK, Owing, Processing
  <2>2. UNCHANGED <<holder, cached>> /\ Forgotten' = Forgotten
      BY <1>9, <1>c DEF StoreSame
  <2>3. CASE "expired" \in faults[k]
    <3>1. Forgotten' = Forgotten \cup {k}
        BY <2>1, <2>2, <2>3 DEF Forgotten
    <3>2. cached[k] \in ((ran' \ erred') \cap OfKey(k)) \cup {Nobody}
      <4>1. cached[k] \in ((ran \ erred) \cap OfKey(k)) \cup {Nobody}
          BY <2>1 DEF IInv, EntryOK, EmptyOK, TypeOK, OfKey
      <4>2. ran \ erred \subseteq ran' \ erred'
          BY <1>9 DEF Once!HasEffect
      <4> QED
          BY <4>1, <4>2
    <3>3. /\ holder[k] \in Requests \cup {Nobody}
          /\ holder' = [holder EXCEPT ![k] = holder[k]]
          /\ cached' = [cached EXCEPT ![k] = cached[k]]
        BY <2>1, <2>2 DEF IInv, TypeOK
    <3>4. r \in OfKey(k)
        BY DEF OfKey
    <3>5. TypeOK
        BY DEF IInv
    <3> QED
        BY <1>9, <2>1, <3>1, <3>2, <3>3, <3>4, <3>5, DisturbedStep
  <2>4. CASE "expired" \notin faults[k]
    <3>1. holder[k] = r
        BY <1>9, <2>4 DEF IInv, HolderOK, Owing, Processing
    <3>2. Once!Effect(k, r)
        BY <1>9, <2>1, <2>2, <3>1 DEF Once!Effect, Told, Forgotten
    <3> QED
        BY <2>1, <3>2 DEF Once!Next
  <2> QED
      BY <2>3, <2>4
\* The response of a request that was being processed is kept.
<1>10. ASSUME NEW r \in Requests, pc[r] = "completing", StoreComplete(KeyOf[r], r),
              Told' = Told \/ Told' = [Told EXCEPT ![r] = r],
              UNCHANGED <<ran, erred, faults>>
       PROVE  Refined
  <2> DEFINE k == KeyOf[r]
  <2>1. k \in Keys /\ r \in ran \ erred
      BY <1>10 DEF IInv, KeyedOK, RanOK, Owing
  <2>2. Forgotten' = Forgotten /\ UNCHANGED holder /\ cached' = [cached EXCEPT ![k] = r]
      BY <1>10, <1>c DEF StoreComplete
  <2>3. CASE "expired" \in faults[k]
    <3>1. Forgotten' = Forgotten \cup {k}
        BY <2>1, <2>2, <2>3 DEF Forgotten
    <3>2. r \in OfKey(k) /\ r \in (ran' \ erred') \cap OfKey(k)
        BY <1>10, <2>1 DEF OfKey
    <3>3. /\ holder[k] \in Requests \cup {Nobody}
          /\ holder' = [holder EXCEPT ![k] = holder[k]]
          /\ UNCHANGED <<ran, erred>>
        BY <1>10, <2>1, <2>2 DEF IInv, TypeOK
    <3>4. TypeOK
        BY DEF IInv
    <3> QED
        BY <1>10, <2>1, <2>2, <3>1, <3>2, <3>3, <3>4, DisturbedStep
  <2>4. CASE "expired" \notin faults[k]
    <3>1. holder[k] = r /\ cached[k] = Nobody
        BY <1>10, <2>1, <2>4 DEF IInv, HolderOK, Owing, EmptyOK
    <3>2. Once!Keep(k, r)
        BY <1>10, <2>1, <2>2, <3>1 DEF Once!Keep, Once!Answers, Told, Forgotten
    <3> QED
        BY <2>1, <3>2 DEF Once!Next
  <2> QED
      BY <2>3, <2>4
\* The entry goes, at a request that had its effect but could not complete it.
<1>11. ASSUME NEW r \in Requests, pc[r] = "releasing",
              StoreRemove(KeyOf[r]) \/ StoreSame,
              Told' = Told \/ Told' = [Told EXCEPT ![r] = r],
              UNCHANGED <<ran, erred>>, Forgotten' = Forgotten
       PROVE  Refined
  <2> DEFINE k == KeyOf[r]
  <2>1. k \in Keys /\ r \in ran \ erred /\ TypeOK
      BY <1>11 DEF IInv, KeyedOK, RanOK, Owing
  <2>2. Forgotten' = Forgotten \cup {k}
      BY <1>11, <2>1 DEF IInv, ReleasingOK, Forgotten
  <2>3. r \in OfKey(k) /\ r \in (ran' \ erred') \cap OfKey(k) /\ UNCHANGED <<ran, erred>>
      BY <1>11, <2>1 DEF OfKey
  <2>4. CASE StoreRemove(k)
    <3>1. /\ holder' = [holder EXCEPT ![k] = Nobody]
          /\ cached' = [cached EXCEPT ![k] = Nobody]
        BY <2>4 DEF StoreRemove
    <3> QED
        BY <1>11, <2>1, <2>2, <2>3, <3>1, DisturbedStep
  <2>5. CASE StoreSame
    <3>1. /\ holder' = [holder EXCEPT ![k] = holder[k]]
          /\ cached' = [cached EXCEPT ![k] = cached[k]]
          /\ holder[k] \in Requests \cup {Nobody}
        BY <2>1, <2>5 DEF StoreSame, TypeOK
    <3>2. cached[k] \in ((ran' \ erred') \cap OfKey(k)) \cup {Nobody}
        BY <1>11, <2>1 DEF IInv, EntryOK, EmptyOK, TypeOK, OfKey
    <3> QED
        BY <1>11, <2>1, <2>2, <2>3, <3>1, <3>2, DisturbedStep
  <2> QED
      BY <1>11, <2>4, <2>5
\* The claim of a request whose service failed is given up.
<1>12. ASSUME NEW r \in Requests, pc[r] = "releasing_error", StoreRemove(KeyOf[r]),
              Told' = Told, UNCHANGED <<ran, erred, faults>>
       PROVE  Refined
  <2> DEFINE k == KeyOf[r]
  <2>1. k \in Keys /\ r \notin ran \ erred /\ TypeOK
      BY <1>12 DEF IInv, KeyedOK, RanOK, Owing, Releasing
  <2>2. /\ Forgotten' = Forgotten
        /\ holder' = [holder EXCEPT ![k] = Nobody]
        /\ cached' = [cached EXCEPT ![k] = Nobody]
      BY <1>12, <1>c DEF StoreRemove
  <2>3. CASE "expired" \in faults[k]
    <3>1. Forgotten' = Forgotten \cup {k} /\ UNCHANGED <<ran, erred>>
        BY <1>12, <2>1, <2>2, <2>3 DEF Forgotten
    <3> QED
        BY <1>12, <2>1, <2>2, <3>1, DisturbedStep
  <2>4. CASE "expired" \notin faults[k]
    <3>1. holder[k] = r /\ cached[k] = Nobody
        BY <1>12, <2>1, <2>4 DEF IInv, HolderOK, Owing, EmptyOK, Releasing
    <3>2. UNCHANGED cached
        BY <2>1, <2>2, <3>1 DEF TypeOK
    <3>3. Once!GiveUp(k, r)
        BY <1>12, <2>1, <2>2, <3>1, <3>2 DEF Once!GiveUp, Once!Answers, Told, Forgotten
    <3> QED
        BY <2>1, <3>3 DEF Once!Next
  <2> QED
      BY <2>3, <2>4
<1>13. ASSUME NEW r \in Requests, ServiceOk(r) \/ ServiceErr(r) PROVE Refined
  <2>1. /\ pc[r] = "handling" /\ StoreSame /\ UNCHANGED faults
        /\ Told' = Told /\ r \notin ran
      BY <1>13, <1>b DEF ServiceOk, ServiceErr, IInv, RanOK
  <2>2. CASE UNCHANGED <<ran, erred>>
      BY <2>1, <2>2, <1>a, <1>c DEF StoreSame
  <2>3. CASE ran' = ran \cup {r} /\ erred' \in {erred, erred \cup {r}}
    <3>1. Once!HasEffect(r)
        BY <2>1, <2>3 DEF Once!HasEffect
    <3> QED
        BY <1>9, <2>1, <3>1
  <2> QED
      BY <1>13, <2>2, <2>3 DEF ServiceOk, ServiceErr, Runs, RefusedOrErrs
<1>14. ASSUME NEW r \in Requests, Complete(r) PROVE Refined
  <2>1. Told' = [Told EXCEPT ![r] = r]
      BY <1>14, ToldChange DEF Complete, AnswerWith, IInv
  <2> QED
      BY <1>14, <2>1, <1>10 DEF Complete
\* complete() reports an error, and the key is forgotten.
<1>15. ASSUME NEW r \in Requests, CompleteFails(r) PROVE Refined
  <2> DEFINE k == KeyOf[r]
  <2>1. k \in Keys /\ r \in ran \ erred /\ TypeOK
      BY <1>15 DEF CompleteFails, IInv, KeyedOK, RanOK, Owing
  <2>2. Forgotten' = Forgotten \cup {k}
      BY <1>15, <2>1, ForgottenChange DEF CompleteFails
  <2>3. Told' = Told /\ UNCHANGED <<ran, erred>>
      BY <1>15, <1>b DEF CompleteFails
  <2>4. holder' = [holder EXCEPT ![k] = holder[k]] /\ holder[k] \in Requests \cup {Nobody}
      BY <1>15, <2>1 DEF CompleteFails, StoreSame, StoreComplete, TypeOK
  <2>5. CASE StoreComplete(k, r)
    <3>1. cached' = [cached EXCEPT ![k] = r]
        BY <2>5 DEF StoreComplete
    <3>2. r \in OfKey(k) /\ r \in (ran' \ erred') \cap OfKey(k)
        BY <2>1, <2>3 DEF OfKey
    <3> QED
        BY <2>1, <2>2, <2>3, <2>4, <3>1, <3>2, DisturbedStep
  <2>6. CASE StoreSame
    <3>1. cached' = [cached EXCEPT ![k] = cached[k]]
        BY <2>1, <2>6 DEF StoreSame, TypeOK
    <3>2. cached[k] \in ((ran' \ erred') \cap OfKey(k)) \cup {Nobody}
        BY <2>1, <2>3 DEF IInv, EntryOK, EmptyOK, TypeOK, OfKey
    <3> QED
        BY <2>1, <2>2, <2>3, <2>4, <3>1, <3>2, DisturbedStep
  <2> QED
      BY <1>15, <2>5, <2>6 DEF CompleteFails
<1>16. ASSUME NEW r \in Requests, Released(r) PROVE Forgotten' = Forgotten
    BY <1>16 DEF Released, Forgotten, IInv, TypeOK
<1>17. ASSUME NEW r \in Requests, ReleaseAfterComplete(r) PROVE Refined
  <2>1. Told' = [Told EXCEPT ![r] = r]
      BY <1>17, ToldChange DEF ReleaseAfterComplete, AnswerWith, IInv
  <2> QED
      BY <1>17, <2>1, <1>11, <1>16 DEF ReleaseAfterComplete, Released
<1>18. ASSUME NEW r \in Requests, ReleaseAfterError(r) PROVE Refined
  <2>1. Told' = Told
      BY <1>18, ToldNothing DEF ReleaseAfterError, Answer, IInv
  <2>2. CASE StoreSame
      BY <1>18, <2>1, <2>2, <1>a, <1>16 DEF ReleaseAfterError, StoreSame
  <2> QED
      BY <1>18, <2>1, <2>2, <1>12 DEF ReleaseAfterError, Released
<1>19. ASSUME NEW r \in Requests, Cancel(r) PROVE Refined
  <2>1. Told' = Told /\ Forgotten' = Forgotten
      BY <1>19, <1>b, <1>c DEF Cancel
  <2>2. CASE StoreSame /\ UNCHANGED <<ran, erred>>
      BY <2>1, <2>2, <1>a DEF StoreSame
  <2>3. CASE pc[r] \in {"plain", "handling"} /\ Runs(r) /\ StoreSame
    <3>1. Once!HasEffect(r) /\ UNCHANGED faults
        BY <1>19, <2>3 DEF Once!HasEffect, Runs, Cancel, IInv, RanOK
    <3> QED
        BY <2>1, <2>3, <3>1, <1>4, <1>9
  <2>4. CASE /\ pc[r] = "completing" /\ StoreComplete(KeyOf[r], r)
             /\ UNCHANGED <<ran, erred>>
      BY <1>19, <2>1, <2>4, <1>10 DEF Cancel
  <2>5. CASE /\ pc[r] \in Releasing /\ StoreRemove(KeyOf[r])
             /\ UNCHANGED <<ran, erred>>
      BY <1>19, <2>1, <2>5, <1>11, <1>12 DEF Cancel, Releasing
  <2> QED
      BY <1>19, <2>2, <2>3, <2>4, <2>5 DEF Cancel
<1>20. ASSUME NEW k \in Keys, Expire(k) PROVE Refined
  <2>1. TypeOK /\ Forgotten' = Forgotten \cup {k}
      BY <1>20, ForgottenChange DEF Expire, IInv
  <2>2. /\ holder' = [holder EXCEPT ![k] = Nobody]
        /\ cached' = [cached EXCEPT ![k] = Nobody]
      BY <1>20 DEF Expire, StoreRemove
  <2>3. Told' = Told /\ UNCHANGED <<ran, erred>>
      BY <1>20, <1>b DEF Expire
  <2> QED
      BY <2>1, <2>2, <2>3, DisturbedStep
<1> HIDE DEF Refined
<1>21. Refined
    BY <1>1, <1>2, <1>3, <1>22, <1>6, <1>7, <1>8, <1>13, <1>14, <1>15, <1>17, <1>18,
       <1>19, <1>20 DEF Next, Handle, Service, Finished
<1> QED
    BY <1>21 DEF Refined

\* The middleware keeps the promise of idempotency keys, whatever is cancelled,
\* fails or runs out: a key is claimed before an effect, a claim is given up only
\* without one or by a request whose service failed, and what was kept is what
\* later requests are told, until the key is forgotten.
THEOREM Refinement == Spec => ImplementsOncePerKey
BY InitRefines, StepRefines, Invariance, PTL
DEF Spec, ImplementsOncePerKey, Once!Spec
================================================================================
