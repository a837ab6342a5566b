------------------------- MODULE CoalescedRetriesProofs ------------------------
(***************************************************************************)
(* Safety of idempotency behind coalescing for every set of attempts, keys *)
(* and workers, with or without failing store calls, for any number of     *)
(* expiries.                                                               *)
(***************************************************************************)
EXTENDS CoalescedRetries, TLAPS

-------------------------------------------------------------------------------
(* The inductive invariant *)

\* What is needed of the two components' types.
OuterTypeOK ==
    /\ map \in [Keys -> Requests \cup {NoFlight}]
    /\ pc \in [Requests -> Outer!Parked \cup Outer!MidPoll]

InnerTypeOK ==
    /\ state \in [Keys -> {Inner!Absent, Inner!InProgress, Inner!Completed}]
    /\ cached \in [Keys -> Requests \cup {Nobody}]
    /\ inner \in [Requests -> Inner!Places]
    /\ reply \in [Requests -> [kind : Inner!Kinds, of : Requests \cup {Nobody}]]
    /\ holder \in [Keys -> Requests \cup {Nobody}]
    /\ faults \in [Keys -> SUBSET {"expired", "complete_failed", "release_failed"}]

\* A leader has the entry of its key in the map: there is one at a time.
LeadOK == \A r \in Requests : pc[r] \in Outer!Leading => map[KeyOf[r]] = r

Idle(r) == inner[r] \in {"new", "done", "dropped"}

\* Only a leader that awaits the wrapped service has an inner future.
LinkOK == \A r \in Requests : ~ Idle(r) => pc[r] = "calling"

\* call() of the inner middleware returns once, at its end, and not with a plain
\* response: every request has the header.
ReplyOK ==
    \A r \in Requests :
        /\ inner[r] # "plain"
        /\ reply[r].kind # "none" => inner[r] = "done"

Fresh(r) == inner[r] \in {"new", "getting"}

\* Who has not acquired holds nothing.
FreshOK ==
    \A r \in Requests : Fresh(r) => \A k \in Keys : holder[k] # r

\* An entry in progress has a holder, of its key.
EntryOK ==
    \A k \in Keys :
        /\ holder[k] # Nobody => KeyOf[holder[k]] = k
        /\ state[k] = Inner!InProgress => holder[k] # Nobody

\* A request that owes the end of its reservation finds no other holder.
OwnOK == \A r \in Requests : Owing(r) => holder[KeyOf[r]] \in {r, Nobody}

\* r is lost with what it has reserved, or the store did not release it.
Lost(r) ==
    \/ inner[r] = "dropped" \/ reply[r].kind = "server_error"
    \/ "release_failed" \in faults[KeyOf[r]]

\* Whoever made a reservation will end it, or is lost.
ReservedOK ==
    \A k \in Keys, r \in Requests :
        state[k] = Inner!InProgress /\ holder[k] = r => Owing(r) \/ Lost(r)

InnerInv ==
    /\ InnerTypeOK /\ ReplyOK /\ FreshOK /\ EntryOK /\ OwnOK /\ ReservedOK
    /\ ConflictNeedsLoss

IInv == OuterTypeOK /\ LeadOK /\ LinkOK /\ InnerInv
-------------------------------------------------------------------------------
(* The steps of the coalescing middleware *)

\* Any step that request r takes in it.
OuterStep(r) == Outer!Arrive(r) \/ Outer!Poll(r) \/ Outer!Service(r) \/ Outer!Cancel(r)

\* It moves r alone, and leaves the map with one leader of a key.
LEMMA OuterStepKeeps ==
    ASSUME OuterTypeOK, LeadOK, NEW r \in Requests, OuterStep(r)
    PROVE  /\ OuterTypeOK' /\ LeadOK'
           /\ \A q \in Requests \ {r} : pc'[q] = pc[q]
<1> USE RetriesAssumption
    DEF OuterTypeOK, LeadOK, Outer!Goto, Outer!Parked, Outer!MidPoll, Outer!Leading,
        Outer!Executing, Outer!Over
<1> DEFINE Kept == /\ OuterTypeOK' /\ LeadOK'
                   /\ \A q \in Requests \ {r} : pc'[q] = pc[q]
<1>1. CASE Outer!BecomeLeader(r)
    BY <1>1 DEF Outer!BecomeLeader
<1>2. CASE Outer!BecomeFollower(r)
    BY <1>2 DEF Outer!BecomeFollower
<1>3. CASE Outer!Service(r)
    BY <1>3 DEF Outer!Service, Outer!ServiceOk, Outer!ServiceErr, Outer!BodyRead
<1>4. CASE Outer!Publish(r) \/ Outer!Notify(r) \/ Outer!DropPublish(r) \/ Outer!DropNotify(r)
    BY <1>4 DEF Outer!Publish, Outer!Notify, Outer!DropPublish, Outer!DropNotify
<1>5. CASE Outer!Remove(r) \/ Outer!DropRemove(r)
    BY <1>5 DEF Outer!Remove, Outer!DropRemove
<1>6. CASE Outer!CheckSettled(r) \/ Outer!CheckPending(r) \/ Outer!Arm(r) \/ Outer!Wake(r)
    BY <1>6 DEF Outer!CheckSettled, Outer!CheckPending, Outer!Arm, Outer!Wake
<1>7. CASE Outer!Cancel(r)
    BY <1>7 DEF Outer!Cancel, Outer!CancelLeader, Outer!CancelFollower
<1> QED
    BY <1>1, <1>2, <1>3, <1>4, <1>5, <1>6, <1>7 DEF OuterStep, Outer!Arrive, Outer!Poll

\* What Coalesce does concerns no request that awaits the wrapped service.
LEMMA CoalesceIsElsewhere ==
    ASSUME NEW r \in Requests, Coalesce(r)
    PROVE  OuterStep(r) /\ pc[r] # "calling" /\ UNCHANGED innerVars
    BY DEF Coalesce, OuterStep, Outer!Arrive, Outer!BecomeLeader, Outer!BecomeFollower,
           Outer!Poll, Outer!Publish, Outer!Notify, Outer!Remove, Outer!DropPublish,
           Outer!DropNotify, Outer!DropRemove, Outer!CheckSettled, Outer!CheckPending,
           Outer!Arm, Outer!Wake, Outer!Cancel, Outer!CancelFollower

-------------------------------------------------------------------------------
(* The steps of the idempotency middleware *)

\* Any step of the inner future of r, its end by cancellation included.
InnerStep(r) == Inner!Handle(r) \/ Inner!Service(r) \/ Inner!Cancel(r)

\* No other attempt with the key of r has an inner future.
Alone(r) == \A q \in Requests \ {r} : KeyOf[q] = KeyOf[r] => Idle(q)

\* A step answers, and is then the last one of r, or it does not.
LEMMA InnerStepKeepsTypes ==
    ASSUME InnerTypeOK, ReplyOK, NEW r \in Requests, InnerStep(r)
    PROVE  /\ InnerTypeOK' /\ ReplyOK'
           /\ \A q \in Requests \ {r} : inner'[q] = inner[q] /\ reply'[q] = reply[q]
           /\ \A k \in Keys : faults[k] \subseteq faults'[k]
           /\ reply[r].kind = "none" /\ inner[r] \notin {"done", "dropped"}
<1> USE RetriesAssumption
    DEF InnerTypeOK, ReplyOK, Inner!Absent, Inner!InProgress, Inner!Completed,
        Inner!Processing, Inner!Releasing, Inner!Places, Inner!Kinds, Inner!Reply,
        Inner!Goto, Inner!Answer, Inner!AnswerWith, Inner!StoreSame,
        Inner!StoreAcquire, Inner!StoreComplete, Inner!StoreRemove
<1>1. KeyOf[r] \in Keys /\ KeyOf[r] # NoKey
    OBVIOUS
<1> DEFINE Kept == /\ InnerTypeOK' /\ ReplyOK'
                   /\ \A q \in Requests \ {r} : inner'[q] = inner[q] /\ reply'[q] = reply[q]
                   /\ \A k \in Keys : faults[k] \subseteq faults'[k]
                   /\ reply[r].kind = "none" /\ inner[r] \notin {"done", "dropped"}
<1>2. CASE Inner!PassThrough(r) \/ Inner!PlainReturns(r)
    BY <1>1, <1>2 DEF Inner!PassThrough, Inner!PlainReturns
<1>3. CASE Inner!AcquireWon(r) \/ Inner!AcquireLost(r)
    BY <1>1, <1>3 DEF Inner!AcquireWon, Inner!AcquireLost
<1>4. CASE Inner!AcquireFails(r)
  <2>1. CASE Inner!StoreSame
      BY <1>1, <1>4, <2>1 DEF Inner!AcquireFails
  <2>2. CASE Inner!StoreAcquire(KeyOf[r], r)
      BY <1>1, <1>4, <2>2 DEF Inner!AcquireFails
  <2> QED
      BY <1>4, <2>1, <2>2 DEF Inner!AcquireFails
<1>5. CASE Inner!Get(r)
  <2>1. PICK kind \in {"replay", "conflict", "server_error"},
             whose \in {cached[KeyOf[r]], Nobody} :
          reply' = [reply EXCEPT ![r] = [kind |-> kind, of |-> whose]]
      BY <1>5 DEF Inner!Get
  <2> QED
      BY <1>1, <1>5, <2>1 DEF Inner!Get
<1>6. CASE Inner!ServiceOk(r) \/ Inner!ServiceErr(r) \/ Inner!BodyRead(r) \/ Inner!BodyFails(r)
    BY <1>1, <1>6 DEF Inner!ServiceOk, Inner!ServiceErr, Inner!BodyRead, Inner!BodyFails,
                      Inner!Runs, Inner!RefusedOrErrs
<1>7. CASE Inner!Complete(r)
    BY <1>1, <1>7 DEF Inner!Complete
<1>8. CASE Inner!CompleteFails(r)
  <2>1. CASE Inner!StoreSame
      BY <1>1, <1>8, <2>1 DEF Inner!CompleteFails
  <2>2. CASE Inner!StoreComplete(KeyOf[r], r)
      BY <1>1, <1>8, <2>2 DEF Inner!CompleteFails
  <2> QED
      BY <1>8, <2>1, <2>2 DEF Inner!CompleteFails
<1>9. CASE Inner!ReleaseAfterComplete(r) \/ Inner!ReleaseAfterError(r)
  <2>1. CASE Inner!StoreRemove(KeyOf[r]) /\ UNCHANGED faults
    <3>1. CASE Inner!ReleaseAfterComplete(r)
        BY <1>1, <2>1, <3>1 DEF Inner!ReleaseAfterComplete
    <3>2. CASE Inner!ReleaseAfterError(r)
        BY <1>1, <2>1, <3>2 DEF Inner!ReleaseAfterError
    <3> QED
        BY <1>9, <3>1, <3>2
  <2>2. CASE Inner!StoreSame
             /\ faults' = [faults EXCEPT ![KeyOf[r]] = @ \cup {"release_failed"}]
      BY <1>1, <1>9, <2>2 DEF Inner!ReleaseAfterComplete, Inner!ReleaseAfterError
  <2> QED
      BY <1>9, <2>1, <2>2
         DEF Inner!ReleaseAfterComplete, Inner!ReleaseAfterError, Inner!Released
<1>10. CASE Inner!Cancel(r)
  <2>1. CASE Inner!StoreSame
      BY <1>1, <1>10, <2>1 DEF Inner!Cancel
  <2>2. CASE Inner!StoreComplete(KeyOf[r], r)
      BY <1>1, <1>10, <2>2 DEF Inner!Cancel
  <2>3. CASE Inner!StoreRemove(KeyOf[r])
      BY <1>1, <1>10, <2>3 DEF Inner!Cancel
  <2> QED
      BY <1>10, <2>1, <2>2, <2>3 DEF Inner!Cancel
<1> QED
    BY <1>2, <1>3, <1>4, <1>5, <1>6, <1>7, <1>8, <1>9, <1>10
       DEF InnerStep, Inner!Handle, Inner!Service

\* The four things a step of r does to the store: nothing (what r owes it still
\* owes, or has lost), a reservation of a free key, a completion, a removal.
LeavesStore(r) ==
    /\ Inner!StoreSame
    /\ Owing(r) => Owing(r)' \/ Lost(r)'
    /\ Owing(r)' => Owing(r)
    /\ Fresh(r)' => Fresh(r)

Reserves(r) ==
    /\ Inner!StoreAcquire(KeyOf[r], r)
    /\ Owing(r)' \/ Lost(r)'
    /\ ~ Fresh(r)'

Completes(r) ==
    /\ Owing(r) /\ ~ Fresh(r)'
    /\ Inner!StoreComplete(KeyOf[r], r)

Removes(r) ==
    /\ ~ Owing(r)' /\ ~ Fresh(r)'
    /\ Inner!StoreRemove(KeyOf[r])

LEMMA StoreEffects ==
    ASSUME InnerTypeOK, ReplyOK, NEW r \in Requests, InnerStep(r)
    PROVE  LeavesStore(r) \/ Reserves(r) \/ Completes(r) \/ Removes(r)
<1> USE RetriesAssumption
    DEF InnerTypeOK, ReplyOK, Owing, Fresh, Lost, Inner!Processing, Inner!Releasing,
        Inner!Places, Inner!Reply, Inner!Goto, Inner!Answer, Inner!AnswerWith
<1>1. KeyOf[r] \in Keys /\ KeyOf[r] # NoKey
    OBVIOUS
<1>2. CASE Inner!PassThrough(r) \/ Inner!PlainReturns(r)
    BY <1>1, <1>2 DEF Inner!PassThrough, Inner!PlainReturns
<1>3. CASE Inner!AcquireWon(r)
    BY <1>3 DEF Inner!AcquireWon, Reserves
<1>4. CASE Inner!AcquireLost(r)
    BY <1>4 DEF Inner!AcquireLost, LeavesStore
<1>5. CASE Inner!AcquireFails(r)
    BY <1>5 DEF Inner!AcquireFails, LeavesStore, Reserves
<1>6. CASE Inner!Get(r)
  <2>1. inner' = [inner EXCEPT ![r] = "done"] /\ inner[r] = "getting" /\ Inner!StoreSame
      BY <1>6 DEF Inner!Get
  <2> QED
      BY <2>1 DEF LeavesStore
<1>7. CASE Inner!ServiceOk(r) \/ Inner!ServiceErr(r) \/ Inner!BodyRead(r) \/ Inner!BodyFails(r)
    BY <1>7 DEF Inner!ServiceOk, Inner!ServiceErr, Inner!BodyRead, Inner!BodyFails,
                LeavesStore
<1>8. CASE Inner!Complete(r) \/ Inner!CompleteFails(r)
    BY <1>8 DEF Inner!Complete, Inner!CompleteFails, LeavesStore, Completes
<1>9. CASE Inner!ReleaseAfterComplete(r) \/ Inner!ReleaseAfterError(r)
  <2>1. inner' = [inner EXCEPT ![r] = "done"]
      BY <1>9 DEF Inner!ReleaseAfterComplete, Inner!ReleaseAfterError
  <2>2. CASE Inner!StoreRemove(KeyOf[r])
      BY <2>1, <2>2 DEF Removes
  <2>3. CASE Inner!StoreSame
             /\ faults' = [faults EXCEPT ![KeyOf[r]] = @ \cup {"release_failed"}]
    <3>1. "release_failed" \in faults'[KeyOf[r]]
        BY <1>1, <2>3
    <3> QED
        BY <2>1, <2>3, <3>1 DEF LeavesStore
  <2> QED
      BY <1>9, <2>2, <2>3
         DEF Inner!ReleaseAfterComplete, Inner!ReleaseAfterError, Inner!Released
<1>10. CASE Inner!Cancel(r)
    BY <1>10 DEF Inner!Cancel, LeavesStore, Completes, Removes
<1> QED
    BY <1>2, <1>3, <1>4, <1>5, <1>6, <1>7, <1>8, <1>9, <1>10
       DEF InnerStep, Inner!Handle, Inner!Service

\* What an attempt has lost stays lost: it takes no further step.
LEMMA LossStays ==
    ASSUME InnerTypeOK, ReplyOK, NEW r \in Requests, InnerStep(r), NEW q \in Requests
    PROVE  /\ Lost(q) => Lost(q)'
           /\ q # r => (Owing(q)' <=> Owing(q)) /\ (Fresh(q)' <=> Fresh(q))
<1>1. KeyOf[q] \in Keys
    BY RetriesAssumption
<1> QED
    BY <1>1, InnerStepKeepsTypes DEF Lost, Owing, Fresh

\* As long as r is the only attempt of its key in the inner middleware, nobody's
\* reservation but its own is under its hands.
LEMMA InnerStepKeepsOwners ==
    ASSUME InnerTypeOK, ReplyOK, FreshOK, EntryOK, OwnOK, ReservedOK,
           NEW r \in Requests, Alone(r), InnerStep(r)
    PROVE  FreshOK' /\ EntryOK' /\ OwnOK' /\ ReservedOK'
<1>1. /\ KeyOf[r] \in Keys /\ \A q \in Requests : KeyOf[q] \in Keys
      /\ Nobody \notin Requests /\ InnerTypeOK'
    BY InnerStepKeepsTypes, RetriesAssumption
<1>2. \A q \in Requests : Lost(q) => Lost(q)'
    BY LossStays
<1>3. \A q \in Requests \ {r} : (Owing(q)' <=> Owing(q)) /\ (Fresh(q)' <=> Fresh(q))
    BY LossStays
<1>4. \A q \in Requests \ {r} : KeyOf[q] = KeyOf[r] => ~ Owing(q)
    BY DEF Alone, Idle, Owing, Inner!Processing, Inner!Releasing
<1> DEFINE Kept == FreshOK' /\ EntryOK' /\ OwnOK' /\ ReservedOK'
<1> USE DEF InnerTypeOK, FreshOK, EntryOK, OwnOK, ReservedOK, Inner!Absent,
            Inner!InProgress, Inner!Completed
<1> HIDE DEF Owing, Fresh, Lost
<1>5. CASE LeavesStore(r)
    BY <1>1, <1>2, <1>3, <1>5 DEF LeavesStore, Inner!StoreSame
<1>6. CASE Reserves(r)
    BY <1>1, <1>2, <1>3, <1>4, <1>6 DEF Reserves, Inner!StoreAcquire
<1>7. CASE Completes(r)
    BY <1>1, <1>2, <1>3, <1>4, <1>7 DEF Completes, Inner!StoreComplete
<1>8. CASE Removes(r)
    BY <1>1, <1>2, <1>3, <1>4, <1>8 DEF Removes, Inner!StoreRemove
<1> QED
    BY <1>5, <1>6, <1>7, <1>8, StoreEffects

\* A new 409 comes of a reservation in progress, and its holder is another request:
\* one that owes its end would not be idle, so it is lost.
LEMMA ConflictStep ==
    ASSUME InnerTypeOK, ReplyOK, FreshOK, EntryOK, ReservedOK, ConflictNeedsLoss,
           NEW r \in Requests, Alone(r), InnerStep(r)
    PROVE  ConflictNeedsLoss'
<1> DEFINE Settled(p) == \/ "release_failed" \in faults[KeyOf[p]]
                         \/ \E q \in Requests \ {p} : KeyOf[q] = KeyOf[p] /\ Lost(q)
<1>1. /\ \A p \in Requests : reply[p].kind = "conflict" => Settled(p)
      /\ (\A p \in Requests : reply'[p].kind = "conflict" => Settled(p)') => ConflictNeedsLoss'
    BY DEF ConflictNeedsLoss, Lost
<1>2. ASSUME NEW p \in Requests, Settled(p) PROVE Settled(p)'
  <2>1. faults[KeyOf[p]] \subseteq faults'[KeyOf[p]]
      BY InnerStepKeepsTypes, RetriesAssumption
  <2>2. \A q \in Requests : Lost(q) => Lost(q)'
      BY LossStays
  <2> QED
      BY <1>2, <2>1, <2>2
<1>3. ASSUME NEW p \in Requests, reply'[p].kind = "conflict" PROVE Settled(p)'
  <2>1. CASE p # r
    <3>1. reply'[p] = reply[p]
        BY <2>1, InnerStepKeepsTypes
    <3> QED
        BY <1>1, <1>2, <1>3, <3>1
  <2>2. CASE p = r
    <3>1. Inner!Get(r)
        BY <1>3, <2>2, InnerStepKeepsTypes
           DEF InnerStep, InnerTypeOK, Inner!Handle, Inner!Service, Inner!Cancel,
               Inner!PassThrough, Inner!PlainReturns, Inner!AcquireWon,
               Inner!AcquireLost, Inner!AcquireFails, Inner!Complete,
               Inner!CompleteFails, Inner!ReleaseAfterComplete,
               Inner!ReleaseAfterError, Inner!ServiceOk, Inner!ServiceErr,
               Inner!BodyRead, Inner!BodyFails, Inner!Answer, Inner!AnswerWith,
               Inner!Reply
    <3>2. KeyOf[r] \in Keys /\ inner[r] = "getting" /\ state[KeyOf[r]] = Inner!InProgress
      <4>1. reply \in [Requests -> [kind : Inner!Kinds, of : Requests \cup {Nobody}]]
          BY DEF InnerTypeOK
      <4> QED
          BY <1>3, <2>2, <3>1, <4>1, RetriesAssumption
             DEF Inner!Get, Inner!Answer, Inner!AnswerWith, Inner!Reply
    <3>3. PICK q \in Requests : q = holder[KeyOf[r]]
        BY <3>2 DEF EntryOK, InnerTypeOK
    <3>4. KeyOf[q] = KeyOf[r] /\ q # r
        BY <3>2, <3>3, RetriesAssumption DEF EntryOK, FreshOK, Fresh
    <3>5. ~ Owing(q)
        BY <3>4 DEF Alone, Idle, Owing, Inner!Processing, Inner!Releasing
    <3>6. Lost(q)
        BY <3>2, <3>3, <3>5 DEF ReservedOK
    <3>7. Settled(r)
        BY <3>4, <3>6
    <3> QED
        BY <1>2, <2>2, <3>7
  <2> QED
      BY <2>1, <2>2
<1> QED
    BY <1>1, <1>3

\* An entry that runs out takes its holder with it, and answers nobody.
LEMMA ExpireKeeps ==
    ASSUME InnerInv, NEW k \in Keys, Inner!Expire(k)
    PROVE  InnerInv'
<1>1. /\ inner' = inner /\ reply' = reply
      /\ state' = [state EXCEPT ![k] = Inner!Absent]
      /\ cached' = [cached EXCEPT ![k] = Nobody]
      /\ holder' = [holder EXCEPT ![k] = Nobody]
      /\ faults' = [faults EXCEPT ![k] = @ \cup {"expired"}]
    BY DEF Inner!Expire, Inner!StoreRemove
<1>2. InnerTypeOK /\ \A r \in Requests : KeyOf[r] \in Keys
    BY RetriesAssumption DEF InnerInv
<1>3. InnerTypeOK' /\ ReplyOK'
    BY <1>1, <1>2 DEF InnerInv, InnerTypeOK, ReplyOK
<1>4. \A r \in Requests : /\ Owing(r)' <=> Owing(r)
                          /\ Fresh(r)' <=> Fresh(r)
                          /\ Lost(r) => Lost(r)'
                          /\ "release_failed" \in faults[KeyOf[r]] =>
                               "release_failed" \in faults'[KeyOf[r]]
    BY <1>1, <1>2 DEF Owing, Fresh, Lost, InnerTypeOK
<1>5. FreshOK' /\ EntryOK' /\ OwnOK' /\ ReservedOK'
    BY <1>1, <1>2, <1>4, RetriesAssumption
       DEF InnerInv, InnerTypeOK, FreshOK, EntryOK, OwnOK, ReservedOK, Inner!Absent,
           Inner!InProgress
<1>6. ConflictNeedsLoss'
    BY <1>1, <1>2, <1>4 DEF InnerInv, ConflictNeedsLoss
<1> QED
    BY <1>3, <1>5, <1>6 DEF InnerInv

-------------------------------------------------------------------------------
(* The composition *)

\* One leader of a key at a time, and only leaders have an inner future.
LEMMA OneAtATime ==
    ASSUME LeadOK, LinkOK
    PROVE  /\ \A r, q \in Requests : ~ Idle(r) /\ ~ Idle(q) /\ KeyOf[r] = KeyOf[q] => r = q
           /\ \A r \in Requests : pc[r] = "calling" => Alone(r)
<1>1. \A r \in Requests : pc[r] = "calling" => map[KeyOf[r]] = r
    BY DEF LeadOK, Outer!Leading
<1> QED
    BY <1>1 DEF LinkOK, Alone

LEMMA InnerStepKeeps ==
    ASSUME InnerInv, NEW r \in Requests, Alone(r), InnerStep(r)
    PROVE  InnerInv'
    BY InnerStepKeepsTypes, InnerStepKeepsOwners, ConflictStep DEF InnerInv

LEMMA InitHolds == Init => IInv
<1> SUFFICES ASSUME Init PROVE IInv
    OBVIOUS
<1>1. Outer!Init /\ Inner!Init
    BY DEF Init
<1>2. OuterTypeOK /\ LeadOK
    BY <1>1 DEF Outer!Init, OuterTypeOK, LeadOK, Outer!Parked, Outer!Leading
<1>3. InnerTypeOK
    BY <1>1 DEF Inner!Init, InnerTypeOK, Inner!Places, Inner!Kinds, Inner!Reply
<1>4. /\ \A r \in Requests : inner[r] = "new" /\ reply[r].kind = "none"
      /\ \A k \in Keys : holder[k] = Nobody /\ state[k] = Inner!Absent
    BY <1>1 DEF Inner!Init, Inner!Reply
<1>5. LinkOK /\ ReplyOK /\ OwnOK /\ ConflictNeedsLoss
    BY <1>4 DEF LinkOK, Idle, ReplyOK, OwnOK, Owing, Inner!Processing, Inner!Releasing,
                ConflictNeedsLoss
<1>6. FreshOK /\ EntryOK /\ ReservedOK
    BY <1>4, RetriesAssumption
       DEF FreshOK, EntryOK, ReservedOK, Inner!Absent, Inner!InProgress
<1> QED
    BY <1>2, <1>3, <1>5, <1>6 DEF IInv, InnerInv

LEMMA StepHolds == IInv /\ [Next]_vars => IInv'
<1> SUFFICES ASSUME IInv, [Next]_vars PROVE IInv'
    OBVIOUS
<1>1. OuterTypeOK /\ LeadOK /\ LinkOK /\ InnerInv /\ InnerTypeOK /\ ReplyOK
    BY DEF IInv, InnerInv
<1>2. ASSUME UNCHANGED outerVars PROVE OuterTypeOK' /\ LeadOK'
    BY <1>1, <1>2 DEF outerVars, OuterTypeOK, LeadOK
<1>3. ASSUME UNCHANGED innerVars
      PROVE  /\ InnerInv' /\ \A r \in Requests : Idle(r)' <=> Idle(r)
    BY <1>1, <1>3
       DEF innerVars, InnerInv, InnerTypeOK, ReplyOK, FreshOK, Fresh, EntryOK, OwnOK,
           Owing, ReservedOK, Lost, ConflictNeedsLoss, Idle
<1>4. ASSUME NEW r \in Requests, Coalesce(r) PROVE IInv'
  <2>1. OuterStep(r) /\ pc[r] # "calling" /\ UNCHANGED innerVars
      BY <1>4, CoalesceIsElsewhere
  <2>2. OuterTypeOK' /\ LeadOK' /\ \A q \in Requests \ {r} : pc'[q] = pc[q]
      BY <1>1, <2>1, OuterStepKeeps
  <2>3. LinkOK'
      BY <1>1, <1>3, <2>1, <2>2 DEF LinkOK
  <2> QED
      BY <1>3, <2>1, <2>2, <2>3 DEF IInv
<1>5. ASSUME NEW r \in Requests, pc[r] = "calling", InnerStep(r)
      PROVE  /\ InnerInv'
             /\ \A q \in Requests \ {r} : Idle(q)' <=> Idle(q)
             /\ ~ Pending(r) => Idle(r)'
  <2>1. InnerInv'
      BY <1>1, <1>5, OneAtATime, InnerStepKeeps
  <2>2. \A q \in Requests \ {r} : Idle(q)' <=> Idle(q)
      BY <1>1, <1>5, InnerStepKeepsTypes DEF Idle
  <2>3. ~ Pending(r) => Idle(r)'
      BY <2>1 DEF Pending, Idle, InnerInv, ReplyOK
  <2> QED
      BY <2>1, <2>2, <2>3
<1>6. ASSUME NEW r \in Requests, Process(r) PROVE IInv'
  <2>1. pc[r] = "calling" /\ InnerStep(r) /\ UNCHANGED outerVars /\ pc' = pc
      BY <1>6 DEF Process, Calls, InnerStep, outerVars
  <2>2. LinkOK'
      BY <1>1, <1>5, <2>1 DEF LinkOK
  <2> QED
      BY <1>2, <1>5, <2>1, <2>2 DEF IInv
<1>7. ASSUME NEW r \in Requests, ProcessedOk(r) \/ ProcessedErr(r) PROVE IInv'
  <2>1. pc[r] = "calling" /\ InnerStep(r) /\ OuterStep(r) /\ ~ Pending(r)
      BY <1>7 DEF ProcessedOk, ProcessedErr, Calls, InnerStep, OuterStep, Outer!Service,
                  Pending
  <2>2. OuterTypeOK' /\ LeadOK' /\ \A q \in Requests \ {r} : pc'[q] = pc[q]
      BY <1>1, <2>1, OuterStepKeeps
  <2>3. LinkOK'
      BY <1>1, <1>5, <2>1, <2>2 DEF LinkOK
  <2> QED
      BY <1>5, <2>1, <2>2, <2>3 DEF IInv
<1>8. ASSUME NEW r \in Requests, Buffer(r) PROVE IInv'
  <2>1. OuterStep(r) /\ pc[r] # "calling" /\ UNCHANGED innerVars
      BY <1>8 DEF Buffer, OuterStep, Outer!Service, Outer!BodyRead
  <2>2. OuterTypeOK' /\ LeadOK' /\ \A q \in Requests \ {r} : pc'[q] = pc[q]
      BY <1>1, <2>1, OuterStepKeeps
  <2>3. LinkOK'
      BY <1>1, <1>3, <2>1, <2>2 DEF LinkOK
  <2> QED
      BY <1>3, <2>1, <2>2, <2>3 DEF IInv
<1>9. ASSUME NEW r \in Requests, DropLeader(r) PROVE IInv'
  <2>1. OuterStep(r)
      BY <1>9 DEF DropLeader, OuterStep, Outer!Cancel
  <2>2. OuterTypeOK' /\ LeadOK' /\ \A q \in Requests \ {r} : pc'[q] = pc[q]
      BY <1>1, <2>1, OuterStepKeeps
  <2>3. CASE inner[r] \in {"new", "done"} /\ UNCHANGED innerVars
    <3>1. LinkOK'
        BY <1>1, <1>3, <2>2, <2>3 DEF LinkOK, Idle
    <3> QED
        BY <1>3, <2>2, <2>3, <3>1 DEF IInv
  <2>4. CASE inner[r] \notin {"new", "done"} /\ Inner!Cancel(r)
    <3>1. InnerStep(r) /\ inner'[r] = "dropped"
        BY <1>1, <2>4 DEF InnerStep, Inner!Cancel, Inner!Goto, InnerTypeOK
    <3>2. pc[r] = "calling"
        BY <1>1, <2>4 DEF LinkOK, Idle, Inner!Cancel
    <3>3. LinkOK'
        BY <1>1, <1>5, <2>2, <3>1, <3>2 DEF LinkOK, Idle
    <3> QED
        BY <1>5, <2>2, <3>1, <3>2, <3>3 DEF IInv
  <2> QED
      BY <1>9, <2>3, <2>4 DEF DropLeader
<1>10. ASSUME NEW k \in Keys, Expire(k) PROVE IInv'
  <2>1. InnerInv' /\ inner' = inner /\ pc' = pc /\ UNCHANGED outerVars
      BY <1>1, <1>10, ExpireKeeps DEF Expire, Inner!Expire, outerVars
  <2>2. LinkOK'
      BY <1>1, <2>1 DEF LinkOK, Idle
  <2> QED
      BY <1>2, <2>1, <2>2 DEF IInv
<1>11. CASE UNCHANGED vars
  <2>1. UNCHANGED outerVars /\ UNCHANGED innerVars /\ pc' = pc
      BY <1>11 DEF vars, outerVars
  <2>2. LinkOK'
      BY <1>1, <1>3, <2>1 DEF LinkOK
  <2> QED
      BY <1>2, <1>3, <2>1, <2>2 DEF IInv
<1> QED
    BY <1>4, <1>6, <1>7, <1>8, <1>9, <1>10, <1>11 DEF Next, Finished

LEMMA Invariance == Spec => []IInv
    BY InitHolds, StepHolds, PTL DEF Spec

\* For every number of attempts and expiries: behind coalescing no two attempts of
\* a key are processed at a time, and none meets the reservation of another.
THEOREM Exclusion == Spec => []ExclusiveAlways
<1>1. IInv => ExclusiveAlways
  <2> SUFFICES ASSUME IInv, NEW r \in Requests, Owing(r)
               PROVE  /\ holder[KeyOf[r]] \in {r, Nobody}
                      /\ \A q \in Requests \ {r} : KeyOf[q] = KeyOf[r] => ~ Owing(q)
      BY DEF ExclusiveAlways
  <2>1. \A q \in Requests : Owing(q) => ~ Idle(q)
      BY DEF Owing, Idle, Inner!Processing, Inner!Releasing
  <2>2. \A q \in Requests \ {r} : KeyOf[q] = KeyOf[r] => ~ Owing(q)
      BY <2>1, OneAtATime DEF IInv
  <2> QED
      BY <2>2 DEF IInv, InnerInv, OwnOK
<1> QED
    BY <1>1, Invariance, PTL

\* For every number of attempts and expiries: a 409 is the sign of a loss.
THEOREM ConflictsAreLosses == Spec => []ConflictNeedsLoss
    BY Invariance, PTL DEF IInv, InnerInv

-------------------------------------------------------------------------------
(* Both components run as they do alone *)

\* Every behaviour of the composition is one of coalescing: what its service does
\* is what the inner middleware makes of it.
THEOREM CoalescingIsKept == Spec => Outer!Spec
<1>1. Init => Outer!Init
    BY DEF Init
<1>2. ASSUME NEW r \in Requests,
             \/ Coalesce(r) \/ Process(r) \/ ProcessedOk(r) \/ ProcessedErr(r)
             \/ Buffer(r) \/ DropLeader(r)
      PROVE  OuterStep(r) \/ UNCHANGED Outer!vars
    BY <1>2 DEF Coalesce, Process, ProcessedOk, ProcessedErr, Buffer, DropLeader,
                OuterStep, Outer!Service, Outer!Cancel, outerVars, Outer!vars
<1>3. ASSUME NEW k \in Keys, Expire(k) PROVE UNCHANGED Outer!vars
    BY <1>3 DEF Expire, outerVars, Outer!vars
<1>4. UNCHANGED vars => UNCHANGED Outer!vars
    BY DEF vars, outerVars, Outer!vars
<1>5. [Next]_vars => [Outer!Next]_(Outer!vars)
    BY <1>2, <1>3, <1>4 DEF Next, Finished, OuterStep, Outer!Next
<1> QED
    BY <1>1, <1>5, PTL DEF Spec, Outer!Spec

\* Every behaviour of the composition is one of the idempotency middleware: all
\* that is known of it alone, whatever the retries do, holds behind coalescing.
THEOREM IdempotencyIsKept == Spec => Inner!Spec
<1>1. Init => Inner!Init
    BY DEF Init
<1>2. ASSUME NEW r \in Requests,
             \/ Coalesce(r) \/ Process(r) \/ ProcessedOk(r) \/ ProcessedErr(r)
             \/ Buffer(r) \/ DropLeader(r)
      PROVE  InnerStep(r) \/ UNCHANGED Inner!vars
    BY <1>2 DEF Coalesce, Process, ProcessedOk, ProcessedErr, Buffer, DropLeader,
                InnerStep, innerVars, Inner!vars
<1>3. ASSUME NEW k \in Keys, Expire(k) PROVE Inner!Expire(k)
    BY <1>3 DEF Expire
<1>4. UNCHANGED vars => UNCHANGED Inner!vars
    BY DEF vars, innerVars, Inner!vars
<1>5. [Next]_vars => [Inner!Next]_(Inner!vars)
    BY <1>2, <1>3, <1>4 DEF Next, Finished, InnerStep, Inner!Next
<1> QED
    BY <1>1, <1>5, PTL DEF Spec, Inner!Spec
================================================================================
