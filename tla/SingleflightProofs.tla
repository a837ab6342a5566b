-------------------------- MODULE SingleflightProofs --------------------------
(***************************************************************************)
(* Safety of request coalescing for every set of requests, keys and        *)
(* workers, every key function and every placement of requests on workers. *)
(***************************************************************************)
EXTENDS Singleflight, TLAPS

\* A worker is in the middle of at most one poll.
OnePollPerWorker ==
    \A r, q \in Requests :
        /\ r # q /\ WorkerOf[r] = WorkerOf[q]
        /\ pc[r] \in MidPoll
        => pc[q] \notin MidPoll

\* A leader leads its own flight; a follower's flight is another request's, of
\* the same key, and that request leads or has led it.
FlightsOK ==
    \A r \in Requests :
        /\ pc[r] = "new" => flight[r] = NoFlight
        /\ pc[r] # "new" => /\ flight[r] \in Requests
                            /\ KeyOf[flight[r]] = KeyOf[r]
                            /\ flight[flight[r]] = flight[r]
                            /\ pc[flight[r]] \in Leading \cup Over
        /\ pc[r] \in Leading => flight[r] = r
        /\ pc[r] \in {"check", "arm", "waiting"} => flight[r] # r

\* A leader's entry stays in the map until the leader takes it out.
LeaderInMap ==
    \A r \in Requests : pc[r] \in Leading => map[KeyOf[r]] = r

\* What the slot of a flight holds, by the place of its leader.
SlotOK ==
    \A r \in Requests :
        /\ result[r] # "pending" =>
             (result[r] = "ok") <=> (coalesced[r] = "ok")
        /\ pc[r] \in {"calling", "buffering", "drop_publish"} =>
             result[r] = "pending" /\ coalesced[r] = "pending"
        /\ pc[r] = "publish" => result[r] = "pending" /\ coalesced[r] # "pending"
        /\ pc[r] \in {"notify", "remove"} => result[r] # "pending"
        /\ pc[r] \in {"drop_notify", "drop_remove"} =>
             result[r] = "err" /\ coalesced[r] = "pending"
        /\ pc[r] \in Over /\ flight[r] = r => result[r] # "pending"
        /\ pc[r] \in {"new", "check", "arm", "waiting"} =>
             result[r] = "pending" /\ coalesced[r] = "pending" /\ answer[r] = "none"

\* A follower is answered only once its flight is settled.
AnswersOK ==
    \A r \in Requests :
        answer[r] # "none" => /\ pc[r] = "done"
                              /\ result[flight[r]] # "pending"

\* A follower about to park on a flight led on its own worker does so while
\* that leader still waits for the service.
ArmsInTime ==
    \A r \in Requests :
        /\ pc[r] = "arm"
        /\ WorkerOf[r] = WorkerOf[flight[r]]
        => pc[flight[r]] \in Executing

\* The inductive invariant.
IInv ==
    /\ TypeOK
    /\ OnePollPerWorker
    /\ FlightsOK
    /\ LeaderInMap
    /\ MapHoldsOpenFlight
    /\ SlotOK
    /\ AnswersOK
    /\ FollowersShareOutcome
    /\ ArmsInTime
    /\ LostWakeupOnlyAcrossWorkers


LEMMA TypeStep ==
    ASSUME TypeOK, [Next]_vars
    PROVE  TypeOK'
<1> USE RequestAssumption DEF TypeOK, Parked, MidPoll, Answers, Goto
<1>1. ASSUME UNCHANGED vars PROVE TypeOK'
    BY <1>1 DEF vars
<1>2. ASSUME NEW r \in Requests, Arrive(r) PROVE TypeOK'
    BY <1>2 DEF Arrive, BecomeLeader, BecomeFollower
<1>3. ASSUME NEW r \in Requests, Service(r) PROVE TypeOK'
    BY <1>3 DEF Service, ServiceOk, ServiceErr, BodyRead
<1>4. ASSUME NEW r \in Requests, Poll(r) PROVE TypeOK'
    BY <1>4 DEF Poll, Publish, Notify, Remove, DropPublish, DropNotify, DropRemove,
              CheckSettled, CheckPending, Arm, Wake
<1>5. ASSUME NEW r \in Requests, Cancel(r) PROVE TypeOK'
    BY <1>5 DEF Cancel, CancelLeader, CancelFollower
<1> QED
    BY <1>1, <1>2, <1>3, <1>4, <1>5 DEF Next, Finished

\* Every step into a poll waits for the worker to be free.
LEMMA OnePollStep ==
    ASSUME TypeOK, OnePollPerWorker, [Next]_vars
    PROVE  OnePollPerWorker'
<1> USE RequestAssumption
    DEF TypeOK, Parked, MidPoll, Leading, Executing, Over, Goto,
        OnePollPerWorker, WorkerFree
<1>1. ASSUME UNCHANGED vars PROVE OnePollPerWorker'
    BY <1>1 DEF vars
<1>2. ASSUME NEW r \in Requests, Arrive(r) PROVE OnePollPerWorker'
    BY <1>2 DEF Arrive, BecomeLeader, BecomeFollower
<1>3. ASSUME NEW r \in Requests, Service(r) PROVE OnePollPerWorker'
    BY <1>3 DEF Service, ServiceOk, ServiceErr, BodyRead
<1>4. ASSUME NEW r \in Requests, Poll(r) PROVE OnePollPerWorker'
    BY <1>4 DEF Poll, Publish, Notify, Remove, DropPublish, DropNotify, DropRemove,
              CheckSettled, CheckPending, Arm, Wake
<1>5. ASSUME NEW r \in Requests, Cancel(r) PROVE OnePollPerWorker'
    BY <1>5 DEF Cancel, CancelLeader, CancelFollower
<1> QED
    BY <1>1, <1>2, <1>3, <1>4, <1>5 DEF Next, Finished

\* A follower takes its flight from the map.
LEMMA FlightsStep ==
    ASSUME TypeOK, FlightsOK, MapHoldsOpenFlight, [Next]_vars
    PROVE  FlightsOK'
<1> USE RequestAssumption
    DEF TypeOK, Parked, MidPoll, Leading, Executing, Over, Goto,
        FlightsOK, MapHoldsOpenFlight
<1>1. ASSUME UNCHANGED vars PROVE FlightsOK'
    BY <1>1 DEF vars
<1>2. ASSUME NEW r \in Requests, Arrive(r) PROVE FlightsOK'
    BY <1>2 DEF Arrive, BecomeLeader, BecomeFollower
<1>3. ASSUME NEW r \in Requests, Service(r) PROVE FlightsOK'
    BY <1>3 DEF Service, ServiceOk, ServiceErr, BodyRead
<1>4. ASSUME NEW r \in Requests, Poll(r) PROVE FlightsOK'
    BY <1>4 DEF Poll, Publish, Notify, Remove, DropPublish, DropNotify, DropRemove,
              CheckSettled, CheckPending, Arm, Wake
<1>5. ASSUME NEW r \in Requests, Cancel(r) PROVE FlightsOK'
    BY <1>5 DEF Cancel, CancelLeader, CancelFollower
<1> QED
    BY <1>1, <1>2, <1>3, <1>4, <1>5 DEF Next, Finished

\* Two leaders of one key would have the same entry.
LEMMA LeaderInMapStep ==
    ASSUME TypeOK, LeaderInMap, MapHoldsOpenFlight, FlightsOK, [Next]_vars
    PROVE  LeaderInMap'
<1> USE RequestAssumption
    DEF TypeOK, Parked, MidPoll, Leading, Executing, Over, Goto,
        LeaderInMap, MapHoldsOpenFlight, FlightsOK
<1>1. ASSUME UNCHANGED vars PROVE LeaderInMap'
    BY <1>1 DEF vars
<1>2. ASSUME NEW r \in Requests, Arrive(r) PROVE LeaderInMap'
    BY <1>2 DEF Arrive, BecomeLeader, BecomeFollower
<1>3. ASSUME NEW r \in Requests, Service(r) PROVE LeaderInMap'
    BY <1>3 DEF Service, ServiceOk, ServiceErr, BodyRead
<1>4. ASSUME NEW r \in Requests, Poll(r) PROVE LeaderInMap'
    BY <1>4 DEF Poll, Publish, Notify, Remove, DropPublish, DropNotify, DropRemove,
              CheckSettled, CheckPending, Arm, Wake
<1>5. ASSUME NEW r \in Requests, Cancel(r) PROVE LeaderInMap'
    BY <1>5 DEF Cancel, CancelLeader, CancelFollower
<1> QED
    BY <1>1, <1>2, <1>3, <1>4, <1>5 DEF Next, Finished

\* A leader ends only in the step that removes its entry.
LEMMA MapStep ==
    ASSUME TypeOK, MapHoldsOpenFlight, LeaderInMap, FlightsOK, [Next]_vars
    PROVE  MapHoldsOpenFlight'
<1> USE RequestAssumption
    DEF TypeOK, Parked, MidPoll, Leading, Executing, Over, Goto,
        LeaderInMap, MapHoldsOpenFlight, FlightsOK
<1>1. ASSUME UNCHANGED vars PROVE MapHoldsOpenFlight'
    BY <1>1 DEF vars
<1>2. ASSUME NEW r \in Requests, Arrive(r) PROVE MapHoldsOpenFlight'
    BY <1>2 DEF Arrive, BecomeLeader, BecomeFollower
<1>3. ASSUME NEW r \in Requests, Service(r) PROVE MapHoldsOpenFlight'
    BY <1>3 DEF Service, ServiceOk, ServiceErr, BodyRead
<1>4. ASSUME NEW r \in Requests, Poll(r) PROVE MapHoldsOpenFlight'
    BY <1>4 DEF Poll, Publish, Notify, Remove, DropPublish, DropNotify, DropRemove,
              CheckSettled, CheckPending, Arm, Wake
<1>5. ASSUME NEW r \in Requests, Cancel(r) PROVE MapHoldsOpenFlight'
    BY <1>5 DEF Cancel, CancelLeader, CancelFollower
<1> QED
    BY <1>1, <1>2, <1>3, <1>4, <1>5 DEF Next, Finished

\* The slot is written on the way from execution to notification.
LEMMA SlotStep ==
    ASSUME TypeOK, SlotOK, FlightsOK, [Next]_vars
    PROVE  SlotOK'
<1> USE RequestAssumption
    DEF TypeOK, Parked, MidPoll, Leading, Executing, Over, Goto,
        SlotOK, FlightsOK
<1>1. ASSUME UNCHANGED vars PROVE SlotOK'
    BY <1>1 DEF vars
<1>2. ASSUME NEW r \in Requests, Arrive(r) PROVE SlotOK'
    BY <1>2 DEF Arrive, BecomeLeader, BecomeFollower
<1>3. ASSUME NEW r \in Requests, Service(r) PROVE SlotOK'
    BY <1>3 DEF Service, ServiceOk, ServiceErr, BodyRead
<1>4. ASSUME NEW r \in Requests, Poll(r) PROVE SlotOK'
    BY <1>4 DEF Poll, Publish, Notify, Remove, DropPublish, DropNotify, DropRemove,
              CheckSettled, CheckPending, Arm, Wake
<1>5. ASSUME NEW r \in Requests, Cancel(r) PROVE SlotOK'
    BY <1>5 DEF Cancel, CancelLeader, CancelFollower
<1> QED
    BY <1>1, <1>2, <1>3, <1>4, <1>5 DEF Next, Finished

\* A slot once filled stays filled.
LEMMA AnswersStep ==
    ASSUME TypeOK, AnswersOK, SlotOK, FlightsOK, [Next]_vars
    PROVE  AnswersOK'
<1> USE RequestAssumption
    DEF TypeOK, Parked, MidPoll, Leading, Executing, Over, Goto,
        AnswersOK, SlotOK, FlightsOK
<1>1. ASSUME UNCHANGED vars PROVE AnswersOK'
    BY <1>1 DEF vars
<1>2. ASSUME NEW r \in Requests, Arrive(r) PROVE AnswersOK'
    BY <1>2 DEF Arrive, BecomeLeader, BecomeFollower
<1>3. ASSUME NEW r \in Requests, Service(r) PROVE AnswersOK'
    BY <1>3 DEF Service, ServiceOk, ServiceErr, BodyRead
<1>4. ASSUME NEW r \in Requests, Poll(r) PROVE AnswersOK'
    BY <1>4 DEF Poll, Publish, Notify, Remove, DropPublish, DropNotify, DropRemove,
              CheckSettled, CheckPending, Arm, Wake
<1>5. ASSUME NEW r \in Requests, Cancel(r) PROVE AnswersOK'
    BY <1>5 DEF Cancel, CancelLeader, CancelFollower
<1> QED
    BY <1>1, <1>2, <1>3, <1>4, <1>5 DEF Next, Finished

\* A settled execution no longer changes its outcome.
LEMMA OutcomeStep ==
    ASSUME TypeOK, FollowersShareOutcome, AnswersOK, SlotOK, FlightsOK, [Next]_vars
    PROVE  FollowersShareOutcome'
<1> USE RequestAssumption
    DEF TypeOK, Parked, MidPoll, Leading, Executing, Over, Goto,
        FollowersShareOutcome, AnswersOK, SlotOK, FlightsOK
<1>1. ASSUME UNCHANGED vars PROVE FollowersShareOutcome'
    BY <1>1 DEF vars
<1>2. ASSUME NEW r \in Requests, Arrive(r) PROVE FollowersShareOutcome'
    BY <1>2 DEF Arrive, BecomeLeader, BecomeFollower
<1>3. ASSUME NEW r \in Requests, Service(r) PROVE FollowersShareOutcome'
    BY <1>3 DEF Service, ServiceOk, ServiceErr, BodyRead
<1>4. ASSUME NEW r \in Requests, Poll(r) PROVE FollowersShareOutcome'
    BY <1>4 DEF Poll, Publish, Notify, Remove, DropPublish, DropNotify, DropRemove,
              CheckSettled, CheckPending, Arm, Wake
<1>5. ASSUME NEW r \in Requests, Cancel(r) PROVE FollowersShareOutcome'
    BY <1>5 DEF Cancel, CancelLeader, CancelFollower
<1> QED
    BY <1>1, <1>2, <1>3, <1>4, <1>5 DEF Next, Finished

\* A leader cannot leave its execution while its worker polls the follower.
LEMMA ArmsStep ==
    ASSUME TypeOK, ArmsInTime, OnePollPerWorker, SlotOK, FlightsOK, [Next]_vars
    PROVE  ArmsInTime'
<1> USE RequestAssumption
    DEF TypeOK, Parked, MidPoll, Leading, Executing, Over, Goto,
        ArmsInTime, OnePollPerWorker, SlotOK, FlightsOK, WorkerFree
<1>1. ASSUME UNCHANGED vars PROVE ArmsInTime'
    BY <1>1 DEF vars
<1>2. ASSUME NEW r \in Requests, Arrive(r) PROVE ArmsInTime'
    BY <1>2 DEF Arrive, BecomeLeader, BecomeFollower
<1>3. ASSUME NEW r \in Requests, Service(r) PROVE ArmsInTime'
    BY <1>3 DEF Service, ServiceOk, ServiceErr, BodyRead
<1>4. ASSUME NEW r \in Requests, Poll(r) PROVE ArmsInTime'
    BY <1>4 DEF Poll, Publish, Notify, Remove, DropPublish, DropNotify, DropRemove,
              CheckSettled, CheckPending, Arm, Wake
<1>5. ASSUME NEW r \in Requests, Cancel(r) PROVE ArmsInTime'
    BY <1>5 DEF Cancel, CancelLeader, CancelFollower
<1> QED
    BY <1>1, <1>2, <1>3, <1>4, <1>5 DEF Next, Finished

\* Only Arm parks a follower, and only Notify passes a leader on.
LEMMA WakeupStep ==
    ASSUME TypeOK, LostWakeupOnlyAcrossWorkers, ArmsInTime, FlightsOK, [Next]_vars
    PROVE  LostWakeupOnlyAcrossWorkers'
<1> USE RequestAssumption
    DEF TypeOK, Parked, MidPoll, Leading, Executing, Over, Goto,
        LostWakeupOnlyAcrossWorkers, ArmsInTime, FlightsOK
<1>1. ASSUME UNCHANGED vars PROVE LostWakeupOnlyAcrossWorkers'
    BY <1>1 DEF vars
<1>2. ASSUME NEW r \in Requests, Arrive(r) PROVE LostWakeupOnlyAcrossWorkers'
    BY <1>2 DEF Arrive, BecomeLeader, BecomeFollower
<1>3. ASSUME NEW r \in Requests, Service(r) PROVE LostWakeupOnlyAcrossWorkers'
    BY <1>3 DEF Service, ServiceOk, ServiceErr, BodyRead
<1>4. ASSUME NEW r \in Requests, Poll(r) PROVE LostWakeupOnlyAcrossWorkers'
    BY <1>4 DEF Poll, Publish, Notify, Remove, DropPublish, DropNotify, DropRemove,
              CheckSettled, CheckPending, Arm, Wake
<1>5. ASSUME NEW r \in Requests, Cancel(r) PROVE LostWakeupOnlyAcrossWorkers'
    BY <1>5 DEF Cancel, CancelLeader, CancelFollower
<1> QED
    BY <1>1, <1>2, <1>3, <1>4, <1>5 DEF Next, Finished

-------------------------------------------------------------------------------
LEMMA InitInv == Init => IInv
<1> SUFFICES ASSUME Init PROVE IInv
    OBVIOUS
<1> QED
    BY RequestAssumption
    DEF Init, IInv, TypeOK, OnePollPerWorker, FlightsOK, LeaderInMap,
        MapHoldsOpenFlight, SlotOK, AnswersOK, FollowersShareOutcome, ArmsInTime,
        LostWakeupOnlyAcrossWorkers, Parked, MidPoll, Leading, Over, Answers

LEMMA StepInv == IInv /\ [Next]_vars => IInv'
<1> SUFFICES ASSUME IInv, [Next]_vars PROVE IInv'
    OBVIOUS
<1> QED
    BY TypeStep, OnePollStep, FlightsStep, LeaderInMapStep, MapStep, SlotStep,
       AnswersStep, OutcomeStep, ArmsStep, WakeupStep
    DEF IInv

THEOREM Invariance == Spec => []IInv
BY InitInv, StepInv, PTL DEF Spec

\* Every variable keeps its type.
THEOREM TypeCorrect == Spec => []TypeOK
BY Invariance, PTL DEF IInv

\* The wrapped service runs for at most one request of a key at a time
\* (coalesce.rs:118-133, 202-205, Drop of LeaderGuard).
THEOREM SingleExecution == Spec => []OneExecutionPerKey
<1>1. IInv => OneExecutionPerKey
    BY DEF IInv, LeaderInMap, OneExecutionPerKey, Leading, Executing
<1> QED
    BY Invariance, <1>1, PTL

\* Whatever is in the map is a flight that its leader will settle and remove.
THEOREM JoinableFlightsAreOpen == Spec => []MapHoldsOpenFlight
BY Invariance, PTL DEF IInv

\* A wake-up is lost only between a leader and a follower of different workers
\* (coalesce.rs:226-244): with one worker per map none is.
THEOREM NoWakeupLostOnOneWorker == Spec => []LostWakeupOnlyAcrossWorkers
BY Invariance, PTL DEF IInv

\* A follower gets a response exactly when its leader's execution made one.
THEOREM OutcomeShared == Spec => []FollowersShareOutcome
BY Invariance, PTL DEF IInv

\* Only the leader an entry names takes it out of the map, in the step that ends
\* the leader: the guard never runs against a newer flight.
THEOREM OwnerRemoves == Spec => OnlyOwnerRemoves
<1> DEFINE A == \A k \in Keys : map[k] # NoFlight /\ map'[k] # map[k] =>
                  /\ map'[k] = NoFlight
                  /\ pc[map[k]] \in {"remove", "drop_remove"}
                  /\ pc'[map[k]] # pc[map[k]]
<1>1. ASSUME IInv, Next PROVE A \/ UNCHANGED vars
  <2> USE <1>1, RequestAssumption
      DEF IInv, TypeOK, LeaderInMap, MapHoldsOpenFlight, Leading, Goto
  <2>1. ASSUME NEW r \in Requests, Arrive(r) PROVE A
      BY <2>1 DEF Arrive, BecomeLeader, BecomeFollower
  <2>2. ASSUME NEW r \in Requests, Service(r) PROVE A
      BY <2>2 DEF Service, ServiceOk, ServiceErr, BodyRead
  <2>3. ASSUME NEW r \in Requests, Poll(r) PROVE A
      BY <2>3 DEF Poll, Publish, Notify, Remove, DropPublish, DropNotify, DropRemove,
                  CheckSettled, CheckPending, Arm, Wake
  <2>4. ASSUME NEW r \in Requests, Cancel(r) PROVE A
      BY <2>4 DEF Cancel, CancelLeader, CancelFollower
  <2> QED
      BY <2>1, <2>2, <2>3, <2>4 DEF Next, Finished
<1>2. IInv /\ [Next]_vars => [A]_vars
    BY <1>1
<1> QED
    BY Invariance, <1>2, PTL DEF Spec, OnlyOwnerRemoves

-------------------------------------------------------------------------------
(* Refinement: each step of the middleware is a step of SharedExecution, or  *)
(* leaves what that specification sees unchanged.                            *)

LEMMA InitRefines == Init => Shared!Init
<1> SUFFICES ASSUME Init PROVE Shared!Init
    OBVIOUS
<1> QED
    BY DEF Init, Shared!Init, AbstractStatus, StatusOf

\* A step of one request changes the abstract status of that request alone.
LEMMA StatusChange ==
    ASSUME NEW r \in Requests, NEW x, StatusOf(r)' = x,
           \A q \in Requests \ {r} : StatusOf(q)' = StatusOf(q)
    PROVE  AbstractStatus' = [AbstractStatus EXCEPT ![r] = x]
BY DEF AbstractStatus

LEMMA StepRefines == IInv /\ [Next]_vars => [Shared!Next]_(Shared!vars)
<1> SUFFICES ASSUME IInv, [Next]_vars
             PROVE  Shared!Next \/ UNCHANGED Shared!vars
    OBVIOUS
<1> USE RequestAssumption
    DEF IInv, TypeOK, FlightsOK, LeaderInMap, MapHoldsOpenFlight, SlotOK, AnswersOK,
        Parked, MidPoll, Leading, Executing, Over, Goto
<1>a. \A q \in Requests : AbstractStatus[q] = StatusOf(q)
    BY DEF AbstractStatus
<1>1. ASSUME UNCHANGED vars PROVE UNCHANGED Shared!vars
    BY <1>1 DEF vars, Shared!vars, AbstractStatus, StatusOf
<1>2. ASSUME NEW r \in Requests, BecomeLeader(r) PROVE Shared!Open(r)
  <2> USE <1>2 DEF BecomeLeader
  <2>1. StatusOf(r) = "idle"
      BY DEF StatusOf
  <2>2. AbstractStatus' = [AbstractStatus EXCEPT ![r] = "joined"]
    <3>1. StatusOf(r)' = "joined"
        BY DEF StatusOf
    <3>2. \A q \in Requests \ {r} : StatusOf(q)' = StatusOf(q)
        BY DEF StatusOf
    <3> QED
        BY <3>1, <3>2, StatusChange
  <2> QED
      BY <2>1, <2>2, <1>a DEF Shared!Open
<1>3. ASSUME NEW r \in Requests, BecomeFollower(r) PROVE Shared!Join(r)
  <2> USE <1>3 DEF BecomeFollower
  <2>1. StatusOf(r) = "idle"
      BY DEF StatusOf
  <2>2. AbstractStatus' = [AbstractStatus EXCEPT ![r] = "joined"]
    <3>1. StatusOf(r)' = "joined"
        BY DEF StatusOf
    <3>2. \A q \in Requests \ {r} : StatusOf(q)' = StatusOf(q)
        BY DEF StatusOf
    <3> QED
        BY <3>1, <3>2, StatusChange
  <2> QED
      BY <2>1, <2>2, <1>a DEF Shared!Join
<1>4. ASSUME NEW r \in Requests, Publish(r) PROVE Shared!Decide(r)
  <2>1. AbstractStatus' = AbstractStatus
      BY <1>4 DEF Publish, AbstractStatus, StatusOf
  <2>2. /\ map[KeyOf[r]] = r
        /\ result[r] = "pending"
        /\ coalesced[r] \in {"ok", "err"}
        /\ result' = [result EXCEPT ![r] = coalesced[r]]
        /\ UNCHANGED <<map, flight>>
      BY <1>4 DEF Publish
  <2> HIDE DEF IInv, TypeOK
  <2> QED
      BY <2>1, <2>2 DEF Shared!Decide
<1>5. ASSUME NEW r \in Requests, DropPublish(r) PROVE Shared!Decide(r)
  <2>1. AbstractStatus' = AbstractStatus
      BY <1>5 DEF DropPublish, AbstractStatus, StatusOf
  <2>2. /\ map[KeyOf[r]] = r
        /\ result[r] = "pending"
        /\ "err" \in {"ok", "err"}
        /\ result' = [result EXCEPT ![r] = "err"]
        /\ UNCHANGED <<map, flight>>
      BY <1>5 DEF DropPublish
  <2> HIDE DEF IInv, TypeOK
  <2> QED
      BY <2>1, <2>2 DEF Shared!Decide
<1>6. ASSUME NEW r \in Requests, Remove(r) PROVE Shared!Settle(r)
  <2> USE <1>6 DEF Remove
  <2>1. StatusOf(r) = "joined"
      BY DEF StatusOf
  <2>2. AbstractStatus' =
            [AbstractStatus EXCEPT ![r] = IF result[flight[r]] = "ok" THEN "served" ELSE "failed"]
    <3>1. StatusOf(r)' = (IF result[flight[r]] = "ok" THEN "served" ELSE "failed")
        BY DEF StatusOf
    <3>2. \A q \in Requests \ {r} : StatusOf(q)' = StatusOf(q)
        BY DEF StatusOf
    <3> QED
        BY <3>1, <3>2, StatusChange
  <2> QED
      BY <2>1, <2>2, <1>a DEF Shared!Settle
<1>7. ASSUME NEW r \in Requests, CheckSettled(r) PROVE Shared!Settle(r)
  <2> USE <1>7 DEF CheckSettled
  <2>1. StatusOf(r) = "joined"
      BY DEF StatusOf
  <2>2. AbstractStatus' =
            [AbstractStatus EXCEPT ![r] = IF result[flight[r]] = "ok" THEN "served" ELSE "failed"]
    <3>1. StatusOf(r)' = (IF result[flight[r]] = "ok" THEN "served" ELSE "failed")
        BY DEF StatusOf
    <3>2. \A q \in Requests \ {r} : StatusOf(q)' = StatusOf(q)
        BY DEF StatusOf
    <3> QED
        BY <3>1, <3>2, StatusChange
  <2> QED
      BY <2>1, <2>2, <1>a DEF Shared!Settle
<1>8. ASSUME NEW r \in Requests, DropRemove(r) PROVE Shared!Leave(r)
  <2> USE <1>8 DEF DropRemove
  <2>1. StatusOf(r) = "joined"
      BY DEF StatusOf
  <2>2. AbstractStatus' = [AbstractStatus EXCEPT ![r] = "gone"]
    <3>1. StatusOf(r)' = "gone"
        BY DEF StatusOf
    <3>2. \A q \in Requests \ {r} : StatusOf(q)' = StatusOf(q)
        BY DEF StatusOf
    <3> QED
        BY <3>1, <3>2, StatusChange
  <2> QED
      BY <2>1, <2>2, <1>a DEF Shared!Leave
<1>9. ASSUME NEW r \in Requests, CancelFollower(r) PROVE Shared!Leave(r)
  <2> USE <1>9 DEF CancelFollower
  <2>1. StatusOf(r) = "joined"
      BY DEF StatusOf
  <2>2. AbstractStatus' = [AbstractStatus EXCEPT ![r] = "gone"]
    <3>1. StatusOf(r)' = "gone"
        BY DEF StatusOf
    <3>2. \A q \in Requests \ {r} : StatusOf(q)' = StatusOf(q)
        BY DEF StatusOf
    <3> QED
        BY <3>1, <3>2, StatusChange
  <2> QED
      BY <2>1, <2>2, <1>a DEF Shared!Leave
<1>10. ASSUME NEW r \in Requests, Service(r) \/ CancelLeader(r) \/ Notify(r)
                  \/ DropNotify(r) \/ CheckPending(r) \/ Arm(r) \/ Wake(r)
       PROVE UNCHANGED Shared!vars
    BY <1>10 DEF Service, ServiceOk, ServiceErr, BodyRead, CancelLeader, Notify,
                 DropNotify, CheckPending, Arm, Wake, Shared!vars,
                 AbstractStatus, StatusOf
<1> QED
    BY <1>1, <1>2, <1>3, <1>4, <1>5, <1>6, <1>7, <1>8, <1>9, <1>10
    DEF Next, Finished, Arrive, Poll, Cancel, Shared!Next

\* Singleflight implements grouped executions that decide once.
THEOREM Refinement == Spec => ImplementsSharedExecution
BY InitRefines, StepRefines, Invariance, PTL
DEF Spec, ImplementsSharedExecution, Shared!Spec
===============================================================================
